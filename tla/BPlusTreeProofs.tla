--------------------------- MODULE BPlusTreeProofs ---------------------------
(***************************************************************************)
(* Proofs about the B+ tree in its three stages (1011_bptree, 1018, 1025), *)
(* for any fan-out, any keys and any input.                                *)
(***************************************************************************)
EXTENDS BPlusTree, FiniteSetTheorems, WellFoundedInduction, TLAPS

-----------------------------------------------------------------------------
(* Numbers and sequences *)

LEMMA Halves ==
    /\ N \in Nat /\ N >= 4 /\ H \in Nat /\ H >= 2 /\ N = H + H
    /\ Keys \subseteq Nat
    /\ Inputs \subseteq Seq(SUBSET Keys)
  BY TreeAssumption DEF H

\* A nonempty set of natural numbers has a least element.
LEMMA LeastNat ==
    ASSUME NEW T \in SUBSET Nat, T # {}
    PROVE  /\ Min(T) \in T
           /\ \A y \in T : Min(T) <= y
<1>1. PICK x \in T : \A y \in T : ~ (<<y, x>> \in OpToRel(<, Nat))
  BY WFMin, NatLessThanWellFounded
<1>2. ASSUME NEW y \in T PROVE x <= y
  <2>1. ~ (<<y, x>> \in OpToRel(<, Nat))
    BY <1>1
  <2>2. ~ (y < x)
    BY <2>1 DEF OpToRel
  <2> QED BY <2>2
<1>3. \E z \in T : \A y \in T : z <= y
  BY <1>2
<1> QED BY <1>3 DEF Min

\* Induction, with the property as a set.
LEMMA AllNat ==
    ASSUME NEW S, 0 \in S, \A n \in Nat : n \in S => n + 1 \in S
    PROVE  \A n \in Nat : n \in S
<1>1. SUFFICES ASSUME Nat \ S # {} PROVE FALSE
  OBVIOUS
<1>2. PICK x \in Nat \ S : \A y \in Nat \ S : x <= y
  BY <1>1, LeastNat
<1>3. x - 1 \in Nat /\ x - 1 \in S
  BY <1>2
<1> QED BY <1>2, <1>3

\* The place of a new key is one of those of the sequence, or behind it.
LEMMA BehindType ==
    ASSUME NEW key \in Seq(Nat), NEW k \in Nat
    PROVE  Behind(key, k) \in 0 .. Len(key)
<1> DEFINE greater == {j \in 1 .. Len(key) : k < key[j]}
           n == Len(key)
<1>1. n \in Nat /\ greater \in SUBSET Nat /\ greater \subseteq 1 .. n
  OBVIOUS
<1>2. Behind(key, k) = IF greater = {} THEN n ELSE Min(greater) - 1
  BY DEF Behind
<1>s. SUFFICES Behind(key, k) \in 0 .. n
  BY DEF n
<1> HIDE DEF greater, n
<1>3. CASE greater = {}
  BY <1>1, <1>2, <1>3
<1>4. CASE greater # {}
  <2>1. Min(greater) \in 1 .. n
    BY <1>1, <1>4, LeastNat
  <2> QED BY <1>1, <1>2, <1>4, <2>1
<1> QED BY <1>3, <1>4

\* What InsertAt of the library returns.
Inserted(t, s, i, e) ==
    \A j \in 1 .. Len(s) + 1 : t[j] = IF j < i THEN s[j] ELSE IF j = i THEN e ELSE s[j - 1]

LEMMA InsertAtType ==
    ASSUME NEW S, NEW s \in Seq(S), NEW i \in 1 .. Len(s) + 1, NEW e \in S
    PROVE  /\ InsertAt(s, i, e) \in Seq(S)
           /\ Len(InsertAt(s, i, e)) = Len(s) + 1
           /\ Inserted(InsertAt(s, i, e), s, i, e)
<1> DEFINE n == Len(s)
           a == SubSeq(s, 1, i - 1)
           b == SubSeq(s, i, n)
           ae == a \o <<e>>
<1>1. n \in Nat /\ i \in Int /\ 1 <= i /\ i <= n + 1
  OBVIOUS
<1>2. /\ a \in Seq(S) /\ Len(a) = i - 1
      /\ \A j \in 1 .. i - 1 : a[j] = s[j]
  BY <1>1
<1>3. /\ b \in Seq(S) /\ Len(b) = n - i + 1
      /\ \A j \in 1 .. n - i + 1 : b[j] = s[i + j - 1]
  BY <1>1
<1> HIDE DEF a, b
<1>4. /\ ae \in Seq(S) /\ Len(ae) = i
      /\ \A j \in 1 .. i : ae[j] = IF j < i THEN s[j] ELSE e
  BY <1>1, <1>2
<1> HIDE DEF ae
<1>5. /\ ae \o b \in Seq(S) /\ Len(ae \o b) = n + 1
      /\ \A j \in 1 .. n + 1 : (ae \o b)[j] = IF j <= i THEN ae[j] ELSE b[j - i]
  <2>0. ae \in Seq(S) /\ b \in Seq(S)
    BY <1>3, <1>4
  <2>1. ae \o b \in Seq(S) /\ Len(ae \o b) = Len(ae) + Len(b)
    BY <2>0
  <2>2. \A j \in 1 .. Len(ae) + Len(b) :
          (ae \o b)[j] = IF j <= Len(ae) THEN ae[j] ELSE b[j - Len(ae)]
    BY <1>3, <1>4
  <2>3. Len(ae) = i /\ Len(ae) + Len(b) = n + 1
    BY <1>1, <1>3, <1>4
  <2> QED BY <2>1, <2>2, <2>3, Zenon
<1>6. \A j \in 1 .. n + 1 : j > i => b[j - i] = s[j - 1]
  <2>1. SUFFICES ASSUME NEW j \in 1 .. n + 1, j > i PROVE b[j - i] = s[j - 1]
    OBVIOUS
  <2>2. j - i \in 1 .. n - i + 1 /\ i + (j - i) - 1 = j - 1
    BY <1>1, <2>1
  <2> QED BY <1>3, <2>2
<1>7. InsertAt(s, i, e) = ae \o b
  BY DEF InsertAt, ae, a, b
<1>8. \A j \in 1 .. n + 1 : (ae \o b)[j] = IF j < i THEN s[j] ELSE IF j = i THEN e ELSE s[j - 1]
  <2>1. SUFFICES ASSUME NEW j \in 1 .. n + 1
                 PROVE  (ae \o b)[j] = IF j < i THEN s[j] ELSE IF j = i THEN e ELSE s[j - 1]
    BY Zenon
  <2>2. CASE j <= i
    <3>1. (ae \o b)[j] = ae[j] /\ j \in 1 .. i
      BY <1>1, <1>5, <2>2
    <3>2. ae[j] = IF j < i THEN s[j] ELSE e
      BY <1>4, <3>1, Zenon
    <3> QED BY <1>1, <2>2, <3>1, <3>2
  <2>3. CASE ~ (j <= i)
    <3>1. j > i /\ ~ (j < i) /\ j # i
      BY <1>1, <2>3
    <3>2. (ae \o b)[j] = b[j - i]
      BY <1>5, <2>3
    <3> QED BY <1>6, <3>1, <3>2
  <2> QED BY <2>2, <2>3
<1> QED BY <1>5, <1>7, <1>8 DEF Inserted

\* No two places of s hold the same; none holds e; what t holds is e or in s.
Distinct(s) == \A j, m \in DOMAIN s : s[j] = s[m] => j = m

Lacks(s, e) == \A j \in DOMAIN s : s[j] # e

Among(t, s, e) == \A j \in DOMAIN t : t[j] = e \/ \E m \in DOMAIN s : t[j] = s[m]

\* So a member of the new sequence is one of the old one, or the new one; and
\* no two of its places hold the same, if that was so and e is new.
LEMMA InsertAtElements ==
    ASSUME NEW S, NEW s \in Seq(S), NEW i \in 1 .. Len(s) + 1, NEW e \in S,
           NEW t, t = InsertAt(s, i, e)
    PROVE  /\ Among(t, s, e)
           /\ Distinct(s) /\ Lacks(s, e) => Distinct(t)
<1> DEFINE n == Len(s)
           old(j) == IF j < i THEN j ELSE j - 1
<1>1. /\ n \in Nat /\ i \in 1 .. n + 1 /\ DOMAIN s = 1 .. n
      /\ t \in Seq(S) /\ Len(t) = n + 1 /\ DOMAIN t = 1 .. n + 1
      /\ \A j \in 1 .. n + 1 : t[j] = IF j < i THEN s[j] ELSE IF j = i THEN e ELSE s[j - 1]
  <2>1. n \in Nat /\ i \in 1 .. n + 1 /\ DOMAIN s = 1 .. n
    OBVIOUS
  <2>2. /\ t \in Seq(S) /\ Len(t) = n + 1
        /\ \A j \in 1 .. n + 1 : t[j] = IF j < i THEN s[j] ELSE IF j = i THEN e ELSE s[j - 1]
    <3>1. t \in Seq(S) /\ Len(t) = Len(s) + 1
      BY InsertAtType
    <3>2. Inserted(t, s, i, e)
      BY InsertAtType
    <3> QED BY <3>1, <3>2, Zenon DEF Inserted
  <2> HIDE DEF n
  <2>3. DOMAIN t = 1 .. Len(t)
    BY <2>2
  <2> QED BY <2>1, <2>2, <2>3, Zenon
<1> HIDE DEF n
<1>2. /\ \A j \in 1 .. n + 1 : j # i => old(j) \in 1 .. n /\ t[j] = s[old(j)]
      /\ t[i] = e
      /\ \A j, m \in 1 .. n + 1 : j # i /\ m # i /\ old(j) = old(m) => j = m
  BY <1>1
<1> HIDE DEF old
<1>3. Among(t, s, e)
  BY <1>1, <1>2 DEF Among
<1>4. ASSUME Distinct(s), Lacks(s, e),
             NEW j \in DOMAIN t, NEW m \in DOMAIN t, t[j] = t[m]
      PROVE  j = m
  <2>1. CASE j = i \/ m = i
    BY <1>1, <1>2, <1>4, <2>1 DEF Lacks
  <2>2. CASE j # i /\ m # i
    <3>1. old(j) = old(m)
      BY <1>1, <1>2, <1>4, <2>2 DEF Distinct
    <3> QED BY <1>1, <1>2, <2>2, <3>1
  <2> QED BY <2>1, <2>2
<1> QED BY <1>3, <1>4 DEF Distinct

LEMMA SeqMonotonic ==
    ASSUME NEW S, NEW T, S \subseteq T, NEW s \in Seq(S)
    PROVE  s \in Seq(T)
  OBVIOUS

\* A part of a sequence.
LEMMA Part ==
    ASSUME NEW S, NEW s \in Seq(S), NEW a \in Nat \ {0}, NEW b \in 0 .. Len(s), a <= b + 1
    PROVE  /\ SubSeq(s, a, b) \in Seq(S)
           /\ Len(SubSeq(s, a, b)) = b - a + 1
           /\ \A j \in 1 .. b - a + 1 : SubSeq(s, a, b)[j] = s[a + j - 1]
  OBVIOUS

-----------------------------------------------------------------------------
(* The invariant *)

\* d is how far a node is above the leaves; pointers up and down agree with it.
Levels(d) ==
    /\ d \in [1 .. Len(node) -> 0 .. Len(node)]
    /\ \A p \in 1 .. Len(node) :
          /\ node[p].isLeaf <=> d[p] = 0
          /\ \A j \in DOMAIN node[p].chi : d[node[p].chi[j]] + 1 = d[p]
          /\ node[p].parent # NULL => d[node[p].parent] = d[p] + 1
    /\ up # <<>> => d[up.left] = d[up.right]

\* Nodes name their children once, and children their parent.
Children ==
    \A p \in 1 .. Len(node) :
        /\ \A j \in DOMAIN node[p].chi : node[node[p].chi[j]].parent = p
        /\ \A j, m \in DOMAIN node[p].chi : node[p].chi[j] = node[p].chi[m] => j = m

\* All have a parent but the root; and, while the root is split, its right half.
Parents ==
    /\ Root # NULL => node[Root].parent = NULL
    /\ \A p \in 1 .. Len(node) :
          node[p].parent = NULL => \/ p = Root
                                   \/ up # <<>> /\ up.left = Root /\ p = up.right

\* The right half that a climb brings along is not yet in the tree.
Pending ==
    up # <<>> =>
        /\ up.left # up.right
        /\ node[up.right].parent = node[up.left].parent
        /\ \A p \in 1 .. Len(node) : \A j \in DOMAIN node[p].chi : node[p].chi[j] # up.right

Enough(p) == Len(node[p].key) >= IF node[p].isLeaf THEN H ELSE H - 1

\* Nodes are half full, the left half of a root that is split among them.
Filled ==
    \A p \in 1 .. Len(node) :
        (p # Root \/ (up # <<>> /\ p = up.left)) => Enough(p)

TreeShape == Children /\ Parents /\ Pending /\ Filled /\ \E d : Levels(d)

OnlyLeaves == up = <<>> /\ \A p \in 1 .. Len(node) : node[p].isLeaf

TreeInv ==
    /\ TypeOK
    /\ stage = "1025" => TreeShape
    /\ stage # "1025" => OnlyLeaves

-----------------------------------------------------------------------------
(* find_leaf *)

LEMMA NodeFields ==
    ASSUME TypeOK, NEW p \in 1 .. Len(node)
    PROVE  /\ node[p] \in NodeType
           /\ node[p].isLeaf \in BOOLEAN
           /\ node[p].key \in Seq(Keys) /\ node[p].key \in Seq(Nat)
           /\ Len(node[p].key) \in 1 .. N - 1
           /\ node[p].chi \in Seq(Nat)
           /\ Len(node[p].chi) = IF node[p].isLeaf THEN 0 ELSE Len(node[p].key) + 1
           /\ \A j \in DOMAIN node[p].chi : node[p].chi[j] \in 1 .. Len(node)
           /\ node[p].link \in 0 .. Len(node) /\ node[p].parent \in 0 .. Len(node)
<1>1. node[p] \in NodeType
  BY DEF TypeOK
<1>2. /\ node[p].isLeaf \in BOOLEAN /\ node[p].key \in Seq(Keys) /\ node[p].chi \in Seq(Nat)
  BY <1>1 DEF NodeType
<1>3. node[p].key \in Seq(Nat)
  BY <1>2, Halves, SeqMonotonic
<1>4. /\ Len(node[p].key) \in 1 .. N - 1
      /\ Len(node[p].chi) = IF node[p].isLeaf THEN 0 ELSE Len(node[p].key) + 1
      /\ \A j \in DOMAIN node[p].chi : node[p].chi[j] \in 1 .. Len(node)
      /\ node[p].link \in 0 .. Len(node) /\ node[p].parent \in 0 .. Len(node)
  BY DEF TypeOK
<1> QED BY <1>1, <1>2, <1>3, <1>4

\* The child through which find_leaf leaves p.
Way(p, k) == node[p].chi[Behind(node[p].key, k) + 1]

LEMMA WayType ==
    ASSUME TypeOK, NEW k \in Nat, NEW p \in 1 .. Len(node), ~node[p].isLeaf
    PROVE  /\ Behind(node[p].key, k) + 1 \in DOMAIN node[p].chi
           /\ Way(p, k) \in 1 .. Len(node)
<1> DEFINE b == Behind(node[p].key, k)
           n == Len(node[p].key)
<1>0. node[p].key \in Seq(Nat)
  BY NodeFields
<1>1. n \in Nat /\ b \in 0 .. n
  <2>1. n \in Nat
    BY <1>0
  <2>2. b \in 0 .. n
    BY <1>0, BehindType, Zenon
  <2> QED BY <2>1, <2>2
<1>2. DOMAIN node[p].chi = 1 .. n + 1
  BY NodeFields
<1> HIDE DEF b, n
<1>3. b + 1 \in DOMAIN node[p].chi
  BY <1>1, <1>2
<1>4. node[p].chi[b + 1] \in 1 .. Len(node)
  BY <1>3, NodeFields
<1> QED BY <1>3, <1>4 DEF Way, b

\* The equation of find_leaf's recursion.
Descent(f, k) ==
    f = [p \in 1 .. Len(node) |-> IF node[p].isLeaf THEN p ELSE f[Way(p, k)]]

\* The recursion is as deep as the tree, and so defines a function.
LEMMA DescentExists ==
    ASSUME TypeOK, NEW d, Levels(d), NEW k \in Nat
    PROVE  \E f : Descent(f, k)
<1> DEFINE L == 1 .. Len(node)
           rhs(f, p) == IF node[p].isLeaf THEN p ELSE f[Way(p, k)]
           Upto(f, n) == f \in [L -> L] /\ \A p \in L : d[p] <= n => f[p] = rhs(f, p)
           S == {n \in Nat : \E f : Upto(f, n)}
<1>d. d \in [L -> 0 .. Len(node)] /\ Len(node) \in Nat
  BY DEF Levels, TypeOK
<1>w. ASSUME NEW p \in L, ~node[p].isLeaf
      PROVE  Way(p, k) \in L /\ d[Way(p, k)] + 1 = d[p]
  BY <1>w, WayType DEF Levels, Way
<1>l. \A p \in L : node[p].isLeaf <=> d[p] = 0
  BY DEF Levels
<1>1. 0 \in S
  <2> DEFINE f == [p \in L |-> p]
  <2>1. Upto(f, 0)
    BY <1>d, <1>l
  <2> QED BY <2>1
<1>2. ASSUME NEW n \in Nat, n \in S PROVE n + 1 \in S
  <2>1. PICK f : Upto(f, n)
    BY <1>2
  <2> DEFINE g == [p \in L |-> rhs(f, p)]
  <2>2. g \in [L -> L]
    BY <1>w, <2>1
  <2>3. ASSUME NEW p \in L, d[p] <= n + 1 PROVE g[p] = rhs(g, p)
    <3>1. CASE node[p].isLeaf
      BY <3>1
    <3>2. CASE ~node[p].isLeaf
      <4> DEFINE q == Way(p, k)
      <4>1. q \in L /\ d[q] + 1 = d[p]
        BY <1>w, <3>2
      <4> HIDE DEF q
      <4>2. d[q] <= n
        BY <1>d, <2>3, <4>1
      <4>3. f[q] = rhs(f, q)
        BY <2>1, <4>1, <4>2
      <4>4. g[q] = rhs(f, q)
        BY <4>1
      <4>5. g[p] = f[q] /\ rhs(g, p) = g[q]
        BY <3>2 DEF q
      <4> QED BY <4>3, <4>4, <4>5
    <3> QED BY <3>1, <3>2
  <2>4. Upto(g, n + 1)
    BY <2>2, <2>3
  <2> HIDE DEF g, Upto
  <2> QED BY <2>4
<1>3. Len(node) \in S
  <2> HIDE DEF S
  <2> QED BY <1>1, <1>2, <1>d, AllNat
<1>4. PICK f : Upto(f, Len(node))
  BY <1>3
<1>5. \A p \in L : f[p] = rhs(f, p)
  BY <1>4, <1>d
<1>6. f = [p \in L |-> rhs(f, p)]
  BY <1>4, <1>5
<1> QED BY <1>6 DEF Descent

\* A descent ends at a leaf.
LEMMA FindLeafType ==
    ASSUME TypeOK, NEW d, Levels(d), NEW k \in Nat, Root # NULL
    PROVE  find_leaf(k) \in 1 .. Len(node) /\ node[find_leaf(k)].isLeaf
<1> DEFINE L == 1 .. Len(node)
           f == CHOOSE g : Descent(g, k)
<1>1. Descent(f, k)
  BY DescentExists
<1>2. find_leaf(k) = f[Root]
  BY DEF find_leaf, Descent, Way
<1> HIDE DEF f
<1>d. d \in [L -> 0 .. Len(node)] /\ Len(node) \in Nat /\ Root \in L
  BY DEF Levels, TypeOK, NULL
<1>w. ASSUME NEW p \in L, ~node[p].isLeaf
      PROVE  Way(p, k) \in L /\ d[Way(p, k)] + 1 = d[p]
  BY <1>w, WayType DEF Levels, Way
<1>l. \A p \in L : node[p].isLeaf <=> d[p] = 0
  BY DEF Levels
<1> DEFINE Good(p) == f[p] \in L /\ node[f[p]].isLeaf
           S == {n \in Nat : \A p \in L : d[p] <= n => Good(p)}
<1>3. 0 \in S
  BY <1>1, <1>d, <1>l DEF Descent
<1>4. ASSUME NEW n \in Nat, n \in S PROVE n + 1 \in S
  <2>1. SUFFICES ASSUME NEW p \in L, d[p] <= n + 1 PROVE Good(p)
    OBVIOUS
  <2>2. CASE node[p].isLeaf
    BY <1>1, <2>2 DEF Descent
  <2>3. CASE ~node[p].isLeaf
    <3>1. Way(p, k) \in L /\ d[Way(p, k)] + 1 = d[p] /\ f[p] = f[Way(p, k)]
      BY <1>1, <1>w, <2>3 DEF Descent
    <3>2. d[Way(p, k)] <= n
      BY <1>d, <2>1, <3>1
    <3> QED BY <1>4, <3>1, <3>2
  <2> QED BY <2>2, <2>3
<1>5. Len(node) \in S
  <2> HIDE DEF S
  <2> QED BY <1>3, <1>4, <1>d, AllNat
<1> QED BY <1>2, <1>5, <1>d

\* With leaves only, it is at one from the start.
LEMMA FindOnlyLeaf ==
    ASSUME TypeOK, NEW k \in Nat, Root # NULL, OnlyLeaves
    PROVE  find_leaf(k) = Root /\ Root \in 1 .. Len(node)
<1> DEFINE z == 0
           d == [p \in 1 .. Len(node) |-> z]
           f == CHOOSE g : Descent(g, k)
           l == [p \in 1 .. Len(node) |-> p]
<1>0. Root \in 1 .. Len(node)
  BY DEF TypeOK, NULL
<1>1. Descent(l, k)
  BY DEF Descent, OnlyLeaves
<1>2. Descent(f, k)
  BY <1>1
<1>3. find_leaf(k) = f[Root]
  BY DEF find_leaf, Descent, Way
<1> HIDE DEF f
<1>4. f[Root] = Root
  BY <1>0, <1>2 DEF Descent, OnlyLeaves
<1> QED BY <1>0, <1>3, <1>4

-----------------------------------------------------------------------------
(* Steps that change keys only *)

\* What is typed is a key, and is remembered.
LEMMA TypedType ==
    ASSUME TypeOK, NEW k \in Offered, Typed(k)
    PROVE  /\ k \in Keys /\ k \in Nat
           /\ inserted' \in Seq(Keys)
           /\ up = <<>> /\ stage' = stage /\ input' = input
<1>1. inserted \in Seq(Keys) /\ input \in Seq(SUBSET Keys) /\ Keys \subseteq Nat
  BY Halves DEF TypeOK
<1>2. k \in Keys
  <2>1. Len(inserted) < Len(input) /\ k \in input[Len(inserted) + 1]
    BY DEF Offered
  <2>2. Len(inserted) + 1 \in 1 .. Len(input)
    BY <1>1, <2>1
  <2>3. input[Len(inserted) + 1] \in SUBSET Keys
    BY <1>1, <2>2
  <2> QED BY <2>1, <2>3
<1>3. inserted \in Seq(Nat) /\ k \in Nat
  BY <1>1, <1>2, SeqMonotonic
<1>4. Behind(inserted, k) \in 0 .. Len(inserted)
  BY <1>3, BehindType, Zenon
<1>5. Behind(inserted, k) + 1 \in 1 .. Len(inserted) + 1
  <2> DEFINE b == Behind(inserted, k)
  <2> HIDE DEF b
  <2>1. b \in 0 .. Len(inserted) /\ Len(inserted) \in Nat
    BY <1>1, <1>4 DEF b
  <2>2. b + 1 \in 1 .. Len(inserted) + 1
    BY <2>1
  <2> QED BY <2>2 DEF b
<1>6. InsertAt(inserted, Behind(inserted, k) + 1, k) \in Seq(Keys)
  BY <1>1, <1>2, <1>5, InsertAtType
<1> QED BY <1>2, <1>3, <1>6 DEF Typed

LEMMA LeafMore ==
    ASSUME NEW x \in NodeType, NEW k \in Keys
    PROVE  LET y == insert_in_leaf(x, k)
           IN  /\ y \in NodeType /\ Len(y.key) = Len(x.key) + 1
               /\ y.isLeaf = x.isLeaf /\ y.chi = x.chi /\ y.link = x.link
               /\ y.parent = x.parent
<1> DEFINE b == Behind(x.key, k)
           s == InsertAt(x.key, b + 1, k)
           y == [x EXCEPT !.key = s]
<1>1. x.key \in Seq(Keys) /\ x.key \in Seq(Nat) /\ k \in Nat /\ Len(x.key) \in Nat
  <2>1. x.key \in Seq(Keys)
    BY DEF NodeType
  <2>2. x.key \in Seq(Nat)
    BY <2>1, Halves, SeqMonotonic, Zenon
  <2> QED BY <2>1, <2>2, Halves
<1>2. b \in 0 .. Len(x.key)
  BY <1>1, BehindType, Zenon
<1>3. b + 1 \in 1 .. Len(x.key) + 1
  <2> HIDE DEF b
  <2> QED BY <1>1, <1>2
<1>4. s \in Seq(Keys) /\ Len(s) = Len(x.key) + 1
  <2> HIDE DEF b
  <2> QED BY <1>1, <1>3, InsertAtType
<1>5. insert_in_leaf(x, k) = y
  BY DEF insert_in_leaf
<1> HIDE DEF s
<1>6. /\ y \in NodeType /\ y.key = s
      /\ y.isLeaf = x.isLeaf /\ y.chi = x.chi /\ y.link = x.link /\ y.parent = x.parent
  BY <1>4 DEF NodeType
<1> QED BY <1>4, <1>5, <1>6

LEMMA AllocLeafType ==
    ASSUME NEW q \in Nat
    PROVE  LET x == alloc_leaf(q)
           IN  /\ x \in NodeType
               /\ x.isLeaf = TRUE /\ x.key = <<>> /\ x.chi = <<>> /\ x.link = NULL
               /\ x.parent = q
<1>1. <<>> \in Seq(Keys) /\ <<>> \in Seq(Nat) /\ NULL \in Nat
  BY DEF NULL
<1> DEFINE e == <<>>
<1> HIDE DEF e, NULL
<1>2. e \in Seq(Keys) /\ e \in Seq(Nat)
  BY <1>1 DEF e
<1>3. alloc_leaf(q) = [isLeaf |-> TRUE, key |-> e, chi |-> e, link |-> NULL, parent |-> q]
  BY DEF alloc_leaf, e
<1> QED BY <1>1, <1>2, <1>3 DEF NodeType, e

\* The first leaf.
LEMMA InsertFirstKeeps ==
    ASSUME TreeInv, NEW k \in Offered, InsertFirst(k)
    PROVE  TreeInv'
<1>1. /\ TypeOK /\ k \in Keys /\ inserted' \in Seq(Keys) /\ up = <<>> /\ up' = <<>>
      /\ stage' = stage /\ input' = input /\ Root' = 1
      /\ stage \in {"1011", "1018", "1025"} /\ input \in Inputs
  BY TypedType DEF TreeInv, InsertFirst, TypeOK
<1> DEFINE x == insert_in_leaf(alloc_leaf(NULL), k)
<1>2. node' = <<x>>
  BY DEF InsertFirst
<1>3. Len(<<>>) = 0 /\ DOMAIN <<>> = {}
  OBVIOUS
<1>4. /\ x \in NodeType /\ Len(x.key) = 1 /\ x.isLeaf = TRUE /\ x.chi = <<>>
      /\ x.link = NULL /\ x.parent = NULL
  <2>1. NULL \in Nat
    BY DEF NULL
  <2> DEFINE a == alloc_leaf(NULL)
  <2>2. /\ a \in NodeType /\ a.isLeaf = TRUE /\ a.key = <<>> /\ a.chi = <<>> /\ a.link = NULL
        /\ a.parent = NULL
    BY <2>1, AllocLeafType, Zenon
  <2> HIDE DEF a, NULL, NodeType
  <2>3. /\ insert_in_leaf(a, k) \in NodeType
        /\ Len(insert_in_leaf(a, k).key) = Len(a.key) + 1
        /\ insert_in_leaf(a, k).isLeaf = a.isLeaf /\ insert_in_leaf(a, k).chi = a.chi
        /\ insert_in_leaf(a, k).link = a.link /\ insert_in_leaf(a, k).parent = a.parent
    BY <1>1, <2>2, LeafMore
  <2>4. Len(a.key) + 1 = 1
    BY <1>3, <2>2
  <2> QED BY <2>2, <2>3, <2>4 DEF a
<1> HIDE DEF x
<1>5. node' \in Seq(NodeType) /\ Len(node') = 1 /\ node'[1] = x
  <2> HIDE DEF NodeType
  <2> QED BY <1>2, <1>4
<1>6. \A p \in 1 .. Len(node') : p = 1
  BY <1>5
<1>7. TypeOK'
  <2>1. 1 \in 1 .. N - 1
    BY Halves
  <2>2. NULL \in 0 .. Len(node') /\ Root' \in 0 .. Len(node')
    BY <1>1, <1>5 DEF NULL
  <2>3. ASSUME NEW p \in 1 .. Len(node')
        PROVE  /\ Len(node'[p].key) \in 1 .. N - 1
               /\ Len(node'[p].chi) = IF node'[p].isLeaf THEN 0 ELSE Len(node'[p].key) + 1
               /\ \A j \in DOMAIN node'[p].chi : node'[p].chi[j] \in 1 .. Len(node')
               /\ node'[p].link \in 0 .. Len(node')
               /\ node'[p].parent \in 0 .. Len(node')
    <3>1. node'[p] = x
      BY <1>5, <1>6
    <3> HIDE DEF NULL
    <3> QED BY <1>3, <1>4, <2>1, <2>2, <3>1
  <2> QED BY <1>1, <1>5, <2>2, <2>3 DEF TypeOK
<1>8. TreeShape'
  <2>1. Children' /\ Parents' /\ Pending' /\ Filled'
    BY <1>1, <1>3, <1>4, <1>5, <1>6 DEF Children, Parents, Pending, Filled
  <2>2. \E d : Levels(d)'
    <3> DEFINE z == 0
               d == [p \in 1 .. 1 |-> z]
    <3>1. d \in [1 .. Len(node') -> 0 .. Len(node')]
      BY <1>5
    <3>2. Levels(d)'
      BY <1>1, <1>3, <1>4, <1>5, <1>6, <3>1 DEF Levels
    <3> QED BY <3>2
  <2> QED BY <2>1, <2>2 DEF TreeShape
<1>9. OnlyLeaves'
  BY <1>1, <1>4, <1>5, <1>6 DEF OnlyLeaves
<1> QED BY <1>7, <1>8, <1>9 DEF TreeInv

\* Where only keys change, so does nothing but the filling.
LEMMA SameShape ==
    ASSUME Children, Parents, Pending, \E d : Levels(d),
           Len(node') = Len(node), Root' = Root, up' = up,
           \A p \in 1 .. Len(node) : /\ node'[p].isLeaf = node[p].isLeaf
                                     /\ node'[p].chi = node[p].chi
                                     /\ node'[p].parent = node[p].parent,
           TypeOK
    PROVE  Children' /\ Parents' /\ Pending' /\ \E d : Levels(d)'
<1>1. \A p \in 1 .. Len(node) : \A j \in DOMAIN node[p].chi : node[p].chi[j] \in 1 .. Len(node)
  BY NodeFields
<1>2. Children'
  BY <1>1 DEF Children
<1>3. Parents'
  <2>1. Root # NULL => Root \in 1 .. Len(node)
    BY DEF TypeOK, NULL
  <2> QED BY <2>1 DEF Parents
<1>4. Pending'
  <2>1. up # <<>> => up.left \in 1 .. Len(node) /\ up.right \in 1 .. Len(node)
    BY DEF TypeOK, UpType
  <2> QED BY <2>1 DEF Pending
<1>5. PICK d : Levels(d)
  OBVIOUS
<1>6. Levels(d)'
  <2>1. \A p \in 1 .. Len(node') :
            /\ node'[p].isLeaf <=> d[p] = 0
            /\ \A j \in DOMAIN node'[p].chi : d[node'[p].chi[j]] + 1 = d[p]
            /\ node'[p].parent # NULL => d[node'[p].parent] = d[p] + 1
    BY <1>5 DEF Levels
  <2>2. d \in [1 .. Len(node') -> 0 .. Len(node')] /\ (up' # <<>> => d[up'.left] = d[up'.right])
    BY <1>5 DEF Levels
  <2> QED BY <2>1, <2>2 DEF Levels
<1> QED BY <1>2, <1>3, <1>4, <1>6

\* A key goes into a leaf that has room.
LEMMA InsertInLeafKeeps ==
    ASSUME TreeInv, NEW k \in Offered, InsertInLeaf(k)
    PROVE  TreeInv'
<1>1. /\ TypeOK /\ k \in Keys /\ k \in Nat /\ inserted' \in Seq(Keys) /\ up = <<>> /\ up' = up
      /\ stage' = stage /\ input' = input /\ Root' = Root /\ Root # NULL
      /\ stage \in {"1011", "1018", "1025"} /\ input \in Inputs /\ Root \in 0 .. Len(node)
      /\ node \in Seq(NodeType)
  BY TypedType DEF TreeInv, InsertInLeaf, TypeOK
<1>2. PICK l \in 1 .. Len(node) : l = find_leaf(k)
  BY <1>1, FindLeafType, FindOnlyLeaf DEF TreeInv, TreeShape
<1> DEFINE y == insert_in_leaf(node[l], k)
<1>3. Len(node[l].key) < N - 1 /\ node' = [node EXCEPT ![l] = y]
  BY <1>2 DEF InsertInLeaf
<1>4. /\ y \in NodeType /\ Len(y.key) = Len(node[l].key) + 1
      /\ y.isLeaf = node[l].isLeaf /\ y.chi = node[l].chi /\ y.link = node[l].link
      /\ y.parent = node[l].parent
  BY <1>1, NodeFields, LeafMore
<1> HIDE DEF y
<1>5. /\ node' \in Seq(NodeType) /\ Len(node') = Len(node) /\ node'[l] = y
      /\ \A p \in 1 .. Len(node) : p # l => node'[p] = node[p]
  <2> HIDE DEF NodeType
  <2> QED BY <1>1, <1>3, <1>4
<1>6. Len(y.key) \in 1 .. N - 1 /\ Len(y.key) >= Len(node[l].key)
  <2>1. Len(node[l].key) \in 1 .. N - 1
    BY <1>1, NodeFields
  <2> DEFINE n == Len(node[l].key)
  <2> HIDE DEF n
  <2>2. Len(y.key) = n + 1 /\ n \in 1 .. N - 1 /\ n < N - 1
    BY <1>3, <1>4, <2>1 DEF n
  <2>3. Len(y.key) \in 1 .. N - 1 /\ Len(y.key) >= n
    BY <2>2, Halves
  <2> QED BY <2>3 DEF n
<1>7. ASSUME NEW p \in 1 .. Len(node)
      PROVE  /\ node'[p].isLeaf = node[p].isLeaf
             /\ node'[p].chi = node[p].chi
             /\ node'[p].link = node[p].link
             /\ node'[p].parent = node[p].parent
             /\ Len(node'[p].key) \in 1 .. N - 1
             /\ Enough(p) => Enough(p)'
  <2>1. CASE p = l
    <3>1. /\ node'[p].isLeaf = node[p].isLeaf
          /\ node'[p].chi = node[p].chi
          /\ node'[p].link = node[p].link
          /\ node'[p].parent = node[p].parent
          /\ Len(node'[p].key) \in 1 .. N - 1
      BY <1>4, <1>5, <1>6, <2>1
    <3>2. Enough(p) => Enough(p)'
      <4>1. Len(node[p].key) \in Nat /\ Len(node'[p].key) \in Nat
            /\ Len(node'[p].key) >= Len(node[p].key)
        <5>1. node'[p].key = y.key /\ Len(node[p].key) \in 1 .. N - 1
          BY <1>1, <1>5, <2>1, NodeFields
        <5>2. \A n \in 1 .. N - 1 : n \in Nat
          BY Halves
        <5> QED BY <1>6, <2>1, <5>1, <5>2
      <4> DEFINE a == Len(node[p].key)
                 b == Len(node'[p].key)
                 c == IF node[p].isLeaf THEN H ELSE H - 1
      <4>2. c \in Nat
        BY Halves
      <4>3. (Enough(p) <=> a >= c) /\ (Enough(p)' <=> b >= c)
        BY <3>1 DEF Enough
      <4>4. a \in Nat /\ b \in Nat /\ b >= a
        BY <4>1
      <4> HIDE DEF a, b, c
      <4> QED BY <4>2, <4>3, <4>4
    <3> QED BY <3>1, <3>2
  <2>2. CASE p # l
    <3>1. node'[p] = node[p]
      BY <1>5, <2>2
    <3>2. Len(node[p].key) \in 1 .. N - 1
      BY <1>1, NodeFields
    <3> QED BY <3>1, <3>2 DEF Enough
  <2> QED BY <2>1, <2>2
<1>8. TypeOK'
  <2>1. ASSUME NEW p \in 1 .. Len(node')
        PROVE  /\ Len(node'[p].key) \in 1 .. N - 1
               /\ Len(node'[p].chi) = IF node'[p].isLeaf THEN 0 ELSE Len(node'[p].key) + 1
               /\ \A j \in DOMAIN node'[p].chi : node'[p].chi[j] \in 1 .. Len(node')
               /\ node'[p].link \in 0 .. Len(node')
               /\ node'[p].parent \in 0 .. Len(node')
    <3>1. p \in 1 .. Len(node)
      BY <1>5
    <3>2. ~node[l].isLeaf => FALSE
      BY <1>1, <1>2, FindLeafType, FindOnlyLeaf DEF TreeInv, TreeShape, OnlyLeaves
    <3> QED BY <1>1, <1>5, <1>7, <3>1, <3>2, NodeFields
  <2> QED BY <1>1, <1>5, <2>1 DEF TypeOK
<1>9. ASSUME stage = "1025" PROVE TreeShape'
  <2>1. Children' /\ Parents' /\ Pending' /\ \E d : Levels(d)'
    BY <1>1, <1>5, <1>7, <1>9, SameShape DEF TreeInv, TreeShape
  <2>2. Filled'
    BY <1>1, <1>5, <1>7, <1>9 DEF TreeInv, TreeShape, Filled
  <2> QED BY <2>1, <2>2 DEF TreeShape
<1>10. ASSUME stage # "1025" PROVE OnlyLeaves'
  BY <1>1, <1>5, <1>7, <1>10 DEF TreeInv, OnlyLeaves
<1> QED BY <1>1, <1>8, <1>9, <1>10 DEF TreeInv

\* Nothing but what is remembered of the input.
LEMMA UnchangedKeeps ==
    ASSUME TreeInv, UNCHANGED <<stage, input, Root, node, up>>, inserted' \in Seq(Keys)
    PROVE  TreeInv'
<1>1. TypeOK'
  BY DEF TreeInv, TypeOK, UpType
<1>2. ASSUME stage = "1025" PROVE TreeShape'
  <2>1. Children' /\ Parents' /\ Pending' /\ \E d : Levels(d)'
    BY <1>2, SameShape DEF TreeInv, TreeShape
  <2>2. Filled'
    BY <1>2 DEF TreeInv, TreeShape, Filled, Enough
  <2> QED BY <2>1, <2>2 DEF TreeShape
<1>3. ASSUME stage # "1025" PROVE OnlyLeaves'
  BY <1>3 DEF TreeInv, OnlyLeaves
<1> QED BY <1>1, <1>2, <1>3 DEF TreeInv

-----------------------------------------------------------------------------
(* Splits *)

\* A full node and one entry more, cut in two.
LEMMA TempType ==
    ASSUME NEW x \in NodeType, Len(x.key) = N - 1, NEW k \in Keys, NEW ptr \in Nat,
           x.isLeaf \/ Len(x.chi) = N
    PROVE  LET t == insert_in_temp(x, k, ptr)
           IN  /\ t.key \in Seq(Keys) /\ Len(t.key) = N
               /\ t.key[H + 1] \in Keys
               /\ ~x.isLeaf =>
                     /\ t.chi \in Seq(Nat) /\ Len(t.chi) = N + 1
                     /\ Among(t.chi, x.chi, ptr)
                     /\ Distinct(x.chi) /\ Lacks(x.chi, ptr) => Distinct(t.chi)
<1> DEFINE t == insert_in_temp(x, k, ptr)
           ki == Behind(x.key, k) + 1
<1>1. x.key \in Seq(Keys) /\ x.chi \in Seq(Nat)
  BY DEF NodeType
<1>2. x.key \in Seq(Nat) /\ k \in Nat
  BY <1>1, Halves, SeqMonotonic
<1>3. ki \in 1 .. Len(x.key) + 1
  <2> DEFINE b == Behind(x.key, k)
             n == Len(x.key)
  <2>1. b \in 0 .. n
    BY <1>2, BehindType, Zenon
  <2>2. n \in Nat
    BY <1>1
  <2>3. ki = b + 1
    OBVIOUS
  <2>4. SUFFICES b + 1 \in 1 .. n + 1
    BY <2>3
  <2> HIDE DEF b, n
  <2> QED BY <2>1, <2>2
<1>4. /\ t.key = InsertAt(x.key, ki, k)
      /\ ~x.isLeaf => t.chi = InsertAt(x.chi, ki + 1, ptr)
  BY DEF insert_in_temp
<1> HIDE DEF t, ki
<1>5. t.key \in Seq(Keys) /\ Len(t.key) = N - 1 + 1
  <2>1. /\ InsertAt(x.key, ki, k) \in Seq(Keys)
        /\ Len(InsertAt(x.key, ki, k)) = Len(x.key) + 1
    BY <1>1, <1>3, InsertAtType
  <2> QED BY <1>4, <2>1
<1>6. N - 1 + 1 = N /\ H + 1 \in 1 .. N
  BY Halves
<1>7. t.key[H + 1] \in Keys
  BY <1>5, <1>6
<1>8. ASSUME ~x.isLeaf
      PROVE  /\ t.chi \in Seq(Nat) /\ Len(t.chi) = N + 1
             /\ Among(t.chi, x.chi, ptr)
             /\ Distinct(x.chi) /\ Lacks(x.chi, ptr) => Distinct(t.chi)
  <2> DEFINE s == x.chi
             i == ki + 1
  <2>1. s \in Seq(Nat) /\ Len(s) = N /\ t.chi = InsertAt(s, i, ptr)
    BY <1>1, <1>4, <1>8
  <2>2. i \in 1 .. Len(s) + 1
    <3>1. ki \in 1 .. N - 1 + 1 /\ Len(s) = N
      BY <1>3, <2>1
    <3> HIDE DEF s
    <3> QED BY <3>1, Halves
  <2> HIDE DEF i
  <2>4. PICK c, g : c = t.chi /\ g = s
    OBVIOUS
  <2>5. g \in Seq(Nat) /\ i \in 1 .. Len(g) + 1 /\ ptr \in Nat /\ c = InsertAt(g, i, ptr)
    BY <2>1, <2>2, <2>4
  <2>3. c \in Seq(Nat) /\ Len(c) = Len(g) + 1
    BY <2>5, InsertAtType
  <2>6. Among(c, g, ptr) /\ (Distinct(g) /\ Lacks(g, ptr) => Distinct(c))
    BY <2>5, InsertAtElements
  <2> QED BY <2>1, <2>3, <2>4, <2>6
<1> QED BY <1>5, <1>6, <1>7, <1>8 DEF t

\* The halves of a leaf.
LEMMA LeftLeafType ==
    ASSUME NEW x \in NodeType, NEW temp, temp.key \in Seq(Keys), Len(temp.key) = N, NEW q \in Nat
    PROVE  LET y == [copy_from_temp_to_left(temp, x) EXCEPT !.link = q]
           IN  /\ y \in NodeType /\ Len(y.key) = H /\ y.isLeaf = x.isLeaf /\ y.chi = x.chi
               /\ y.link = q /\ y.parent = x.parent
<1> DEFINE s == SubSeq(temp.key, 1, H)
           y == [x EXCEPT !.key = s, !.link = q]
<1>1. s \in Seq(Keys) /\ Len(s) = H
  <2>1. H \in 0 .. N /\ 1 \in Nat \ {0} /\ H - 1 + 1 = H /\ 1 <= H + 1
    BY Halves
  <2> QED BY <2>1, Part
<1>2. [copy_from_temp_to_left(temp, x) EXCEPT !.link = q] = y
  BY DEF copy_from_temp_to_left
<1> HIDE DEF s
<1>3. /\ y \in NodeType /\ y.key = s /\ y.isLeaf = x.isLeaf /\ y.chi = x.chi
      /\ y.link = q /\ y.parent = x.parent
  BY <1>1 DEF NodeType
<1> QED BY <1>1, <1>2, <1>3

LEMMA RightLeafType ==
    ASSUME NEW x \in NodeType, NEW temp, temp.key \in Seq(Keys), Len(temp.key) = N
    PROVE  LET y == RightLeaf(temp, x)
           IN  /\ y \in NodeType /\ Len(y.key) = H /\ y.isLeaf = TRUE /\ y.chi = <<>>
               /\ y.link = x.link /\ y.parent = x.parent
<1> DEFINE s == SubSeq(temp.key, H + 1, N)
           a == alloc_leaf(x.parent)
           b == [a EXCEPT !.link = x.link]
           y == [b EXCEPT !.key = s]
           e == <<>>
<1>1. s \in Seq(Keys) /\ Len(s) = H
  <2>1. H + 1 \in Nat \ {0} /\ N \in 0 .. N /\ N - (H + 1) + 1 = H /\ H + 1 <= N + 1
    BY Halves
  <2> QED BY <2>1, Part
<1>2. RightLeaf(temp, x) = y
  BY DEF RightLeaf, copy_from_temp_to_right
<1>3. x.parent \in Nat /\ x.link \in Nat
  BY DEF NodeType
<1>4. a \in NodeType /\ a.isLeaf = TRUE /\ a.chi = e /\ a.parent = x.parent
  BY <1>3, AllocLeafType, Zenon
<1> HIDE DEF s, a, e
<1>5. b \in NodeType /\ b.isLeaf = TRUE /\ b.chi = e /\ b.parent = x.parent /\ b.link = x.link
  BY <1>3, <1>4 DEF NodeType
<1> HIDE DEF b
<1>6. /\ y \in NodeType /\ y.isLeaf = TRUE /\ y.chi = e /\ y.parent = x.parent
      /\ y.link = x.link /\ y.key = s
  BY <1>1, <1>5 DEF NodeType
<1> QED BY <1>1, <1>2, <1>6 DEF e

\* A node changes and one is added.
LEMMA ReplacedAndAdded ==
    ASSUME NEW S, NEW s \in Seq(S), NEW i \in 1 .. Len(s), NEW x \in S, NEW y \in S
    PROVE  LET t == Append([s EXCEPT ![i] = x], y)
           IN  /\ t \in Seq(S) /\ Len(t) = Len(s) + 1 /\ t[i] = x /\ t[Len(s) + 1] = y
               /\ \A p \in 1 .. Len(s) : p # i => t[p] = s[p]
<1> DEFINE z == [s EXCEPT ![i] = x]
<1>1. /\ z \in Seq(S) /\ Len(z) = Len(s) /\ z[i] = x
      /\ \A p \in 1 .. Len(s) : p # i => z[p] = s[p]
  OBVIOUS
<1> HIDE DEF z
<1>2. /\ Append(z, y) \in Seq(S) /\ Len(Append(z, y)) = Len(z) + 1
      /\ Append(z, y)[Len(z) + 1] = y
      /\ \A p \in 1 .. Len(z) : Append(z, y)[p] = z[p]
  BY <1>1
<1> QED BY <1>1, <1>2 DEF z

\* 1025: the full leaf and a new one behind it.
LEMMA SplitLeafKeeps ==
    ASSUME TreeInv, NEW k \in Offered, SplitLeaf(k)
    PROVE  TreeInv'
<1>1. /\ TypeOK /\ k \in Keys /\ k \in Nat /\ inserted' \in Seq(Keys) /\ up = <<>>
      /\ stage' = stage /\ input' = input /\ Root' = Root /\ Root # NULL
      /\ stage = "1025" /\ input \in Inputs /\ Root \in 0 .. Len(node)
      /\ node \in Seq(NodeType) /\ TreeShape /\ Len(node) \in Nat
  BY TypedType DEF TreeInv, SplitLeaf, TypeOK
<1>d. PICK d : Levels(d)
  BY <1>1 DEF TreeShape
<1>2. PICK l \in 1 .. Len(node) : l = find_leaf(k) /\ node[l].isLeaf
  BY <1>1, <1>d, FindLeafType
<1>R. PICK R : R = Len(node) + 1
  OBVIOUS
<1> DEFINE t == insert_in_temp(node[l], k, NULL)
           x == [copy_from_temp_to_left(t, node[l]) EXCEPT !.link = NULL]
           y == RightLeaf(t, node[l])
           u == [left |-> l, rs_key |-> t.key[H + 1], right |-> R]
<1>3. /\ Len(node[l].key) = N - 1
      /\ node' = Append([node EXCEPT ![l] = x], y)
      /\ up' = u
  BY <1>2, <1>R DEF SplitLeaf
<1>n. node[l] \in NodeType /\ NULL \in Nat
  BY <1>1, NodeFields DEF NULL
<1>4. t.key \in Seq(Keys) /\ Len(t.key) = N /\ t.key[H + 1] \in Keys
  BY <1>1, <1>2, <1>3, <1>n, TempType
<1> HIDE DEF t
<1>6. /\ x \in NodeType /\ x.isLeaf = TRUE /\ Len(x.key) = H /\ x.chi = node[l].chi
      /\ x.link = NULL /\ x.parent = node[l].parent
  BY <1>2, <1>4, <1>n, LeftLeafType
<1>7. /\ y \in NodeType /\ y.isLeaf = TRUE /\ Len(y.key) = H /\ y.chi = <<>>
      /\ y.link = node[l].link /\ y.parent = node[l].parent
  BY <1>4, <1>n, RightLeafType
<1> HIDE DEF x, y
<1>8. /\ node' \in Seq(NodeType) /\ Len(node') = R /\ node'[l] = x /\ node'[R] = y
      /\ \A p \in 1 .. Len(node) : p # l => node'[p] = node[p]
  <2> HIDE DEF NodeType
  <2> QED BY <1>1, <1>3, <1>6, <1>7, <1>R, ReplacedAndAdded
<1>9. /\ R \in Nat /\ l # R
      /\ \A p \in 1 .. R : p = R \/ p \in 1 .. Len(node)
      /\ \A p \in 0 .. Len(node) : p \in 0 .. R /\ p # R
      /\ \A p \in 1 .. Len(node) : p \in 1 .. R
      /\ R \in 1 .. R /\ l \in 1 .. R
  BY <1>1, <1>R
<1>10. ASSUME NEW p \in 1 .. Len(node)
       PROVE  /\ node'[p].isLeaf = node[p].isLeaf /\ node'[p].chi = node[p].chi
              /\ node'[p].parent = node[p].parent
  BY <1>2, <1>6, <1>8
<1>11. u # <<>> /\ u.left = l /\ u.right = R /\ u \in [left : 1 .. R, rs_key : Keys, right : 1 .. R]
  BY <1>4, <1>9
<1> HIDE DEF u
<1>12. TypeOK'
  <2>1. ASSUME NEW p \in 1 .. Len(node')
        PROVE  /\ Len(node'[p].key) \in 1 .. N - 1
               /\ Len(node'[p].chi) = IF node'[p].isLeaf THEN 0 ELSE Len(node'[p].key) + 1
               /\ \A j \in DOMAIN node'[p].chi : node'[p].chi[j] \in 1 .. Len(node')
               /\ node'[p].link \in 0 .. Len(node')
               /\ node'[p].parent \in 0 .. Len(node')
    <3>0. H \in 1 .. N - 1 /\ NULL \in 0 .. R
      BY <1>9, Halves DEF NULL
    <3>1. CASE p = R
      <4>1. Len(<<>>) = 0 /\ DOMAIN <<>> = {}
        OBVIOUS
      <4>2. node[l].link \in 0 .. Len(node) /\ node[l].parent \in 0 .. Len(node)
        BY <1>1, NodeFields
      <4> QED BY <1>7, <1>8, <1>9, <3>0, <3>1, <4>1, <4>2
    <3>2. CASE p = l
      <4>1. Len(node[l].chi) = 0
        BY <1>1, <1>2, NodeFields
      <4>2. /\ node[l].parent \in 0 .. Len(node)
            /\ \A j \in DOMAIN node[l].chi : node[l].chi[j] \in 1 .. Len(node)
        BY <1>1, NodeFields
      <4> QED BY <1>6, <1>8, <1>9, <3>0, <3>2, <4>1, <4>2
    <3>3. CASE p # l /\ p # R
      <4>1. p \in 1 .. Len(node) /\ node'[p] = node[p]
        BY <1>8, <1>9, <3>3
      <4>2. /\ Len(node[p].key) \in 1 .. N - 1
            /\ Len(node[p].chi) = IF node[p].isLeaf THEN 0 ELSE Len(node[p].key) + 1
            /\ \A j \in DOMAIN node[p].chi : node[p].chi[j] \in 1 .. Len(node)
            /\ node[p].link \in 0 .. Len(node)
            /\ node[p].parent \in 0 .. Len(node)
        BY <1>1, <4>1, NodeFields
      <4> QED BY <1>8, <1>9, <4>1, <4>2
    <3> QED BY <3>1, <3>2, <3>3
  <2>2. Root' \in 0 .. Len(node')
    BY <1>1, <1>8, <1>9
  <2> QED BY <1>1, <1>3, <1>8, <1>11, <2>1, <2>2 DEF TypeOK, UpType
<1>c. \A p \in 1 .. Len(node) : \A j \in DOMAIN node[p].chi : node[p].chi[j] \in 1 .. Len(node)
  BY <1>1, NodeFields
<1>e. node'[R].chi = <<>> /\ DOMAIN <<>> = {}
  BY <1>7, <1>8
<1>p. Root \in 1 .. Len(node)
  BY <1>1 DEF NULL
<1>13. Children'
  <2>1. SUFFICES ASSUME NEW p \in 1 .. R
                 PROVE  /\ \A j \in DOMAIN node'[p].chi : node'[node'[p].chi[j]].parent = p
                        /\ \A j, m \in DOMAIN node'[p].chi :
                              node'[p].chi[j] = node'[p].chi[m] => j = m
    BY <1>8 DEF Children
  <2>2. CASE p = R
    BY <1>e, <2>2
  <2>3. CASE p # R
    <3>1. p \in 1 .. Len(node) /\ node'[p].chi = node[p].chi
      BY <1>9, <1>10, <2>3
    <3>2. /\ \A j \in DOMAIN node[p].chi : node[node[p].chi[j]].parent = p
          /\ \A j, m \in DOMAIN node[p].chi : node[p].chi[j] = node[p].chi[m] => j = m
      BY <1>1, <3>1 DEF TreeShape, Children
    <3>3. \A j \in DOMAIN node[p].chi : node'[node[p].chi[j]].parent = node[node[p].chi[j]].parent
      BY <1>10, <1>c, <3>1
    <3> QED BY <3>1, <3>2, <3>3
  <2> QED BY <2>2, <2>3
<1>14. Parents'
  BY <1>1, <1>3, <1>7, <1>8, <1>9, <1>10, <1>11, <1>p DEF TreeShape, Parents
<1>15. Pending'
  <2>1. node'[R].parent = node'[l].parent
    BY <1>6, <1>7, <1>8
  <2>2. \A p \in 1 .. Len(node') : \A j \in DOMAIN node'[p].chi : node'[p].chi[j] # R
    BY <1>8, <1>9, <1>10, <1>c, <1>e
  <2> QED BY <1>3, <1>9, <1>11, <2>1, <2>2 DEF Pending
<1>16. Filled'
  <2>1. Enough(R)' /\ Enough(l)'
    <3>1. H \in Nat /\ H >= H
      BY Halves
    <3>2. Len(node'[R].key) = H /\ Len(node'[l].key) = H /\ node'[R].isLeaf /\ node'[l].isLeaf
      BY <1>6, <1>7, <1>8
    <3>3. Len(node'[R].key) >= IF node'[R].isLeaf THEN H ELSE H - 1
      BY <3>1, <3>2
    <3>4. Len(node'[l].key) >= IF node'[l].isLeaf THEN H ELSE H - 1
      BY <3>1, <3>2
    <3> QED BY <3>3, <3>4 DEF Enough
  <2>2. ASSUME NEW p \in 1 .. Len(node), p # l, p # Root PROVE Enough(p)'
    BY <1>1, <1>8, <2>2 DEF TreeShape, Filled, Enough
  <2>3. SUFFICES ASSUME NEW p \in 1 .. Len(node'),
                        p # Root' \/ (up' # <<>> /\ p = up'.left)
                 PROVE  Enough(p)'
    BY DEF Filled
  <2>4. CASE p = R \/ p = l
    BY <2>1, <2>4
  <2>5. CASE p # R /\ p # l
    BY <1>1, <1>3, <1>8, <1>9, <1>11, <2>2, <2>3, <2>5
  <2> QED BY <2>4, <2>5
<1>17. \E e : Levels(e)'
  <2> DEFINE z == 0
  <2>1. PICK e : e = [p \in 1 .. R |-> IF p = R THEN z ELSE d[p]]
    OBVIOUS
  <2>d. /\ d \in [1 .. Len(node) -> 0 .. Len(node)] /\ d[l] = z
        /\ \A p \in 1 .. Len(node) :
              /\ node[p].isLeaf <=> d[p] = z
              /\ \A j \in DOMAIN node[p].chi : d[node[p].chi[j]] + 1 = d[p]
              /\ node[p].parent # NULL => d[node[p].parent] = d[p] + 1
    BY <1>2, <1>d DEF Levels
  <2>2. z \in 0 .. R
    BY <1>9
  <2> HIDE DEF z
  <2>3. /\ e \in [1 .. R -> 0 .. R] /\ e[R] = z
        /\ \A p \in 1 .. Len(node) : e[p] = d[p]
    <3>1. \A p \in 1 .. Len(node) : d[p] \in 0 .. R
      BY <1>9, <2>d
    <3> QED BY <1>9, <2>1, <2>2, <3>1
  <2>4. \A p \in 1 .. Len(node) : node[p].parent # NULL => node[p].parent \in 1 .. Len(node)
    BY <1>1, NodeFields DEF NULL
  <2>5. ASSUME NEW p \in 1 .. Len(node')
        PROVE  /\ node'[p].isLeaf <=> e[p] = z
               /\ \A j \in DOMAIN node'[p].chi : e[node'[p].chi[j]] + 1 = e[p]
               /\ node'[p].parent # NULL => e[node'[p].parent] = e[p] + 1
    <3>1. CASE p = R
      BY <1>7, <1>8, <1>e, <2>3, <2>4, <2>d, <3>1
    <3>2. CASE p # R
      <4>1. p \in 1 .. Len(node)
        BY <1>8, <1>9, <3>2
      <4>2. /\ node[p].isLeaf <=> e[p] = z
            /\ \A j \in DOMAIN node[p].chi : e[node[p].chi[j]] + 1 = e[p]
            /\ node[p].parent # NULL => e[node[p].parent] = e[p] + 1
        BY <1>c, <2>3, <2>4, <2>d, <4>1
      <4> QED BY <1>10, <4>1, <4>2
    <3> QED BY <3>1, <3>2
  <2>6. e[up'.left] = e[up'.right]
    BY <1>3, <1>11, <2>3, <2>d
  <2>7. Levels(e)'
    BY <1>8, <2>3, <2>5, <2>6 DEF Levels, z
  <2> QED BY <2>7
<1> QED BY <1>1, <1>12, <1>13, <1>14, <1>15, <1>16, <1>17 DEF TreeInv, TreeShape

\* What TypeOK says of a node among n.
NodeOK(x, n) ==
    /\ x \in NodeType
    /\ Len(x.key) \in 1 .. N - 1
    /\ Len(x.chi) = IF x.isLeaf THEN 0 ELSE Len(x.key) + 1
    /\ \A j \in DOMAIN x.chi : x.chi[j] \in 1 .. n
    /\ x.link \in 0 .. n
    /\ x.parent \in 0 .. n

LEMMA NodesAreOK ==
    ASSUME TypeOK
    PROVE  \A p \in 1 .. Len(node) : NodeOK(node[p], Len(node))
  BY NodeFields DEF NodeOK

LEMMA NodeOKMore ==
    ASSUME NEW x, NEW n \in Nat, NEW m \in Nat, n <= m, NodeOK(x, n)
    PROVE  NodeOK(x, m)
<1>1. 1 .. n \subseteq 1 .. m /\ 0 .. n \subseteq 0 .. m
  OBVIOUS
<1> QED BY <1>1 DEF NodeOK

\* 1018: the full leaf, with the new key behind its own, is halved.
LEMMA InsertInHalvesKeeps ==
    ASSUME TreeInv, NEW k \in Offered, InsertInHalves(k)
    PROVE  TreeInv'
<1>1. /\ TypeOK /\ k \in Keys /\ k \in Nat /\ inserted' \in Seq(Keys) /\ up = <<>> /\ up' = up
      /\ stage' = stage /\ input' = input /\ Root' = Root /\ Root # NULL
      /\ stage = "1018" /\ input \in Inputs /\ Root \in 0 .. Len(node)
      /\ node \in Seq(NodeType) /\ OnlyLeaves /\ Len(node) \in Nat
  BY TypedType DEF TreeInv, InsertInHalves, TypeOK
<1>2. PICK l \in 1 .. Len(node) : l = find_leaf(k)
  BY <1>1, FindOnlyLeaf
<1>R. PICK R : R = Len(node) + 1
  OBVIOUS
<1> DEFINE t == [key |-> Append(node[l].key, k)]
           x == [copy_from_temp_to_left(t, node[l]) EXCEPT !.link = R]
           y == RightLeaf(t, node[l])
<1>3. Len(node[l].key) = N - 1 /\ node' = Append([node EXCEPT ![l] = x], y)
  BY <1>2, <1>R DEF InsertInHalves
<1>n. /\ node[l] \in NodeType /\ node[l].isLeaf /\ R \in Nat /\ node[l].key \in Seq(Keys)
      /\ NodeOK(node[l], Len(node))
  <2>1. node[l] \in NodeType /\ node[l].key \in Seq(Keys)
    BY <1>1, NodeFields
  <2>2. NodeOK(node[l], Len(node))
    BY <1>1, NodesAreOK
  <2>3. node[l].isLeaf /\ R \in Nat
    BY <1>1, <1>R DEF OnlyLeaves
  <2> QED BY <2>1, <2>2, <2>3
<1>m. node[l] \in NodeType /\ R \in Nat
  BY <1>n
<1>4. t.key \in Seq(Keys) /\ Len(t.key) = N
  <2>1. Append(node[l].key, k) \in Seq(Keys) /\ Len(Append(node[l].key, k)) = N - 1 + 1
    BY <1>1, <1>3, <1>n
  <2> QED BY <2>1, Halves
<1> HIDE DEF t
<1>5. /\ x \in NodeType /\ Len(x.key) = H /\ x.isLeaf = node[l].isLeaf /\ x.chi = node[l].chi
      /\ x.link = R /\ x.parent = node[l].parent
  BY <1>4, <1>m, LeftLeafType
<1>6. /\ y \in NodeType /\ Len(y.key) = H /\ y.isLeaf = TRUE /\ y.chi = <<>>
      /\ y.link = node[l].link /\ y.parent = node[l].parent
  BY <1>4, <1>n, RightLeafType
<1> HIDE DEF x, y
<1>7. /\ node' \in Seq(NodeType) /\ Len(node') = R /\ node'[l] = x /\ node'[R] = y
      /\ \A p \in 1 .. Len(node) : p # l => node'[p] = node[p]
  <2> HIDE DEF NodeType
  <2> QED BY <1>1, <1>3, <1>5, <1>6, <1>R, ReplacedAndAdded
<1>8. NodeOK(node[l], R) /\ H \in 1 .. N - 1 /\ R \in 0 .. R
  BY <1>1, <1>R, <1>n, NodeOKMore, Halves
<1>9. NodeOK(x, R)
  BY <1>5, <1>8, <1>n DEF NodeOK
<1>10. NodeOK(y, R)
  <2>1. Len(<<>>) = 0 /\ DOMAIN <<>> = {}
    OBVIOUS
  <2> QED BY <1>6, <1>8, <2>1 DEF NodeOK
<1>11. ASSUME NEW p \in 1 .. Len(node') PROVE NodeOK(node'[p], Len(node')) /\ node'[p].isLeaf
  <2>1. CASE p = l \/ p = R
    BY <1>5, <1>6, <1>7, <1>9, <1>10, <1>n, <2>1
  <2>2. CASE p # l /\ p # R
    <3>1. p \in 1 .. Len(node) /\ node'[p] = node[p]
      BY <1>1, <1>7, <1>R, <2>2
    <3>2. NodeOK(node[p], R) /\ node[p].isLeaf
      BY <1>1, <1>R, <3>1, NodeOKMore, NodesAreOK DEF OnlyLeaves
    <3> QED BY <1>7, <3>1, <3>2
  <2> QED BY <2>1, <2>2
<1>12. TypeOK'
  <2>1. Root' \in 0 .. Len(node')
    BY <1>1, <1>7, <1>R
  <2> QED BY <1>1, <1>7, <1>11, <2>1 DEF TypeOK, NodeOK
<1>13. OnlyLeaves'
  BY <1>1, <1>11 DEF OnlyLeaves
<1> QED BY <1>1, <1>12, <1>13 DEF TreeInv

-----------------------------------------------------------------------------
(* The climb *)

Holds(x, p) == \E j \in DOMAIN x.chi : x.chi[j] = p

\* Adopt tells the children of q, and changes nothing else.
LEMMA AdoptType ==
    ASSUME NEW s \in Seq(NodeType), NEW q \in 1 .. Len(s), NEW t, t = Adopt(s, q)
    PROVE  /\ t \in Seq(NodeType) /\ Len(t) = Len(s)
           /\ \A p \in 1 .. Len(s) :
                 /\ (t[p].isLeaf <=> s[p].isLeaf) /\ t[p].key = s[p].key
                 /\ t[p].chi = s[p].chi /\ t[p].link = s[p].link
                 /\ Holds(s[q], p) => t[p].parent = q
                 /\ ~Holds(s[q], p) => t[p].parent = s[p].parent
<1> DEFINE C == ToSet(s[q].chi)
           n == Len(s)
           told(p) == [s[p] EXCEPT !.parent = q]
           new == [p \in 1 .. n |-> IF p \in C THEN told(p) ELSE s[p]]
<1>1. n \in Nat /\ DOMAIN s = 1 .. n /\ q \in Nat /\ \A p \in 1 .. n : s[p] \in NodeType
  OBVIOUS
<1>2. t = new
  BY <1>1 DEF Adopt
<1>3. \A p : p \in C <=> Holds(s[q], p)
  BY DEF ToSet, Holds
<1> HIDE DEF C, n
<1>4. ASSUME NEW p \in 1 .. n
      PROVE  /\ told(p) \in NodeType /\ (told(p).isLeaf <=> s[p].isLeaf) /\ told(p).key = s[p].key
             /\ told(p).chi = s[p].chi /\ told(p).link = s[p].link /\ told(p).parent = q
  <2>1. s[p] \in NodeType
    BY <1>1
  <2> QED BY <1>1, <2>1 DEF NodeType
<1> HIDE DEF told
<1>5. /\ t \in [1 .. n -> NodeType]
      /\ \A p \in 1 .. n : t[p] = IF p \in C THEN told(p) ELSE s[p]
  BY <1>1, <1>2, <1>4
<1> HIDE DEF new
<1>6. t \in Seq(NodeType) /\ Len(t) = n
  <2> HIDE DEF NodeType
  <2> QED BY <1>1, <1>5
<1>7. ASSUME NEW p \in 1 .. n
      PROVE  /\ (t[p].isLeaf <=> s[p].isLeaf) /\ t[p].key = s[p].key
             /\ t[p].chi = s[p].chi /\ t[p].link = s[p].link
             /\ Holds(s[q], p) => t[p].parent = q
             /\ ~Holds(s[q], p) => t[p].parent = s[p].parent
  BY <1>3, <1>4, <1>5
<1> QED BY <1>6, <1>7 DEF n

\* What a climb finds, and what it leaves alone.
LEMMA ClimbFacts ==
    ASSUME TreeInv, NEW p \in 1 .. Len(node), Climbing(p)
    PROVE  /\ TypeOK /\ TreeShape /\ Len(node) \in Nat /\ node \in Seq(NodeType)
           /\ stage = "1025" /\ stage' = stage /\ input' = input /\ input \in Inputs
           /\ inserted' = inserted /\ inserted \in Seq(Keys) /\ Root \in 0 .. Len(node)
           /\ up # <<>> /\ up.left = p /\ up.rs_key \in Keys
           /\ up.right \in 1 .. Len(node) /\ up.right # p
           /\ node[up.right].parent = node[p].parent
           /\ \A q \in 1 .. Len(node) : \A j \in DOMAIN node[q].chi : node[q].chi[j] # up.right
<1>1. TypeOK /\ up # <<>> /\ up.left = p /\ stage' = stage /\ input' = input /\ inserted' = inserted
  BY DEF TreeInv, Climbing
<1>2. stage = "1025"
  BY <1>1 DEF TreeInv, OnlyLeaves
<1>3. TreeShape
  BY <1>2 DEF TreeInv
<1>4. up \in UpType /\ input \in Inputs /\ inserted \in Seq(Keys) /\ Root \in 0 .. Len(node)
      /\ node \in Seq(NodeType)
  BY <1>1 DEF TypeOK
<1>5. up.rs_key \in Keys /\ up.right \in 1 .. Len(node)
  BY <1>4 DEF UpType
<1>6. /\ up.right # p
      /\ node[up.right].parent = node[p].parent
      /\ \A q \in 1 .. Len(node) : \A j \in DOMAIN node[q].chi : node[q].chi[j] # up.right
  BY <1>1, <1>3 DEF TreeShape, Pending
<1> QED BY <1>1, <1>2, <1>3, <1>4, <1>5, <1>6

\* The parent the climb goes to is an internal node.
LEMMA ClimbParent ==
    ASSUME TreeInv, NEW p \in 1 .. Len(node), Climbing(p), p # Root
    PROVE  /\ node[p].parent \in 1 .. Len(node)
           /\ ~node[node[p].parent].isLeaf
           /\ NodeOK(node[node[p].parent], Len(node))
           /\ \A d : Levels(d) => /\ d[up.right] + 1 = d[node[p].parent]
                                  /\ d[node[p].parent] # 0
<1>1. TypeOK /\ TreeShape /\ up # <<>> /\ up.left = p /\ Len(node) \in Nat
  BY ClimbFacts
<1>2. node[p].parent # NULL
  BY <1>1 DEF TreeShape, Parents, Pending
<1>3. node[p].parent \in 1 .. Len(node)
  BY <1>1, <1>2, NodeFields DEF NULL
<1>4. ASSUME NEW d, Levels(d)
      PROVE  d[up.right] + 1 = d[node[p].parent] /\ d[node[p].parent] # 0
  <2>1. /\ d[p] \in Nat /\ d[node[p].parent] = d[p] + 1 /\ d[p] = d[up.right]
    BY <1>1, <1>2, <1>4 DEF Levels
  <2> QED BY <2>1
<1>5. ~node[node[p].parent].isLeaf
  <2>1. PICK d : Levels(d)
    BY <1>1 DEF TreeShape
  <2>2. node[node[p].parent].isLeaf <=> d[node[p].parent] = 0
    BY <1>3, <2>1 DEF Levels
  <2> QED BY <1>4, <2>1, <2>2
<1> QED BY <1>1, <1>3, <1>4, <1>5, NodesAreOK

LEMMA AllocRootType ==
    ASSUME NEW l \in Nat, NEW r \in Nat, NEW k \in Keys, NEW x, x = alloc_root(l, k, r)
    PROVE  /\ x \in NodeType /\ ~x.isLeaf /\ Len(x.key) = 1
           /\ x.chi \in Seq(Nat) /\ Len(x.chi) = 2 /\ x.chi[1] = l /\ x.chi[2] = r
           /\ DOMAIN x.chi = {1, 2} /\ x.link = NULL /\ x.parent = NULL
<1> DEFINE a == alloc_leaf(NULL)
           b == [a EXCEPT !.isLeaf = FALSE]
           ks == <<k>>
           cs == <<l, r>>
           y == [b EXCEPT !.key = ks, !.chi = cs]
<1>1. /\ ks \in Seq(Keys) /\ Len(ks) = 1
      /\ cs \in Seq(Nat) /\ Len(cs) = 2 /\ cs[1] = l /\ cs[2] = r /\ NULL \in Nat
      /\ DOMAIN cs = {1, 2}
  <2>1. DOMAIN cs = 1 .. 2 /\ 1 .. 2 = {1, 2}
    OBVIOUS
  <2> QED BY <2>1 DEF NULL
<1>2. a \in NodeType /\ a.link = NULL /\ a.parent = NULL
  BY <1>1, AllocLeafType, Zenon
<1>3. x = y
  BY DEF alloc_root, alloc_internal
<1> HIDE DEF a, ks, cs
<1>4. b \in NodeType /\ ~b.isLeaf /\ b.link = NULL /\ b.parent = NULL
  BY <1>2 DEF NodeType
<1> HIDE DEF b
<1>5. /\ y \in NodeType /\ y.key = ks /\ y.chi = cs
      /\ ~y.isLeaf /\ y.link = NULL /\ y.parent = NULL
  BY <1>1, <1>4 DEF NodeType
<1> QED BY <1>1, <1>3, <1>5

\* A split root and its right half get a parent, the new root.
LEMMA GrowRootKeeps ==
    ASSUME TreeInv, NEW p \in 1 .. Len(node), GrowRoot(p)
    PROVE  TreeInv'
<1>0. Climbing(p) /\ p = Root /\ up' = <<>>
  BY DEF GrowRoot
<1>1. /\ TypeOK /\ TreeShape /\ Len(node) \in Nat /\ node \in Seq(NodeType)
      /\ stage = "1025" /\ stage' = stage /\ input' = input /\ input \in Inputs
      /\ inserted' = inserted /\ inserted \in Seq(Keys)
      /\ up # <<>> /\ up.left = p /\ up.rs_key \in Keys
  BY <1>0, ClimbFacts
<1>r. PICK r \in 1 .. Len(node) :
            /\ r = up.right /\ r # p /\ node[r].parent = node[p].parent
            /\ \A q \in 1 .. Len(node) : \A j \in DOMAIN node[q].chi : node[q].chi[j] # r
  BY <1>0, ClimbFacts
<1>d. PICK d : Levels(d)
  BY <1>1 DEF TreeShape
<1>R. PICK R : R = Len(node) + 1
  OBVIOUS
<1>2. /\ R \in Nat /\ p # R /\ r # R /\ p \in Nat /\ r \in Nat
      /\ \A q \in 1 .. R : q = R \/ q \in 1 .. Len(node)
      /\ \A q \in 0 .. Len(node) : q \in 0 .. R /\ q # R
      /\ \A q \in 1 .. Len(node) : q \in 1 .. R
      /\ R \in 1 .. R /\ p \in 1 .. R /\ r \in 1 .. R
  BY <1>1, <1>R
<1>x. PICK x : x = alloc_root(p, up.rs_key, r)
  OBVIOUS
<1> DEFINE s == Append(node, x)
<1>3. node' = Adopt(s, R) /\ Root' = R
  BY <1>r, <1>R, <1>x DEF GrowRoot
<1>4. /\ x \in NodeType /\ ~x.isLeaf /\ Len(x.key) = 1
      /\ x.chi \in Seq(Nat) /\ Len(x.chi) = 2 /\ x.chi[1] = p /\ x.chi[2] = r
      /\ DOMAIN x.chi = {1, 2} /\ x.link = NULL /\ x.parent = NULL
  <2>1. PICK k \in Keys : k = up.rs_key
    BY <1>1
  <2>2. p \in Nat /\ r \in Nat /\ k \in Keys /\ x = alloc_root(p, k, r)
    BY <1>2, <1>x, <2>1
  <2> QED BY <2>2, AllocRootType
<1>5. /\ s \in Seq(NodeType) /\ Len(s) = R /\ s[R] = x
      /\ \A q \in 1 .. Len(node) : s[q] = node[q]
  <2> HIDE DEF NodeType
  <2> QED BY <1>1, <1>4, <1>R
<1> HIDE DEF s
<1>6. /\ node' \in Seq(NodeType) /\ Len(node') = R
      /\ \A q \in 1 .. R :
            /\ (node'[q].isLeaf <=> s[q].isLeaf) /\ node'[q].key = s[q].key
            /\ node'[q].chi = s[q].chi /\ node'[q].link = s[q].link
            /\ Holds(s[R], q) => node'[q].parent = R
            /\ ~Holds(s[R], q) => node'[q].parent = s[q].parent
  <2>1. R \in 1 .. Len(s)
    BY <1>2, <1>5
  <2>2. PICK t : t = node'
    OBVIOUS
  <2>3. s \in Seq(NodeType) /\ t = Adopt(s, R)
    BY <1>3, <1>5, <2>2
  <2>4. t \in Seq(NodeType) /\ Len(t) = Len(s)
    BY <2>1, <2>3, AdoptType
  <2>5. ASSUME NEW q \in 1 .. Len(s)
        PROVE  /\ (t[q].isLeaf <=> s[q].isLeaf) /\ t[q].key = s[q].key
               /\ t[q].chi = s[q].chi /\ t[q].link = s[q].link
               /\ Holds(s[R], q) => t[q].parent = R
               /\ ~Holds(s[R], q) => t[q].parent = s[q].parent
    BY <2>1, <2>3, AdoptType
  <2> QED BY <1>5, <2>2, <2>4, <2>5
<1>k. \A q : Holds(s[R], q) <=> (q = p \/ q = r)
  BY <1>4, <1>5 DEF Holds
<1>7. /\ ~node'[R].isLeaf /\ Len(node'[R].key) = 1 /\ node'[R].chi = x.chi
      /\ node'[R].link = NULL /\ node'[R].parent = NULL
  BY <1>2, <1>4, <1>5, <1>6, <1>k
<1>8. ASSUME NEW q \in 1 .. Len(node)
      PROVE  /\ (node'[q].isLeaf <=> node[q].isLeaf) /\ node'[q].key = node[q].key
             /\ node'[q].chi = node[q].chi /\ node'[q].link = node[q].link
             /\ node'[q].parent = IF q = p \/ q = r THEN R ELSE node[q].parent
  <2>1. q \in 1 .. R /\ s[q] = node[q]
    BY <1>2, <1>5
  <2> QED BY <1>6, <1>k, <2>1
<1>9. ASSUME NEW q \in 1 .. Len(node') PROVE NodeOK(node'[q], Len(node'))
  <2>0. node'[q] \in NodeType
    BY <1>6
  <2>1. CASE q = R
    <3>1. 1 \in 1 .. N - 1 /\ NULL \in 0 .. R /\ 1 + 1 = 2
      BY <1>2, Halves DEF NULL
    <3>2. \A j \in DOMAIN x.chi : x.chi[j] \in 1 .. R
      BY <1>2, <1>4
    <3>3. Len(node'[q].key) = 1 /\ Len(node'[q].chi) = 2 /\ ~node'[q].isLeaf
      BY <1>4, <1>7, <2>1
    <3>4. /\ Len(node'[q].key) \in 1 .. N - 1
          /\ Len(node'[q].chi) = IF node'[q].isLeaf THEN 0 ELSE Len(node'[q].key) + 1
      BY <3>1, <3>3
    <3> QED BY <1>6, <1>7, <2>0, <2>1, <3>1, <3>2, <3>4 DEF NodeOK
  <2>2. CASE q # R
    <3>1. q \in 1 .. Len(node)
      BY <1>2, <1>6, <2>2
    <3>2. NodeOK(node[q], R)
      BY <1>1, <1>2, <1>R, <3>1, NodesAreOK, NodeOKMore
    <3>3. node'[q].parent \in 0 .. R
      BY <1>2, <1>8, <3>1, <3>2 DEF NodeOK
    <3> QED BY <1>6, <1>8, <2>0, <3>1, <3>2, <3>3 DEF NodeOK
  <2> QED BY <2>1, <2>2
<1>10. TypeOK'
  <2>1. Root' \in 0 .. Len(node')
    BY <1>2, <1>3, <1>6
  <2> QED BY <1>0, <1>1, <1>6, <1>9, <2>1 DEF TypeOK, NodeOK
<1>c. \A q \in 1 .. Len(node) : \A j \in DOMAIN node[q].chi : node[q].chi[j] \in 1 .. Len(node)
  BY <1>1, NodeFields
<1>n. node[p].parent = NULL /\ node[r].parent = NULL /\ R # NULL /\ Root # NULL
  BY <1>0, <1>1, <1>2, <1>r DEF TreeShape, Parents, NULL
<1>11. Children'
  <2>1. SUFFICES ASSUME NEW q \in 1 .. R
                 PROVE  /\ \A j \in DOMAIN node'[q].chi : node'[node'[q].chi[j]].parent = q
                        /\ \A j, m \in DOMAIN node'[q].chi :
                              node'[q].chi[j] = node'[q].chi[m] => j = m
    BY <1>6 DEF Children
  <2>2. CASE q = R
    <3>1. node'[p].parent = R /\ node'[r].parent = R
      BY <1>8
    <3>2. /\ \A j \in DOMAIN x.chi : node'[x.chi[j]].parent = R
          /\ \A j, m \in DOMAIN x.chi : x.chi[j] = x.chi[m] => j = m
      BY <1>4, <1>r, <3>1
    <3> QED BY <1>7, <2>2, <3>2
  <2>3. CASE q # R
    <3>1. q \in 1 .. Len(node) /\ node'[q].chi = node[q].chi
      BY <1>2, <1>8, <2>3
    <3>2. /\ \A j \in DOMAIN node[q].chi : node[node[q].chi[j]].parent = q
          /\ \A j, m \in DOMAIN node[q].chi : node[q].chi[j] = node[q].chi[m] => j = m
      BY <1>1, <3>1 DEF TreeShape, Children
    <3>3. q # NULL
      BY <3>1 DEF NULL
    <3>4. \A j \in DOMAIN node[q].chi : node'[node[q].chi[j]].parent = node[node[q].chi[j]].parent
      BY <1>8, <1>c, <1>n, <3>1, <3>2, <3>3
    <3> QED BY <3>1, <3>2, <3>4
  <2> QED BY <2>2, <2>3
<1>12. Parents'
  <2>1. ASSUME NEW q \in 1 .. Len(node'), node'[q].parent = NULL PROVE q = R
    <3>1. SUFFICES ASSUME q # R PROVE FALSE
      OBVIOUS
    <3>2. q \in 1 .. Len(node)
      BY <1>2, <1>6, <3>1
    <3>3. q # p /\ q # r /\ node[q].parent = NULL
      BY <1>8, <1>n, <2>1, <3>2
    <3> QED BY <1>0, <1>1, <1>r, <3>2, <3>3 DEF TreeShape, Parents
  <2> QED BY <1>3, <1>7, <2>1 DEF Parents
<1>13. Pending'
  BY <1>0 DEF Pending
<1>14. Filled'
  <2>1. ASSUME NEW q \in 1 .. Len(node'), q # R PROVE Enough(q)'
    <3>1. q \in 1 .. Len(node)
      BY <1>2, <1>6, <2>1
    <3>2. Enough(q)
      BY <1>0, <1>1, <3>1 DEF TreeShape, Filled
    <3> QED BY <1>8, <3>1, <3>2 DEF Enough
  <2> QED BY <1>0, <1>3, <2>1 DEF Filled
<1>15. \E e : Levels(e)'
  <2>1. PICK e : e = [q \in 1 .. R |-> IF q = R THEN d[p] + 1 ELSE d[q]]
    OBVIOUS
  <2>d. /\ d \in [1 .. Len(node) -> 0 .. Len(node)] /\ d[p] = d[r]
        /\ \A q \in 1 .. Len(node) :
              /\ node[q].isLeaf <=> d[q] = 0
              /\ \A j \in DOMAIN node[q].chi : d[node[q].chi[j]] + 1 = d[q]
              /\ node[q].parent # NULL => d[node[q].parent] = d[q] + 1
    BY <1>1, <1>d, <1>r DEF Levels
  <2>2. d[p] + 1 \in 0 .. R /\ d[p] + 1 # 0 /\ \A q \in 1 .. Len(node) : d[q] \in 0 .. R
    <3>1. d[p] \in 0 .. Len(node) /\ \A q \in 1 .. Len(node) : d[q] \in 0 .. Len(node)
      BY <2>d
    <3>2. PICK h : h = d[p]
      OBVIOUS
    <3>3. h \in 0 .. Len(node)
      BY <3>1, <3>2
    <3>4. h + 1 \in 0 .. R /\ h + 1 # 0
      BY <1>1, <1>R, <3>3
    <3> QED BY <1>2, <3>1, <3>2, <3>4
  <2>3. /\ e \in [1 .. R -> 0 .. R] /\ e[R] = d[p] + 1
        /\ \A q \in 1 .. Len(node) : e[q] = d[q]
    BY <1>2, <2>1, <2>2
  <2>4. \A q \in 1 .. Len(node) : node[q].parent # NULL => node[q].parent \in 1 .. Len(node)
    BY <1>1, NodeFields DEF NULL
  <2>5. ASSUME NEW q \in 1 .. Len(node')
        PROVE  /\ node'[q].isLeaf <=> e[q] = 0
               /\ \A j \in DOMAIN node'[q].chi : e[node'[q].chi[j]] + 1 = e[q]
               /\ node'[q].parent # NULL => e[node'[q].parent] = e[q] + 1
    <3>1. CASE q = R
      <4>1. \A j \in DOMAIN x.chi : e[x.chi[j]] + 1 = e[R]
        <5>1. e[p] + 1 = e[R] /\ e[r] + 1 = e[R]
          BY <2>3, <2>d
        <5> QED BY <1>4, <5>1
      <4> QED BY <1>7, <2>2, <2>3, <3>1, <4>1
    <3>2. CASE q # R
      <4>1. q \in 1 .. Len(node)
        BY <1>2, <1>6, <3>2
      <4>2. /\ node[q].isLeaf <=> e[q] = 0
            /\ \A j \in DOMAIN node[q].chi : e[node[q].chi[j]] + 1 = e[q]
            /\ node[q].parent # NULL => e[node[q].parent] = e[q] + 1
        BY <1>c, <2>3, <2>4, <2>d, <4>1
      <4>3. q = p \/ q = r => e[R] = e[q] + 1
        BY <2>3, <2>d
      <4> QED BY <1>8, <4>1, <4>2, <4>3
    <3> QED BY <3>1, <3>2
  <2>6. Levels(e)'
    BY <1>0, <1>6, <2>3, <2>5 DEF Levels
  <2> QED BY <2>6
<1> QED BY <1>1, <1>10, <1>11, <1>12, <1>13, <1>14, <1>15 DEF TreeInv, TreeShape

\* An entry goes into an internal node, wherever its left child stands.
LEMMA ChildMore ==
    ASSUME NEW x \in NodeType, Len(x.chi) = Len(x.key) + 1, NEW l, NEW k \in Keys, NEW r \in Nat,
           NEW y, y = insert_after_left_child(x, l, k, r)
    PROVE  /\ y \in NodeType /\ (y.isLeaf <=> x.isLeaf) /\ y.link = x.link /\ y.parent = x.parent
           /\ Len(y.key) = Len(x.key) + 1 /\ Len(y.chi) = Len(x.chi) + 1
           /\ Among(y.chi, x.chi, r)
           /\ Distinct(x.chi) /\ Lacks(x.chi, r) => Distinct(y.chi)
<1> DEFINE I == {i \in 1 .. Len(x.chi) : x.chi[i] = l}
<1>1. PICK at : at = SelectInSeq(x.chi, LAMBDA c : c = l)
  OBVIOUS
<1>2. x.key \in Seq(Keys) /\ x.chi \in Seq(Nat) /\ Len(x.key) \in Nat
  BY DEF NodeType
<1>3. at \in 0 .. Len(x.key) + 1
  <2>1. at = IF I # {} THEN Min(I) ELSE 0
    BY <1>1 DEF SelectInSeq
  <2>2. I \in SUBSET Nat /\ I \subseteq 1 .. Len(x.key) + 1
    BY <1>2
  <2> HIDE DEF I
  <2>3. I # {} => Min(I) \in I
    BY <2>2, LeastNat
  <2>4. CASE I = {}
    BY <1>2, <2>1, <2>4
  <2>5. CASE I # {}
    <3>1. Min(I) \in 1 .. Len(x.key) + 1
      BY <2>2, <2>3, <2>5
    <3> QED BY <1>2, <2>1, <2>5, <3>1
  <2> QED BY <2>4, <2>5
<1>4. PICK i, c : i = (IF at = 0 THEN 1 ELSE at) /\ c = (IF at = 0 THEN 1 ELSE at + 1)
  OBVIOUS
<1>5. i \in 1 .. Len(x.key) + 1 /\ c \in 1 .. Len(x.chi) + 1
  <2>1. PICK n \in Nat : n = Len(x.key)
    BY <1>2
  <2>2. at \in 0 .. n + 1 /\ Len(x.chi) = n + 1
    BY <1>3, <2>1
  <2>3. i \in 1 .. n + 1 /\ c \in 1 .. n + 1 + 1
    BY <1>4, <2>1, <2>2
  <2> QED BY <2>1, <2>2, <2>3
<1>6. PICK ks, cs : ks = InsertAt(x.key, i, k) /\ cs = InsertAt(x.chi, c, r)
  OBVIOUS
<1>7. ks \in Seq(Keys) /\ Len(ks) = Len(x.key) + 1
  BY <1>2, <1>5, <1>6, InsertAtType
<1>8. /\ cs \in Seq(Nat) /\ Len(cs) = Len(x.chi) + 1
      /\ Among(cs, x.chi, r)
      /\ Distinct(x.chi) /\ Lacks(x.chi, r) => Distinct(cs)
  <2>1. PICK g : g = x.chi
    OBVIOUS
  <2>2. g \in Seq(Nat) /\ c \in 1 .. Len(g) + 1 /\ cs = InsertAt(g, c, r)
    BY <1>2, <1>5, <1>6, <2>1
  <2>3. cs \in Seq(Nat) /\ Len(cs) = Len(g) + 1
    BY <2>2, InsertAtType
  <2>4. Among(cs, g, r) /\ (Distinct(g) /\ Lacks(g, r) => Distinct(cs))
    BY <2>2, InsertAtElements
  <2> QED BY <2>1, <2>3, <2>4
<1>11. y = [x EXCEPT !.key = ks, !.chi = cs]
  BY <1>1, <1>4, <1>6 DEF insert_after_left_child
<1>12. /\ y \in NodeType /\ (y.isLeaf <=> x.isLeaf) /\ y.link = x.link /\ y.parent = x.parent
       /\ y.key = ks /\ y.chi = cs
  BY <1>7, <1>8, <1>11 DEF NodeType
<1> QED BY <1>7, <1>8, <1>12

\* The parent has room.
LEMMA AddToParentKeeps ==
    ASSUME TreeInv, NEW p \in 1 .. Len(node), AddToParent(p)
    PROVE  TreeInv'
<1>0. Climbing(p) /\ p # Root /\ up' = <<>> /\ Root' = Root
  BY DEF AddToParent
<1>1. /\ TypeOK /\ TreeShape /\ Len(node) \in Nat /\ node \in Seq(NodeType)
      /\ stage = "1025" /\ stage' = stage /\ input' = input /\ input \in Inputs
      /\ inserted' = inserted /\ inserted \in Seq(Keys)
      /\ up # <<>> /\ up.left = p /\ up.rs_key \in Keys /\ Root \in 0 .. Len(node)
  BY <1>0, ClimbFacts
<1>r. PICK r \in 1 .. Len(node) :
            /\ r = up.right /\ r # p /\ node[r].parent = node[p].parent
            /\ \A q \in 1 .. Len(node) : \A j \in DOMAIN node[q].chi : node[q].chi[j] # r
  BY <1>0, ClimbFacts
<1>k. PICK k \in Keys : k = up.rs_key
  BY <1>1
<1>d. PICK d : Levels(d)
  BY <1>1 DEF TreeShape
<1>2. PICK l \in 1 .. Len(node) :
            /\ l = node[p].parent /\ ~node[l].isLeaf /\ NodeOK(node[l], Len(node))
            /\ d[r] + 1 = d[l]
  BY <1>0, <1>d, <1>r, ClimbParent
<1>3. PICK x : x = insert_after_left_child(node[l], p, k, r)
  OBVIOUS
<1>4. Len(node[l].key) < N - 1 /\ node' = [node EXCEPT ![l] = x]
  BY <1>2, <1>3, <1>k, <1>r DEF AddToParent
<1>5. /\ x \in NodeType /\ (x.isLeaf <=> node[l].isLeaf)
      /\ x.link = node[l].link /\ x.parent = node[l].parent
      /\ Len(x.key) = Len(node[l].key) + 1 /\ Len(x.chi) = Len(node[l].chi) + 1
      /\ Among(x.chi, node[l].chi, r) /\ Distinct(x.chi)
  <2>1. PICK y : y = node[l]
    OBVIOUS
  <2>2. y \in NodeType /\ Len(y.chi) = Len(y.key) + 1 /\ r \in Nat
    BY <1>1, <1>2, <2>1 DEF NodeOK
  <2>3. Distinct(y.chi) /\ Lacks(y.chi, r)
    BY <1>1, <1>r, <2>1 DEF TreeShape, Children, Distinct, Lacks
  <2>4. x = insert_after_left_child(y, p, k, r)
    BY <1>3, <2>1
  <2>5. /\ x \in NodeType /\ (x.isLeaf <=> y.isLeaf) /\ x.link = y.link /\ x.parent = y.parent
        /\ Len(x.key) = Len(y.key) + 1 /\ Len(x.chi) = Len(y.chi) + 1
        /\ Among(x.chi, y.chi, r) /\ Distinct(x.chi)
    BY <2>2, <2>3, <2>4, ChildMore
  <2> QED BY <2>1, <2>5
<1>6. /\ node' \in Seq(NodeType) /\ Len(node') = Len(node) /\ node'[l] = x
      /\ \A q \in 1 .. Len(node) : q # l => node'[q] = node[q]
  BY <1>1, <1>4, <1>5
<1>7. ASSUME NEW q \in 1 .. Len(node)
      PROVE  /\ (node'[q].isLeaf <=> node[q].isLeaf)
             /\ node'[q].parent = node[q].parent
             /\ q # l => node'[q].chi = node[q].chi
  BY <1>5, <1>6
<1>8. /\ Len(x.key) \in 1 .. N - 1 /\ Len(x.chi) = Len(x.key) + 1
      /\ Len(x.key) >= Len(node[l].key)
  <2>1. PICK n : n = Len(node[l].key)
    OBVIOUS
  <2>2. n \in 1 .. N - 1 /\ n < N - 1 /\ Len(node[l].chi) = n + 1
    BY <1>2, <1>4, <2>1 DEF NodeOK
  <2>3. Len(x.key) = n + 1 /\ Len(x.chi) = n + 1 + 1
    BY <1>5, <2>1, <2>2
  <2>4. n + 1 \in 1 .. N - 1 /\ n + 1 >= n
    BY <2>2, Halves
  <2> QED BY <2>1, <2>3, <2>4
<1>c. \A q \in 1 .. Len(node) : \A j \in DOMAIN node[q].chi : node[q].chi[j] \in 1 .. Len(node)
  BY <1>1, NodeFields
<1>9. ASSUME NEW q \in 1 .. Len(node') PROVE NodeOK(node'[q], Len(node'))
  <2>1. CASE q = l
    <3>1. \A j \in DOMAIN x.chi : x.chi[j] \in 1 .. Len(node)
      BY <1>5, <1>c DEF Among
    <3>2. NodeOK(x, Len(node))
      BY <1>2, <1>5, <1>8, <3>1 DEF NodeOK
    <3> QED BY <1>6, <2>1, <3>2
  <2>2. CASE q # l
    BY <1>1, <1>6, <2>2, NodesAreOK
  <2> QED BY <2>1, <2>2
<1>10. TypeOK'
  BY <1>0, <1>1, <1>6, <1>9 DEF TypeOK, NodeOK
<1>11. Children'
  <2>1. SUFFICES ASSUME NEW q \in 1 .. Len(node)
                 PROVE  /\ \A j \in DOMAIN node'[q].chi : node'[node'[q].chi[j]].parent = q
                        /\ \A j, m \in DOMAIN node'[q].chi :
                              node'[q].chi[j] = node'[q].chi[m] => j = m
    BY <1>6 DEF Children
  <2>2. /\ \A j \in DOMAIN node[q].chi : node[node[q].chi[j]].parent = q
        /\ \A j, m \in DOMAIN node[q].chi : node[q].chi[j] = node[q].chi[m] => j = m
    BY <1>1 DEF TreeShape, Children
  <2>3. CASE q = l
    <3>1. ASSUME NEW j \in DOMAIN x.chi PROVE node'[x.chi[j]].parent = l
      <4>1. CASE x.chi[j] = r
        BY <1>2, <1>7, <1>r, <4>1
      <4>2. CASE \E m \in DOMAIN node[l].chi : x.chi[j] = node[l].chi[m]
        BY <1>7, <1>c, <2>2, <2>3, <4>2
      <4> QED BY <1>5, <4>1, <4>2 DEF Among
    <3> QED BY <1>5, <1>6, <2>3, <3>1 DEF Distinct
  <2>4. CASE q # l
    BY <1>7, <1>c, <2>2, <2>4
  <2> QED BY <2>3, <2>4
<1>12. Parents'
  <2>1. Root # NULL => Root \in 1 .. Len(node)
    BY <1>1 DEF NULL
  <2> QED BY <1>0, <1>1, <1>6, <1>7, <2>1 DEF TreeShape, Parents
<1>13. Pending'
  BY <1>0 DEF Pending
<1>14. Filled'
  <2>1. ASSUME NEW q \in 1 .. Len(node), Enough(q) PROVE Enough(q)'
    <3>1. CASE q = l
      <4>1. PICK n, m : n = Len(node[l].key) /\ m = Len(x.key)
        OBVIOUS
      <4>2. n \in Nat /\ m \in Nat /\ m >= n /\ n >= H - 1 /\ H \in Nat
        <5>1. n \in 1 .. N - 1 /\ m \in 1 .. N - 1 /\ m >= n
          BY <1>2, <1>8, <4>1 DEF NodeOK
        <5>2. n >= H - 1
          BY <1>2, <2>1, <3>1, <4>1 DEF Enough
        <5> QED BY <5>1, <5>2, Halves
      <4>3. m >= H - 1
        BY <4>2
      <4> QED BY <1>2, <1>5, <1>6, <3>1, <4>1, <4>3 DEF Enough
    <3>2. CASE q # l
      BY <1>6, <2>1, <3>2 DEF Enough
    <3> QED BY <3>1, <3>2
  <2>2. ASSUME NEW q \in 1 .. Len(node), q # Root PROVE Enough(q)'
    BY <1>1, <2>1, <2>2 DEF TreeShape, Filled
  <2> QED BY <1>0, <1>6, <2>2 DEF Filled
<1>15. Levels(d)'
  <2>1. /\ d \in [1 .. Len(node) -> 0 .. Len(node)]
        /\ \A q \in 1 .. Len(node) :
              /\ node[q].isLeaf <=> d[q] = 0
              /\ \A j \in DOMAIN node[q].chi : d[node[q].chi[j]] + 1 = d[q]
              /\ node[q].parent # NULL => d[node[q].parent] = d[q] + 1
    BY <1>d DEF Levels
  <2>2. ASSUME NEW j \in DOMAIN x.chi PROVE d[x.chi[j]] + 1 = d[l]
    <3>1. CASE x.chi[j] = r
      BY <1>2, <3>1
    <3>2. CASE \E m \in DOMAIN node[l].chi : x.chi[j] = node[l].chi[m]
      BY <2>1, <3>2
    <3> QED BY <1>5, <3>1, <3>2 DEF Among
  <2>3. ASSUME NEW q \in 1 .. Len(node')
        PROVE  /\ node'[q].isLeaf <=> d[q] = 0
               /\ \A j \in DOMAIN node'[q].chi : d[node'[q].chi[j]] + 1 = d[q]
               /\ node'[q].parent # NULL => d[node'[q].parent] = d[q] + 1
    BY <1>6, <1>7, <2>1, <2>2
  <2> QED BY <1>0, <1>6, <2>1, <2>3 DEF Levels
<1> QED BY <1>1, <1>10, <1>11, <1>12, <1>13, <1>14, <1>15 DEF TreeInv, TreeShape

\* The first n of s are those of t behind the m-th.
Moved(s, t, n, m) == \A j \in 1 .. n : s[j] = t[m + j]

\* The halves of an internal node.
LEMMA LeftParentType ==
    ASSUME NEW x \in NodeType, NEW temp, temp.key \in Seq(Keys), Len(temp.key) = N,
           temp.chi \in Seq(Nat), Len(temp.chi) = N + 1,
           NEW y, y = copy_from_temp_to_left_parent(temp, x)
    PROVE  /\ y \in NodeType /\ (y.isLeaf <=> x.isLeaf) /\ y.link = x.link /\ y.parent = x.parent
           /\ Len(y.key) = H /\ Len(y.chi) = H + 1 /\ DOMAIN y.chi = 1 .. H + 1
           /\ Moved(y.chi, temp.chi, H + 1, 0)
<1>1. PICK ks, cs : ks = SubSeq(temp.key, 1, H) /\ cs = SubSeq(temp.chi, 1, H + 1)
  OBVIOUS
<1>2. ks \in Seq(Keys) /\ Len(ks) = H
  <2>1. H \in 0 .. N /\ 1 \in Nat \ {0} /\ H - 1 + 1 = H /\ 1 <= H + 1
    BY Halves
  <2> QED BY <1>1, <2>1, Part
<1>3. /\ cs \in Seq(Nat) /\ Len(cs) = H + 1 /\ DOMAIN cs = 1 .. H + 1
      /\ \A j \in 1 .. H + 1 : cs[j] = temp.chi[j]
  <2>1. H + 1 \in 0 .. N + 1 /\ H \in Nat
    BY Halves
  <2>2. H + 1 \in 0 .. Len(temp.chi)
    BY <2>1
  <2> QED BY <1>1, <2>1, <2>2
<1>4. y = [x EXCEPT !.key = ks, !.chi = cs]
  BY <1>1 DEF copy_from_temp_to_left_parent
<1>5. /\ y \in NodeType /\ (y.isLeaf <=> x.isLeaf) /\ y.link = x.link /\ y.parent = x.parent
      /\ y.key = ks /\ y.chi = cs
  BY <1>2, <1>3, <1>4 DEF NodeType
<1>6. Moved(cs, temp.chi, H + 1, 0)
  BY <1>3, Halves DEF Moved
<1> QED BY <1>2, <1>3, <1>5, <1>6

LEMMA RightParentType ==
    ASSUME NEW q \in Nat, NEW temp, temp.key \in Seq(Keys), Len(temp.key) = N,
           temp.chi \in Seq(Nat), Len(temp.chi) = N + 1,
           NEW y, y = copy_from_temp_to_right_parent(temp, alloc_internal(q))
    PROVE  /\ y \in NodeType /\ ~y.isLeaf /\ y.link = NULL /\ y.parent = q
           /\ Len(y.key) = H - 1 /\ Len(y.chi) = H /\ DOMAIN y.chi = 1 .. H
           /\ Moved(y.chi, temp.chi, H, H + 1)
<1>1. PICK ks, cs : ks = SubSeq(temp.key, H + 2, N) /\ cs = SubSeq(temp.chi, H + 2, N + 1)
  OBVIOUS
<1>2. ks \in Seq(Keys) /\ Len(ks) = H - 1
  <2>1. H + 2 \in Nat \ {0} /\ N \in 0 .. N /\ N - (H + 2) + 1 = H - 1 /\ H + 2 <= N + 1
    BY Halves
  <2> QED BY <1>1, <2>1, Part
<1>3. /\ cs \in Seq(Nat) /\ Len(cs) = H /\ DOMAIN cs = 1 .. H
      /\ \A j \in 1 .. H : cs[j] = temp.chi[H + 1 + j]
  <2>1. PICK f, g : f = H + 2 /\ g = N + 1
    OBVIOUS
  <2>2. /\ f \in Nat \ {0} /\ g \in 0 .. g /\ g - f + 1 = H /\ f <= g + 1 /\ g = N + 1
        /\ \A j \in 1 .. H : f + j - 1 = H + 1 + j
    BY <2>1, Halves
  <2>3. g \in 0 .. Len(temp.chi) /\ cs = SubSeq(temp.chi, f, g)
    BY <1>1, <2>1, <2>2
  <2>4. /\ cs \in Seq(Nat) /\ Len(cs) = g - f + 1
        /\ \A j \in 1 .. g - f + 1 : cs[j] = temp.chi[f + j - 1]
    <3>1. PICK c \in Seq(Nat) : c = temp.chi
      OBVIOUS
    <3>2. f \in Nat \ {0} /\ g \in 0 .. Len(c) /\ f <= g + 1 /\ cs = SubSeq(c, f, g)
      BY <2>2, <2>3, <3>1
    <3>3. cs \in Seq(Nat) /\ Len(cs) = g - f + 1
      BY <3>2, Part
    <3>4. \A j \in 1 .. g - f + 1 : cs[j] = c[f + j - 1]
      BY <3>2, Part
    <3> QED BY <3>1, <3>3, <3>4
  <2>5. DOMAIN cs = 1 .. H
    BY <2>2, <2>4
  <2>6. ASSUME NEW j \in 1 .. H PROVE cs[j] = temp.chi[H + 1 + j]
    BY <2>2, <2>4
  <2> QED BY <2>2, <2>4, <2>5, <2>6
<1>4. PICK a : a = alloc_leaf(q)
  OBVIOUS
<1>5. a \in NodeType /\ a.link = NULL /\ a.parent = q
  BY <1>4, AllocLeafType
<1>6. PICK b : b = [a EXCEPT !.isLeaf = FALSE]
  OBVIOUS
<1>7. b \in NodeType /\ ~b.isLeaf /\ b.link = NULL /\ b.parent = q
  BY <1>5, <1>6 DEF NodeType
<1>8. y = [b EXCEPT !.key = ks, !.chi = cs]
  BY <1>1, <1>4, <1>6 DEF copy_from_temp_to_right_parent, alloc_internal
<1>9. /\ y \in NodeType /\ ~y.isLeaf /\ y.link = NULL /\ y.parent = q
      /\ y.key = ks /\ y.chi = cs
  BY <1>2, <1>3, <1>7, <1>8 DEF NodeType
<1>10. Moved(cs, temp.chi, H, H + 1)
  BY <1>3 DEF Moved
<1> QED BY <1>2, <1>3, <1>9, <1>10

\* The parent is full: its right half takes its share of the children along.
LEMMA SplitParentKeeps ==
    ASSUME TreeInv, NEW p \in 1 .. Len(node), SplitParent(p)
    PROVE  TreeInv'
<1>0. Climbing(p) /\ p # Root /\ Root' = Root
  BY DEF SplitParent
<1>1. /\ TypeOK /\ TreeShape /\ Len(node) \in Nat /\ node \in Seq(NodeType)
      /\ stage = "1025" /\ stage' = stage /\ input' = input /\ input \in Inputs
      /\ inserted' = inserted /\ inserted \in Seq(Keys)
      /\ up # <<>> /\ up.left = p /\ up.rs_key \in Keys /\ Root \in 0 .. Len(node)
  BY <1>0, ClimbFacts
<1>r. PICK r \in 1 .. Len(node) :
            /\ r = up.right /\ r # p /\ node[r].parent = node[p].parent
            /\ \A q \in 1 .. Len(node) : \A j \in DOMAIN node[q].chi : node[q].chi[j] # r
  BY <1>0, ClimbFacts
<1>k. PICK k \in Keys : k = up.rs_key
  BY <1>1
<1>d. PICK d : Levels(d)
  BY <1>1 DEF TreeShape
<1>2. PICK l \in 1 .. Len(node) :
            /\ l = node[p].parent /\ ~node[l].isLeaf /\ NodeOK(node[l], Len(node))
            /\ d[r] + 1 = d[l] /\ d[l] # 0
  BY <1>0, <1>d, <1>r, ClimbParent
<1>R. PICK R : R = Len(node) + 1
  OBVIOUS
<1>3. /\ R \in Nat /\ l # R
      /\ \A q \in 1 .. R : q = R \/ q \in 1 .. Len(node)
      /\ \A q \in 0 .. Len(node) : q \in 0 .. R /\ q # R
      /\ \A q \in 1 .. Len(node) : q \in 1 .. R
      /\ R \in 1 .. R /\ l \in 1 .. R
  BY <1>1, <1>R
<1>t. PICK t : t = insert_in_temp(node[l], k, r)
  OBVIOUS
<1>4. PICK x, y : /\ x = copy_from_temp_to_left_parent(t, node[l])
                  /\ y = copy_from_temp_to_right_parent(t, alloc_internal(node[l].parent))
  OBVIOUS
<1>s. PICK s : s = Append([node EXCEPT ![l] = x], y)
  OBVIOUS
<1>5. /\ Len(node[l].key) = N - 1
      /\ node' = Adopt(s, R)
      /\ up' = [left |-> l, rs_key |-> t.key[H + 1], right |-> R]
  BY <1>2, <1>4, <1>k, <1>r, <1>R, <1>s, <1>t DEF SplitParent
<1>c. \A q \in 1 .. Len(node) : \A j \in DOMAIN node[q].chi : node[q].chi[j] \in 1 .. Len(node)
  BY <1>1, NodeFields
<1>6. /\ t.key \in Seq(Keys) /\ Len(t.key) = N /\ t.key[H + 1] \in Keys
      /\ t.chi \in Seq(Nat) /\ Len(t.chi) = N + 1
      /\ Among(t.chi, node[l].chi, r) /\ Distinct(t.chi)
  <2>1. PICK z : z = node[l]
    OBVIOUS
  <2>2. /\ z \in NodeType /\ Len(z.key) = N - 1 /\ ~z.isLeaf /\ r \in Nat
        /\ Len(z.chi) = N - 1 + 1 /\ N - 1 + 1 = N
    BY <1>1, <1>2, <1>5, <2>1, Halves DEF NodeOK
  <2>3. Distinct(z.chi) /\ Lacks(z.chi, r)
    BY <1>1, <1>r, <2>1 DEF TreeShape, Children, Distinct, Lacks
  <2>4. t = insert_in_temp(z, k, r) /\ Len(z.chi) = N
    BY <1>t, <2>1, <2>2
  <2>5. /\ t.key \in Seq(Keys) /\ Len(t.key) = N /\ t.key[H + 1] \in Keys
        /\ t.chi \in Seq(Nat) /\ Len(t.chi) = N + 1
        /\ Among(t.chi, z.chi, r) /\ Distinct(t.chi)
    BY <2>2, <2>3, <2>4, TempType
  <2> QED BY <2>1, <2>5
\* What is in the temp are nodes with the full node for a parent, one level down.
<1>7. DOMAIN t.chi = 1 .. N + 1
  BY <1>6, Halves
<1>8. ASSUME NEW j \in DOMAIN t.chi
      PROVE  t.chi[j] \in 1 .. Len(node) /\ node[t.chi[j]].parent = l /\ d[t.chi[j]] + 1 = d[l]
  <2>1. CASE t.chi[j] = r
    BY <1>2, <1>r, <2>1
  <2>2. CASE \E m \in DOMAIN node[l].chi : t.chi[j] = node[l].chi[m]
    BY <1>1, <1>c, <1>d, <2>2 DEF TreeShape, Children, Levels
  <2> QED BY <1>6, <2>1, <2>2 DEF Among
<1>9. /\ x \in NodeType /\ ~x.isLeaf /\ x.link = node[l].link /\ x.parent = node[l].parent
      /\ Len(x.key) = H /\ Len(x.chi) = H + 1 /\ DOMAIN x.chi = 1 .. H + 1
      /\ \A j \in 1 .. H + 1 : x.chi[j] = t.chi[j]
  <2>1. PICK z \in NodeType : z = node[l]
    BY <1>1
  <2>2. x = copy_from_temp_to_left_parent(t, z)
    BY <1>4, <2>1
  <2>3. /\ x \in NodeType /\ (x.isLeaf <=> z.isLeaf) /\ x.link = z.link /\ x.parent = z.parent
        /\ Len(x.key) = H /\ Len(x.chi) = H + 1 /\ DOMAIN x.chi = 1 .. H + 1
    BY <1>6, <2>2, LeftParentType
  <2>4. Moved(x.chi, t.chi, H + 1, 0)
    BY <1>6, <2>2, LeftParentType
  <2>5. \A j \in 1 .. H + 1 : x.chi[j] = t.chi[j]
    <3>1. \A j \in 1 .. H + 1 : x.chi[j] = t.chi[0 + j]
      BY <2>4 DEF Moved
    <3>2. \A j \in 1 .. H + 1 : 0 + j = j
      BY Halves
    <3> QED BY <3>1, <3>2
  <2> QED BY <1>2, <2>1, <2>3, <2>5
<1>10. /\ y \in NodeType /\ ~y.isLeaf /\ y.link = NULL /\ y.parent = node[l].parent
       /\ Len(y.key) = H - 1 /\ Len(y.chi) = H /\ DOMAIN y.chi = 1 .. H
       /\ \A j \in 1 .. H : y.chi[j] = t.chi[H + 1 + j]
  <2>1. PICK q \in Nat : q = node[l].parent
    BY <1>2 DEF NodeOK
  <2>2. y = copy_from_temp_to_right_parent(t, alloc_internal(q))
    BY <1>4, <2>1
  <2>3. /\ t.key \in Seq(Keys) /\ Len(t.key) = N
        /\ t.chi \in Seq(Nat) /\ Len(t.chi) = N + 1
    BY <1>6
  <2>4. y \in NodeType /\ ~y.isLeaf /\ y.link = NULL /\ y.parent = q
    BY <2>2, <2>3, RightParentType
  <2>5. Len(y.key) = H - 1 /\ Len(y.chi) = H /\ DOMAIN y.chi = 1 .. H
    BY <2>2, <2>3, RightParentType
  <2>6. Moved(y.chi, t.chi, H, H + 1)
    BY <2>2, <2>3, RightParentType
  <2>7. \A j \in 1 .. H : y.chi[j] = t.chi[H + 1 + j]
    BY <2>6 DEF Moved
  <2> QED BY <2>1, <2>4, <2>5, <2>7
<1>h. /\ H \in Nat /\ H - 1 \in Nat /\ H \in 1 .. N - 1 /\ H - 1 \in 1 .. N - 1 /\ H - 1 + 1 = H
      /\ \A j \in 1 .. H + 1 : j \in 1 .. N + 1
      /\ \A j \in 1 .. H : H + 1 + j \in 1 .. N + 1
      /\ \A j \in 1 .. H + 1 : \A m \in 1 .. H : j # H + 1 + m
      /\ \A j, m \in 1 .. H : H + 1 + j = H + 1 + m => j = m
  BY Halves
<1>11. /\ s \in Seq(NodeType) /\ Len(s) = R /\ s[l] = x /\ s[R] = y
       /\ \A q \in 1 .. Len(node) : q # l => s[q] = node[q]
  BY <1>1, <1>9, <1>10, <1>R, <1>s, ReplacedAndAdded
<1>12. /\ node' \in Seq(NodeType) /\ Len(node') = R
       /\ \A q \in 1 .. R :
             /\ (node'[q].isLeaf <=> s[q].isLeaf) /\ node'[q].key = s[q].key
             /\ node'[q].chi = s[q].chi /\ node'[q].link = s[q].link
             /\ Holds(y, q) => node'[q].parent = R
             /\ ~Holds(y, q) => node'[q].parent = s[q].parent
  <2>1. R \in 1 .. Len(s)
    BY <1>3, <1>11
  <2>2. PICK n : n = node'
    OBVIOUS
  <2>3. s \in Seq(NodeType) /\ n = Adopt(s, R)
    BY <1>5, <1>11, <2>2
  <2>4. n \in Seq(NodeType) /\ Len(n) = Len(s)
    BY <2>1, <2>3, AdoptType
  <2>5. ASSUME NEW q \in 1 .. Len(s)
        PROVE  /\ (n[q].isLeaf <=> s[q].isLeaf) /\ n[q].key = s[q].key
               /\ n[q].chi = s[q].chi /\ n[q].link = s[q].link
               /\ Holds(s[R], q) => n[q].parent = R
               /\ ~Holds(s[R], q) => n[q].parent = s[q].parent
    BY <2>1, <2>3, AdoptType
  <2> QED BY <1>11, <2>2, <2>4, <2>5
\* The children that go are children of the full node.
<1>13. ASSUME NEW q, Holds(y, q)
       PROVE  q \in 1 .. Len(node) /\ node[q].parent = l /\ d[q] + 1 = d[l]
  <2>1. PICK j \in 1 .. H : y.chi[j] = q
    BY <1>10, <1>13 DEF Holds
  <2>2. PICK m : m = H + 1 + j
    OBVIOUS
  <2>3. m \in DOMAIN t.chi /\ t.chi[m] = q
    BY <1>7, <1>10, <1>h, <2>1, <2>2
  <2> QED BY <1>8, <2>3
<1>14. ASSUME NEW j \in 1 .. H + 1, Holds(y, x.chi[j]) PROVE FALSE
  <2>1. PICK m \in 1 .. H : y.chi[m] = x.chi[j]
    BY <1>10, <1>14 DEF Holds
  <2>2. PICK n : n = H + 1 + m
    OBVIOUS
  <2>3. n \in DOMAIN t.chi /\ j \in DOMAIN t.chi /\ j # n
    BY <1>7, <1>h, <2>2
  <2>4. t.chi[n] = t.chi[j]
    BY <1>9, <1>10, <2>1, <2>2
  <2> QED BY <1>6, <2>3, <2>4 DEF Distinct
<1>15. /\ node'[l].key = x.key /\ node'[l].chi = x.chi /\ node'[l].link = node[l].link
       /\ ~node'[l].isLeaf /\ node'[l].parent = node[l].parent
  <2>1. ~Holds(y, l)
    <3>1. SUFFICES ASSUME Holds(y, l) PROVE FALSE
      OBVIOUS
    <3>2. d[l] + 1 = d[l] /\ d[l] \in Nat
      BY <1>13, <1>d, <3>1 DEF Levels
    <3> QED BY <3>2
  <2> QED BY <1>3, <1>9, <1>11, <1>12, <2>1
<1>16. /\ node'[R].key = y.key /\ node'[R].chi = y.chi /\ node'[R].link = NULL
       /\ ~node'[R].isLeaf /\ node'[R].parent = node[l].parent
  <2>1. ~Holds(y, R)
    BY <1>3, <1>13
  <2> QED BY <1>3, <1>10, <1>11, <1>12, <2>1
<1>17. ASSUME NEW q \in 1 .. Len(node)
       PROVE  /\ (node'[q].isLeaf <=> node[q].isLeaf) /\ node'[q].link = node[q].link
              /\ q # l => node'[q].key = node[q].key /\ node'[q].chi = node[q].chi
              /\ Holds(y, q) => node'[q].parent = R
              /\ ~Holds(y, q) => node'[q].parent = node[q].parent
  <2>1. CASE q = l
    <3>1. q \in 1 .. R /\ s[q].parent = node[q].parent
      BY <1>3, <1>9, <1>11, <2>1
    <3> QED BY <1>2, <1>12, <1>15, <2>1, <3>1
  <2>2. CASE q # l
    <3>1. q \in 1 .. R /\ s[q] = node[q]
      BY <1>3, <1>11, <2>2
    <3> QED BY <1>12, <2>2, <3>1
  <2> QED BY <2>1, <2>2
<1>18. ASSUME NEW q \in 1 .. Len(node') PROVE NodeOK(node'[q], Len(node'))
  <2>0. node'[q] \in NodeType
    BY <1>12
  <2>1. CASE q = R
    <3>1. \A j \in DOMAIN y.chi : y.chi[j] \in 1 .. R
      <4>1. \A j \in DOMAIN y.chi : Holds(y, y.chi[j])
        BY DEF Holds
      <4> QED BY <1>3, <1>13, <4>1
    <3>2. NULL \in 0 .. R /\ node[l].parent \in 0 .. R
      BY <1>2, <1>3 DEF NULL, NodeOK
    <3>3. /\ Len(node'[q].key) \in 1 .. N - 1
          /\ Len(node'[q].chi) = IF node'[q].isLeaf THEN 0 ELSE Len(node'[q].key) + 1
      BY <1>10, <1>16, <1>h, <2>1
    <3> QED BY <1>12, <1>16, <2>0, <2>1, <3>1, <3>2, <3>3 DEF NodeOK
  <2>2. CASE q = l
    <3>1. \A j \in DOMAIN x.chi : x.chi[j] \in 1 .. R
      BY <1>3, <1>7, <1>8, <1>9, <1>h
    <3>2. node[l].link \in 0 .. R /\ node[l].parent \in 0 .. R
      BY <1>2, <1>3 DEF NodeOK
    <3>3. /\ Len(node'[q].key) \in 1 .. N - 1
          /\ Len(node'[q].chi) = IF node'[q].isLeaf THEN 0 ELSE Len(node'[q].key) + 1
      BY <1>9, <1>15, <1>h, <2>2
    <3> QED BY <1>12, <1>15, <2>0, <2>2, <3>1, <3>2, <3>3 DEF NodeOK
  <2>3. CASE q # R /\ q # l
    <3>1. q \in 1 .. Len(node)
      BY <1>3, <1>12, <2>3
    <3>2. NodeOK(node[q], R)
      BY <1>1, <1>3, <1>R, <3>1, NodesAreOK, NodeOKMore
    <3>3. node'[q].parent \in 0 .. R
      BY <1>3, <1>17, <3>1, <3>2 DEF NodeOK
    <3> QED BY <1>12, <1>17, <2>0, <2>3, <3>1, <3>2, <3>3 DEF NodeOK
  <2> QED BY <2>1, <2>2, <2>3
<1>u. /\ up' # <<>> /\ up'.left = l /\ up'.right = R
      /\ up' \in [left : 1 .. R, rs_key : Keys, right : 1 .. R]
  BY <1>3, <1>5, <1>6
<1>19. TypeOK'
  <2>1. Root' \in 0 .. Len(node')
    BY <1>0, <1>1, <1>3, <1>12
  <2> QED BY <1>1, <1>12, <1>18, <1>u, <2>1 DEF TypeOK, NodeOK, UpType
<1>20. Children'
  <2>1. SUFFICES ASSUME NEW q \in 1 .. R
                 PROVE  /\ \A j \in DOMAIN node'[q].chi : node'[node'[q].chi[j]].parent = q
                        /\ \A j, m \in DOMAIN node'[q].chi :
                              node'[q].chi[j] = node'[q].chi[m] => j = m
    BY <1>12 DEF Children
  <2>2. CASE q = R
    <3>1. ASSUME NEW j \in DOMAIN y.chi PROVE node'[y.chi[j]].parent = R
      <4>1. Holds(y, y.chi[j])
        BY DEF Holds
      <4> QED BY <1>13, <1>17, <4>1
    <3>2. ASSUME NEW j \in DOMAIN y.chi, NEW m \in DOMAIN y.chi, y.chi[j] = y.chi[m] PROVE j = m
      <4>1. PICK a, b : a = H + 1 + j /\ b = H + 1 + m
        OBVIOUS
      <4>2. a \in DOMAIN t.chi /\ b \in DOMAIN t.chi /\ t.chi[a] = t.chi[b]
        BY <1>7, <1>10, <1>h, <3>2, <4>1
      <4>3. a = b
        BY <1>6, <4>2 DEF Distinct
      <4> QED BY <1>10, <1>h, <4>1, <4>3
    <3> QED BY <1>16, <2>2, <3>1, <3>2
  <2>3. CASE q = l
    <3>1. ASSUME NEW j \in DOMAIN x.chi PROVE node'[x.chi[j]].parent = l
      <4>1. j \in 1 .. H + 1 /\ j \in DOMAIN t.chi /\ x.chi[j] = t.chi[j]
        BY <1>7, <1>9, <1>h
      <4>2. x.chi[j] \in 1 .. Len(node) /\ node[x.chi[j]].parent = l
        BY <1>8, <4>1
      <4> QED BY <1>14, <1>17, <4>1, <4>2
    <3>2. \A j, m \in DOMAIN x.chi : x.chi[j] = x.chi[m] => j = m
      BY <1>6, <1>7, <1>9, <1>h DEF Distinct
    <3> QED BY <1>15, <2>3, <3>1, <3>2
  <2>4. CASE q # R /\ q # l
    <3>1. q \in 1 .. Len(node) /\ node'[q].chi = node[q].chi
      BY <1>3, <1>17, <2>4
    <3>2. /\ \A j \in DOMAIN node[q].chi : node[node[q].chi[j]].parent = q
          /\ \A j, m \in DOMAIN node[q].chi : node[q].chi[j] = node[q].chi[m] => j = m
      BY <1>1, <3>1 DEF TreeShape, Children
    <3>3. ASSUME NEW j \in DOMAIN node[q].chi PROVE node'[node[q].chi[j]].parent = q
      <4>1. node[q].chi[j] \in 1 .. Len(node) /\ node[node[q].chi[j]].parent = q
        BY <1>c, <3>1, <3>2
      <4>2. ~Holds(y, node[q].chi[j])
        BY <1>13, <2>4, <4>1
      <4> QED BY <1>17, <4>1, <4>2
    <3> QED BY <3>1, <3>2, <3>3
  <2> QED BY <2>2, <2>3, <2>4
<1>n. l # NULL /\ R # NULL
  BY <1>1, <1>R DEF NULL
<1>21. Parents'
  <2>1. Root # NULL => node'[Root].parent = NULL
    <3>1. SUFFICES ASSUME Root # NULL PROVE node'[Root].parent = NULL
      OBVIOUS
    <3>2. Root \in 1 .. Len(node) /\ node[Root].parent = NULL
      BY <1>1, <3>1 DEF TreeShape, Parents, NULL
    <3>3. ~Holds(y, Root)
      BY <1>13, <1>n, <3>2
    <3> QED BY <1>17, <3>2, <3>3
  <2>2. ASSUME NEW q \in 1 .. Len(node), node[q].parent = NULL PROVE q = Root
    BY <1>0, <1>1, <2>2 DEF TreeShape, Parents
  <2>3. ASSUME NEW q \in 1 .. Len(node'), node'[q].parent = NULL
        PROVE  q = Root \/ (l = Root /\ q = R)
    <3>1. CASE q = R
      <4>1. l = Root
        BY <1>16, <2>2, <2>3, <3>1
      <4> QED BY <3>1, <4>1
    <3>2. CASE q # R
      <4>1. q \in 1 .. Len(node)
        BY <1>3, <1>12, <3>2
      <4>2. node[q].parent = NULL
        BY <1>17, <1>n, <2>3, <4>1
      <4> QED BY <2>2, <4>1, <4>2
    <3> QED BY <3>1, <3>2
  <2> QED BY <1>0, <1>u, <2>1, <2>3 DEF Parents
<1>22. Pending'
  <2>1. ASSUME NEW q \in 1 .. Len(node'), NEW j \in DOMAIN node'[q].chi PROVE node'[q].chi[j] # R
    <3>1. CASE q = R
      <4>1. j \in DOMAIN y.chi /\ Holds(y, y.chi[j])
        BY <1>16, <2>1, <3>1 DEF Holds
      <4> QED BY <1>3, <1>13, <1>16, <3>1, <4>1
    <3>2. CASE q = l
      <4>1. j \in DOMAIN t.chi /\ node'[l].chi[j] = t.chi[j]
        BY <1>7, <1>9, <1>15, <1>h, <2>1, <3>2
      <4> QED BY <1>3, <1>8, <3>2, <4>1
    <3>3. CASE q # R /\ q # l
      BY <1>3, <1>12, <1>17, <1>c, <2>1, <3>3
    <3> QED BY <3>1, <3>2, <3>3
  <2>2. node'[R].parent = node'[l].parent
    BY <1>15, <1>16
  <2> QED BY <1>3, <1>u, <2>1, <2>2 DEF Pending
<1>23. Filled'
  <2>1. H >= H - 1 /\ H - 1 >= H - 1
    BY <1>h
  <2>2. Len(node'[l].key) >= IF node'[l].isLeaf THEN H ELSE H - 1
    BY <1>9, <1>15, <2>1
  <2>3. Len(node'[R].key) >= IF node'[R].isLeaf THEN H ELSE H - 1
    BY <1>10, <1>16, <2>1
  <2>4. ASSUME NEW q \in 1 .. Len(node), q # l, q # Root PROVE Enough(q)'
    BY <1>1, <1>17, <2>4 DEF TreeShape, Filled, Enough
  <2>5. Enough(l)' /\ \A q : q = R => Enough(q)'
    BY <2>2, <2>3 DEF Enough
  <2>6. SUFFICES ASSUME NEW q \in 1 .. Len(node'),
                        q # Root' \/ (up' # <<>> /\ q = up'.left)
                 PROVE  Enough(q)'
    BY DEF Filled
  <2>7. CASE q = R
    BY <2>5, <2>7
  <2>8. CASE q = l
    BY <2>5, <2>8
  <2>9. CASE q # R /\ q # l
    BY <1>0, <1>3, <1>12, <1>u, <2>4, <2>6, <2>9
  <2> QED BY <2>7, <2>8, <2>9
<1>24. \E e : Levels(e)'
  <2>1. PICK e : e = [q \in 1 .. R |-> IF q = R THEN d[l] ELSE d[q]]
    OBVIOUS
  <2>d. /\ d \in [1 .. Len(node) -> 0 .. Len(node)]
        /\ \A q \in 1 .. Len(node) :
              /\ node[q].isLeaf <=> d[q] = 0
              /\ \A j \in DOMAIN node[q].chi : d[node[q].chi[j]] + 1 = d[q]
              /\ node[q].parent # NULL => d[node[q].parent] = d[q] + 1
    BY <1>d DEF Levels
  <2>2. \A q \in 1 .. Len(node) : d[q] \in 0 .. R
    BY <1>3, <2>d
  <2>3. /\ e \in [1 .. R -> 0 .. R] /\ e[R] = d[l]
        /\ \A q \in 1 .. Len(node) : e[q] = d[q]
    BY <1>3, <2>1, <2>2
  <2>4. \A q \in 1 .. Len(node) : node[q].parent # NULL => node[q].parent \in 1 .. Len(node)
    BY <1>1, NodeFields DEF NULL
  <2>5. ASSUME NEW j \in DOMAIN x.chi PROVE e[x.chi[j]] + 1 = d[l]
    <3>1. j \in DOMAIN t.chi /\ x.chi[j] = t.chi[j]
      BY <1>7, <1>9, <1>h
    <3> QED BY <1>8, <2>3, <3>1
  <2>6. ASSUME NEW j \in DOMAIN y.chi PROVE e[y.chi[j]] + 1 = d[l]
    <3>1. Holds(y, y.chi[j])
      BY DEF Holds
    <3> QED BY <1>13, <2>3, <3>1
  <2>7. node[l].parent # NULL => e[node[l].parent] = d[l] + 1
    BY <2>3, <2>4, <2>d
  <2>8. ASSUME NEW q \in 1 .. Len(node')
        PROVE  /\ node'[q].isLeaf <=> e[q] = 0
               /\ \A j \in DOMAIN node'[q].chi : e[node'[q].chi[j]] + 1 = e[q]
               /\ node'[q].parent # NULL => e[node'[q].parent] = e[q] + 1
    <3>1. CASE q = R
      BY <1>2, <1>16, <2>3, <2>6, <2>7, <3>1
    <3>2. CASE q = l
      BY <1>2, <1>15, <2>3, <2>5, <2>7, <3>2
    <3>3. CASE q # R /\ q # l
      <4>1. q \in 1 .. Len(node)
        BY <1>3, <1>12, <3>3
      <4>2. /\ node[q].isLeaf <=> e[q] = 0
            /\ \A j \in DOMAIN node[q].chi : e[node[q].chi[j]] + 1 = e[q]
            /\ node[q].parent # NULL => e[node[q].parent] = e[q] + 1
        BY <1>c, <2>3, <2>4, <2>d, <4>1
      <4>3. Holds(y, q) => e[R] = e[q] + 1
        BY <1>13, <2>3
      <4> QED BY <1>17, <3>3, <4>1, <4>2, <4>3
    <3> QED BY <3>1, <3>2, <3>3
  <2>9. e[up'.left] = e[up'.right]
    BY <1>u, <2>3
  <2>10. Levels(e)'
    BY <1>12, <2>3, <2>8, <2>9 DEF Levels
  <2> QED BY <2>10
<1> QED BY <1>1, <1>19, <1>20, <1>21, <1>22, <1>23, <1>24 DEF TreeInv, TreeShape

-----------------------------------------------------------------------------
(* The invariant holds *)

LEMMA InitTree ==
    ASSUME Init
    PROVE  TreeInv
<1>1. Len(<<>>) = 0 /\ 1 .. 0 = {} /\ <<>> \in Seq(NodeType) /\ <<>> \in Seq(Keys)
  OBVIOUS
<1>2. TypeOK
  <2>1. Root \in 0 .. Len(node) /\ node \in Seq(NodeType) /\ inserted \in Seq(Keys)
    BY <1>1 DEF Init, NULL
  <2>2. 1 .. Len(node) = {}
    BY <1>1 DEF Init
  <2> QED BY <2>1, <2>2 DEF Init, TypeOK
<1>3. 1 .. Len(node) = {} /\ up = <<>> /\ Root = NULL
  BY <1>1 DEF Init
<1>4. Children /\ Parents /\ Pending /\ Filled /\ OnlyLeaves
  BY <1>3 DEF Children, Parents, Pending, Filled, OnlyLeaves
<1>5. \E d : Levels(d)
  <2> DEFINE d == [p \in 1 .. Len(node) |-> 0]
  <2>1. d \in [1 .. Len(node) -> 0 .. Len(node)]
    BY <1>3
  <2>2. Levels(d)
    BY <1>3, <2>1 DEF Levels
  <2> QED BY <2>2
<1> QED BY <1>2, <1>4, <1>5 DEF TreeInv, TreeShape

LEMMA NextKeepsTree ==
    ASSUME TreeInv, [Next]_vars
    PROVE  TreeInv'
<1>0. inserted \in Seq(Keys)
  BY DEF TreeInv, TypeOK
<1>1. ASSUME NEW k \in Offered, InsertFirst(k) PROVE TreeInv'
  BY <1>1, InsertFirstKeeps
<1>2. ASSUME NEW k \in Offered, InsertInLeaf(k) PROVE TreeInv'
  BY <1>2, InsertInLeafKeeps
<1>3. ASSUME NEW k \in Offered, InsertDropped(k) PROVE TreeInv'
  <2>1. Typed(k) /\ UNCHANGED <<Root, node, up>>
    BY <1>3 DEF InsertDropped
  <2>2. inserted' \in Seq(Keys) /\ stage' = stage /\ input' = input
    BY <2>1, TypedType DEF TreeInv
  <2> QED BY <2>1, <2>2, UnchangedKeeps
<1>4. ASSUME NEW k \in Offered, InsertInHalves(k) PROVE TreeInv'
  BY <1>4, InsertInHalvesKeeps
<1>5. ASSUME NEW k \in Offered, SplitLeaf(k) PROVE TreeInv'
  BY <1>5, SplitLeafKeeps
<1>6. ASSUME NEW p \in 1 .. Len(node), GrowRoot(p) PROVE TreeInv'
  BY <1>6, GrowRootKeeps
<1>7. ASSUME NEW p \in 1 .. Len(node), AddToParent(p) PROVE TreeInv'
  BY <1>7, AddToParentKeeps
<1>8. ASSUME NEW p \in 1 .. Len(node), SplitParent(p) PROVE TreeInv'
  BY <1>8, SplitParentKeeps
<1>9. CASE UNCHANGED vars
  BY <1>0, <1>9, UnchangedKeeps DEF vars
<1>10. CASE Finished
  BY <1>9, <1>10 DEF Finished
<1> QED BY <1>1, <1>2, <1>3, <1>4, <1>5, <1>6, <1>7, <1>8, <1>9, <1>10 DEF Next

LEMMA TreeInvariant == Spec => []TreeInv
<1>1. Init => TreeInv
  BY InitTree
<1>2. TreeInv /\ [Next]_vars => TreeInv'
  BY NextKeepsTree
<1> QED BY <1>1, <1>2, PTL DEF Spec

-----------------------------------------------------------------------------
(* What it says of the tree *)

\* The equation of the recursion in AllLeavesAsDeep, and its right-hand side.
Deeper(f, p) == {h + 1 : h \in UNION {f[node[p].chi[j]] : j \in DOMAIN node[p].chi}}

Depths(f) == f = [p \in 1 .. Len(node) |-> IF node[p].isLeaf THEN {0} ELSE Deeper(f, p)]

ChildrenAreLevel(f, d, p) ==
    \A j \in DOMAIN node[p].chi : f[node[p].chi[j]] = {d[node[p].chi[j]]}

\* Where the children's depths are their levels, so is the parent's.
LEMMA DeeperByOne ==
    ASSUME TypeOK, NEW d, Levels(d), NEW f, NEW p \in 1 .. Len(node), ~node[p].isLeaf,
           ChildrenAreLevel(f, d, p)
    PROVE  Deeper(f, p) = {d[p]}
<1> DEFINE c(j) == node[p].chi[j]
           J == DOMAIN node[p].chi
<1>1. 1 \in J
  <2>1. /\ node[p].chi \in Seq(Nat) /\ Len(node[p].key) \in 1 .. N - 1
        /\ Len(node[p].chi) = Len(node[p].key) + 1
    BY NodeFields
  <2>2. PICK n : n = Len(node[p].key)
    OBVIOUS
  <2>3. n \in 1 .. N - 1 /\ J = 1 .. n + 1
    BY <2>1, <2>2
  <2> QED BY <2>3, Halves
<1>2. \A j \in J : c(j) \in 1 .. Len(node) /\ d[c(j)] + 1 = d[p] /\ f[c(j)] = {d[c(j)]}
  BY NodeFields DEF Levels, ChildrenAreLevel
<1>3. \A j \in J : d[c(j)] \in Nat
  BY <1>2 DEF Levels, TypeOK
<1>4. Deeper(f, p) = {h + 1 : h \in UNION {f[c(j)] : j \in J}}
  BY DEF Deeper
<1> HIDE DEF c, J
<1>5. \A h : h \in UNION {f[c(j)] : j \in J} <=> \E j \in J : h = d[c(j)]
  BY <1>2
<1>6. \A h \in UNION {f[c(j)] : j \in J} : h + 1 = d[p]
  BY <1>2, <1>5
<1>7. d[c(1)] \in UNION {f[c(j)] : j \in J}
  BY <1>1, <1>5
<1> QED BY <1>4, <1>6, <1>7

\* So the depths of the leaves below a node are one, its level.
LEMMA DepthIsLevel ==
    ASSUME TypeOK, NEW d, Levels(d), NEW f, Depths(f), NEW q \in 1 .. Len(node)
    PROVE  f[q] = {d[q]}
<1> DEFINE L == 1 .. Len(node)
           S == {n \in Nat : \A p \in L : d[p] <= n => f[p] = {d[p]}}
<1>1. d \in [L -> 0 .. Len(node)] /\ Len(node) \in Nat
  BY DEF Levels, TypeOK
<1>2. \A p \in L : /\ node[p].isLeaf <=> d[p] = 0
                   /\ \A j \in DOMAIN node[p].chi : d[node[p].chi[j]] + 1 = d[p]
                   /\ \A j \in DOMAIN node[p].chi : node[p].chi[j] \in L
  BY NodeFields DEF Levels
<1>3. \A p \in L : f[p] = IF node[p].isLeaf THEN {0} ELSE Deeper(f, p)
  BY DEF Depths
<1>4. 0 \in S
  <2>1. ASSUME NEW p \in L, d[p] <= 0 PROVE f[p] = {d[p]}
    <3>1. d[p] = 0
      BY <1>1, <2>1
    <3>2. node[p].isLeaf
      BY <1>2, <3>1
    <3> QED BY <1>3, <3>1, <3>2
  <2> QED BY <2>1
<1>5. ASSUME NEW n \in Nat, n \in S PROVE n + 1 \in S
  <2>1. ASSUME NEW p \in L, d[p] <= n + 1 PROVE f[p] = {d[p]}
    <3>1. CASE node[p].isLeaf
      <4>1. d[p] = 0
        BY <1>2, <3>1
      <4> QED BY <1>3, <3>1, <4>1
    <3>2. CASE ~node[p].isLeaf
      <4>1. ASSUME NEW j \in DOMAIN node[p].chi PROVE f[node[p].chi[j]] = {d[node[p].chi[j]]}
        <5>1. PICK c \in L : c = node[p].chi[j]
          BY <1>2
        <5>2. d[c] + 1 = d[p] /\ d[c] \in Nat
          BY <1>1, <1>2, <5>1
        <5>3. d[c] <= n
          BY <2>1, <5>2
        <5> QED BY <1>5, <5>1, <5>3
      <4>2. Deeper(f, p) = {d[p]}
        <5>1. ChildrenAreLevel(f, d, p)
          BY <4>1 DEF ChildrenAreLevel
        <5> HIDE DEF S
        <5> QED BY <3>2, <5>1, DeeperByOne
      <4> QED BY <1>3, <3>2, <4>2
    <3> QED BY <3>1, <3>2
  <2> QED BY <2>1
<1>6. Len(node) \in S
  <2> HIDE DEF S
  <2> QED BY <1>1, <1>4, <1>5, AllNat
<1> QED BY <1>1, <1>6

LEMMA DepthsExist ==
    ASSUME TypeOK, NEW d, Levels(d)
    PROVE  \E f : Depths(f)
<1>1. PICK f : f = [p \in 1 .. Len(node) |-> {d[p]}]
  OBVIOUS
<1>2. ASSUME NEW p \in 1 .. Len(node)
      PROVE  f[p] = IF node[p].isLeaf THEN {0} ELSE Deeper(f, p)
  <2>1. CASE node[p].isLeaf
    <3>1. d[p] = 0
      BY <2>1 DEF Levels
    <3> QED BY <1>1, <2>1, <3>1
  <2>2. CASE ~node[p].isLeaf
    <3>1. ChildrenAreLevel(f, d, p)
      BY <1>1, NodeFields DEF ChildrenAreLevel
    <3>2. Deeper(f, p) = {d[p]}
      BY <2>2, <3>1, DeeperByOne
    <3> QED BY <1>1, <2>2, <3>2
  <2> QED BY <2>1, <2>2
<1>3. Depths(f)
  BY <1>1, <1>2 DEF Depths
<1> QED BY <1>3

LEMMA AllAsDeep ==
    ASSUME TypeOK, NEW d, Levels(d), Root # NULL
    PROVE  AllLeavesAsDeep
<1> DEFINE f == CHOOSE g : Depths(g)
<1>1. Depths(f)
  BY DepthsExist
<1>2. AllLeavesAsDeep <=> Cardinality(f[Root]) = 1
  BY DEF AllLeavesAsDeep, Depths, Deeper
<1> HIDE DEF f
<1>3. f[Root] = {d[Root]}
  <2>1. Root \in 1 .. Len(node)
    BY DEF TypeOK, NULL
  <2> QED BY <1>1, <2>1, DepthIsLevel
<1>4. Cardinality({d[Root]}) = 1
  BY FS_Singleton
<1> QED BY <1>2, <1>3, <1>4

-----------------------------------------------------------------------------
(* Theorems *)

\* No node ever holds more than N - 1 keys, nor any but one child more than
\* keys; every pointer followed, up or down, is that of a node.
THEOREM TypeCorrect == Spec => []TypeOK
<1>1. TreeInv => TypeOK
  BY DEF TreeInv
<1> QED BY <1>1, TreeInvariant, PTL

\* After every insertion the parent pointers are those of the tree, its leaves
\* are all as deep, and its nodes half full.
THEOREM TreeIsWellFormed == Spec => []WellFormed
<1>1. ASSUME TreeInv, Tree PROVE ParentHoldsChild /\ AllLeavesAsDeep /\ HalfFull
  <2>1. TypeOK /\ TreeShape /\ up = <<>> /\ Root # NULL
    BY <1>1 DEF TreeInv, Tree, Between
  <2>2. ParentHoldsChild
    BY <2>1 DEF TreeShape, Children, Parents, ParentHoldsChild
  <2>3. AllLeavesAsDeep
    BY <2>1, AllAsDeep DEF TreeShape
  <2>4. HalfFull
    BY <2>1 DEF TreeShape, Filled, Enough, HalfFull
  <2> QED BY <2>2, <2>3, <2>4
<1>2. TreeInv => WellFormed
  BY <1>1 DEF WellFormed
<1> QED BY <1>2, TreeInvariant, PTL
=============================================================================
