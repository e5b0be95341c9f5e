------------------------- MODULE BLinkTreeRangeProofs -------------------------
(***************************************************************************)
(* NeverTooFarRight for BLinkTree, for every even fan-out, any threads and *)
(* any distinct keys.  A node is given two numbers that it keeps: its      *)
(* level, and the separator with which it was split off.                   *)
(***************************************************************************)
EXTENDS BLinkTreeProofs

-----------------------------------------------------------------------------
(* The order of the nodes: lev[p] is the level of p, leaves being on level *)
(* 0, and low[p] the bound below all keys under p.                         *)

\* q is on p's level, to the right of p.
Right(low, lev, p, q) == q \in DOMAIN low /\ lev[q] = lev[p] /\ low[p] < low[q]

\* k is below, or not above, all that is to the right of p.
Below(low, lev, p, k) == \A q \in DOMAIN low : Right(low, lev, p, q) => k < low[q]
AtMost(low, lev, p, k) == \A q \in DOMAIN low : Right(low, lev, p, q) => k <= low[q]

\* l is next to p on the right; NULL if there is no such node.
IsNext(low, lev, p, l) ==
    /\ l # NULL => Right(low, lev, p, l)
    /\ \A q \in DOMAIN low : Right(low, lev, p, q) => l # NULL /\ low[l] <= low[q]

\* h is the bound of the next node, if there is one.
IsHigh(low, lev, p, h) == \A l \in DOMAIN low : IsNext(low, lev, p, l) => h = low[l]

\* c may be a child of p.
Under(low, lev, p, c) == c \in DOMAIN low /\ p \in DOMAIN low /\ lev[p] = lev[c] + 1 /\ low[p] <= low[c]

Differ(low, lev) ==
    \A p, q \in DOMAIN low : lev[p] = lev[q] /\ low[p] = low[q] => p = q

Bounds(low, lev, D) ==
    /\ low \in [D -> Nat] /\ lev \in [D -> Nat]
    /\ NULL \notin D
    /\ Differ(low, lev)

\* With a new node, nothing changes for the others, but for the node x.
Refines(low, lev, low2, lev2, x) ==
    /\ DOMAIN low \subseteq DOMAIN low2
    /\ \A p \in DOMAIN low : low2[p] = low[p] /\ lev2[p] = lev[p]
    /\ \A p \in DOMAIN low \ {x} :
          /\ \A k \in Int : Below(low, lev, p, k) => Below(low2, lev2, p, k)
          /\ \A k \in Int : AtMost(low, lev, p, k) => AtMost(low2, lev2, p, k)
          /\ \A l \in DOMAIN low \cup {NULL} : IsNext(low, lev, p, l) => IsNext(low2, lev2, p, l)
          /\ \A h : IsHigh(low, lev, p, h) => IsHigh(low2, lev2, p, h)

LEMMA RefinesSame ==
    ASSUME NEW low, NEW lev, NEW x
    PROVE  Refines(low, lev, low, lev, x)
  BY DEF Refines

\* The bounds with one for the node new.
WithNew(low, new, k) == [p \in DOMAIN low \cup {new} |-> IF p = new THEN k ELSE low[p]]

\* With its new bounds, the node new is split off x.
SplitOff(low, lev, low2, lev2, D, x, new, k) ==
    /\ Bounds(low2, lev2, D \cup {new})
    /\ Refines(low, lev, low2, lev2, x)
    /\ low2[new] = k /\ lev2[new] = lev[x]
    /\ \A p \in D : low2[p] = low[p] /\ lev2[p] = lev[p]
    /\ IsNext(low2, lev2, x, new)
    /\ \A b \in Int : Below(low, lev, x, b) => Below(low2, lev2, new, b)
    /\ \A b \in Int : b < k /\ Below(low, lev, x, b) => Below(low2, lev2, x, b)
    /\ \A b \in Int : AtMost(low, lev, x, b) => AtMost(low2, lev2, new, b)
    /\ \A b \in Int : b <= k => AtMost(low2, lev2, x, b)
    /\ \A b \in Int : k <= b => ~Below(low2, lev2, x, b)
    /\ \A l \in D \cup {NULL} : IsNext(low, lev, x, l) => IsNext(low2, lev2, new, l)
    /\ \A h : IsHigh(low, lev, x, h) => IsHigh(low2, lev2, new, h)
    /\ IsHigh(low2, lev2, x, k)

LEMMA SplitRefines ==
    ASSUME NEW D, NEW low, NEW lev, Bounds(low, lev, D), NEW new, new \notin D, new # NULL,
           NEW x \in D, NEW k \in Nat, low[x] < k, Below(low, lev, x, k)
    PROVE  SplitOff(low, lev, WithNew(low, new, k), WithNew(lev, new, lev[x]), D, x, new, k)
<1>0. PICK low2, lev2 : low2 = WithNew(low, new, k) /\ lev2 = WithNew(lev, new, lev[x])
  OBVIOUS
<1>1. /\ low \in [D -> Nat] /\ lev \in [D -> Nat] /\ DOMAIN low = D /\ NULL \notin D
      /\ Differ(low, lev)
  BY DEF Bounds
<1>2. /\ low2 \in [D \cup {new} -> Nat] /\ lev2 \in [D \cup {new} -> Nat]
      /\ DOMAIN low2 = D \cup {new}
      /\ low2[new] = k /\ lev2[new] = lev[x]
      /\ \A p \in D : p # new /\ low2[p] = low[p] /\ lev2[p] = lev[p]
  <2>1. lev[x] \in Nat
    BY <1>1
  <2>2. /\ low2 \in [D \cup {new} -> Nat] /\ DOMAIN low2 = D \cup {new} /\ low2[new] = k
        /\ \A p \in D : p # new /\ low2[p] = low[p]
    BY <1>0, <1>1 DEF WithNew
  <2>3. /\ lev2 \in [D \cup {new} -> Nat] /\ lev2[new] = lev[x]
        /\ \A p \in D : lev2[p] = lev[p]
    BY <1>0, <1>1, <2>1 DEF WithNew
  <2> QED BY <2>2, <2>3
<1> USE <1>1, <1>2
<1>3. \A p \in D : low[p] \in Nat /\ lev[p] \in Nat /\ low2[p] \in Nat /\ lev2[p] \in Nat
  OBVIOUS
<1>4. \A p, q \in D : Right(low2, lev2, p, q) <=> Right(low, lev, p, q)
  BY DEF Right
<1>5. ASSUME NEW p \in D PROVE Right(low2, lev2, new, p) <=> Right(low, lev, x, p)
  <2>1. CASE lev[p] = lev[x] /\ low[p] > k
    BY <2>1, <1>3 DEF Right
  <2>2. CASE Right(low, lev, x, p)
    BY <2>2, <1>3 DEF Right, Below
  <2> QED BY <2>1, <2>2, <1>3 DEF Right
<1>6. ~Right(low2, lev2, new, new) /\ Right(low2, lev2, x, new)
  BY <1>3 DEF Right
<1>7. ASSUME NEW p \in D \ {x} PROVE Right(low2, lev2, p, new) <=> Right(low, lev, p, x)
  <2>1. CASE Right(low, lev, p, x)
    BY <2>1, <1>3 DEF Right
  <2>2. CASE lev[p] = lev[x] /\ low[p] < k /\ ~(low[p] < low[x])
    <3>1. low[p] # low[x]
      BY <2>2 DEF Differ
    <3>2. Right(low, lev, x, p)
      BY <2>2, <3>1, <1>3 DEF Right
    <3>3. k < low[p]
      BY <3>2 DEF Below
    <3> QED BY <2>2, <3>3, <1>3
  <2> QED BY <2>1, <2>2, <1>3 DEF Right
<1>8. Differ(low2, lev2)
  <2>1. ASSUME NEW p \in D, lev2[p] = lev2[new], low2[p] = low2[new] PROVE FALSE
    <3>1. Right(low, lev, x, p)
      BY <2>1, <1>3 DEF Right
    <3>2. k < low[p]
      BY <3>1 DEF Below
    <3> QED BY <2>1, <3>2, <1>3
  <2> QED BY <2>1 DEF Differ
<1> HIDE <1>1, <1>2
<1>f. /\ DOMAIN low = D /\ DOMAIN low2 = D \cup {new} /\ new # NULL /\ NULL \notin D
      /\ low2[new] = k /\ \A p \in D : p # new /\ low2[p] = low[p] /\ lev2[p] = lev[p]
  BY <1>1, <1>2
<1>9. Refines(low, lev, low2, lev2, x)
  <2>1. ASSUME NEW p \in D \ {x}, NEW b \in Int, Below(low, lev, p, b) PROVE Below(low2, lev2, p, b)
    <3>1. Right(low2, lev2, p, new) => b < k
      BY <1>3, <1>7, <2>1, <1>f DEF Below
    <3> QED BY <2>1, <3>1, <1>4, <1>f DEF Below
  <2>2. ASSUME NEW p \in D \ {x}, NEW b \in Int, AtMost(low, lev, p, b) PROVE AtMost(low2, lev2, p, b)
    <3>1. Right(low2, lev2, p, new) => b <= k
      BY <1>3, <1>7, <2>2, <1>f DEF AtMost
    <3> QED BY <2>2, <3>1, <1>4, <1>f DEF AtMost
  <2>3. ASSUME NEW p \in D \ {x}, NEW l \in D \cup {NULL}, IsNext(low, lev, p, l) PROVE IsNext(low2, lev2, p, l)
    <3>1. Right(low2, lev2, p, new) => l # NULL /\ low[l] <= k
      BY <1>3, <1>7, <2>3, <1>f DEF IsNext
    <3> QED BY <2>3, <3>1, <1>4, <1>f DEF IsNext
  <2>4. ASSUME NEW p \in D \ {x}, NEW h, IsHigh(low, lev, p, h) PROVE IsHigh(low2, lev2, p, h)
    <3>1. ASSUME NEW l \in DOMAIN low2, IsNext(low2, lev2, p, l) PROVE h = low2[l]
      <4>1. Right(low2, lev2, p, l)
        BY <3>1, <1>f DEF IsNext
      <4>2. l # new
        <5>1. SUFFICES ASSUME l = new PROVE FALSE
          OBVIOUS
        <5>2. Right(low, lev, p, x) /\ Right(low2, lev2, p, x)
          BY <4>1, <5>1, <1>7, <1>4
        <5>3. low2[new] <= low2[x]
          BY <3>1, <5>1, <5>2, <1>f DEF IsNext
        <5> QED BY <5>3, <1>3, <1>f
      <4>3. IsNext(low, lev, p, l)
        BY <3>1, <4>2, <1>4, <1>f DEF IsNext
      <4> QED BY <2>4, <3>1, <4>2, <4>3, <1>f DEF IsHigh
    <3> QED BY <3>1 DEF IsHigh
  <2> QED BY <2>1, <2>2, <2>3, <2>4, <1>f DEF Refines
<1>10. IsNext(low2, lev2, x, new)
  <2>1. ASSUME NEW q \in D, Right(low2, lev2, x, q) PROVE k <= low2[q]
    BY <2>1, <1>3, <1>4, <1>f DEF Below
  <2> QED BY <1>6, <2>1, <1>f DEF IsNext
<1>11. \A b \in Int : Below(low, lev, x, b) => Below(low2, lev2, new, b)
  BY <1>5, <1>6, <1>f DEF Below
<1>12. \A b \in Int : b < k /\ Below(low, lev, x, b) => Below(low2, lev2, x, b)
  BY <1>4, <1>f DEF Below
<1>13. \A b \in Int : AtMost(low, lev, x, b) => AtMost(low2, lev2, new, b)
  BY <1>5, <1>6, <1>f DEF AtMost
<1>14. ASSUME NEW b \in Int, b <= k PROVE AtMost(low2, lev2, x, b)
  <2>1. ASSUME NEW q \in D, Right(low2, lev2, x, q) PROVE b <= low2[q]
    BY <1>14, <2>1, <1>3, <1>4, <1>f DEF Below
  <2> QED BY <1>14, <2>1, <1>f DEF AtMost
<1>15. \A b \in Int : k <= b => ~Below(low2, lev2, x, b)
  BY <1>6, <1>f DEF Below
<1>16. \A l \in D \cup {NULL} : IsNext(low, lev, x, l) => IsNext(low2, lev2, new, l)
  BY <1>5, <1>6, <1>f DEF IsNext
<1>17. ASSUME NEW h, IsHigh(low, lev, x, h) PROVE IsHigh(low2, lev2, new, h)
  <2>1. ASSUME NEW l \in DOMAIN low2, IsNext(low2, lev2, new, l) PROVE h = low2[l]
    <3>1. l \in D
      BY <2>1, <1>6, <1>f DEF IsNext
    <3>2. IsNext(low, lev, x, l)
      BY <2>1, <3>1, <1>5, <1>f DEF IsNext
    <3> QED BY <1>17, <3>1, <3>2, <1>f DEF IsHigh
  <2> QED BY <2>1 DEF IsHigh
<1>18. IsHigh(low2, lev2, x, k)
  <2>1. ASSUME NEW l \in D, IsNext(low2, lev2, x, l) PROVE FALSE
    <3>1. low2[l] <= k
      BY <2>1, <1>6, <1>f DEF IsNext
    <3>2. Right(low, lev, x, l)
      BY <2>1, <1>4, <1>f DEF IsNext
    <3> QED BY <3>1, <3>2, <1>3, <1>f DEF Below
  <2> QED BY <2>1, <1>f DEF IsHigh
<1>19. Bounds(low2, lev2, D \cup {new})
  BY <1>2, <1>8, <1>f DEF Bounds
<1>20. SplitOff(low, lev, low2, lev2, D, x, new, k)
  BY <1>2, <1>9, <1>10, <1>11, <1>12, <1>13, <1>14, <1>15, <1>16, <1>17, <1>18, <1>19 DEF SplitOff
<1> QED BY <1>0, <1>20

\* The node new is on a level of its own.
OnTop(low, lev, low2, lev2, D, new, top) ==
    /\ Bounds(low2, lev2, D \cup {new})
    /\ \A x : Refines(low, lev, low2, lev2, x)
    /\ low2[new] = 0 /\ lev2[new] = top
    /\ \A p \in D : low2[p] = low[p] /\ lev2[p] = lev[p]
    /\ IsNext(low2, lev2, new, NULL)
    /\ \A b : Below(low2, lev2, new, b)
    /\ \A h : IsHigh(low2, lev2, new, h)

LEMMA TopRefines ==
    ASSUME NEW D, NEW low, NEW lev, Bounds(low, lev, D), NEW new, new \notin D, new # NULL,
           NEW top \in Nat, \A p \in D : lev[p] # top
    PROVE  OnTop(low, lev, WithNew(low, new, 0), WithNew(lev, new, top), D, new, top)
<1>0. PICK low2, lev2 : low2 = WithNew(low, new, 0) /\ lev2 = WithNew(lev, new, top)
  OBVIOUS
<1>1. /\ low \in [D -> Nat] /\ lev \in [D -> Nat] /\ DOMAIN low = D /\ NULL \notin D
      /\ Differ(low, lev)
  BY DEF Bounds
<1>2. /\ low2 \in [D \cup {new} -> Nat] /\ DOMAIN low2 = D \cup {new} /\ low2[new] = 0
      /\ \A p \in D : p # new /\ low2[p] = low[p]
  BY <1>0, <1>1 DEF WithNew
<1>3. /\ lev2 \in [D \cup {new} -> Nat] /\ lev2[new] = top
      /\ \A p \in D : lev2[p] = lev[p] /\ lev2[p] # top
  BY <1>0, <1>1 DEF WithNew
<1>4. \A p, q \in D : Right(low2, lev2, p, q) <=> Right(low, lev, p, q)
  BY <1>1, <1>2, <1>3 DEF Right
<1>5. \A p \in D \cup {new} : ~Right(low2, lev2, p, new) /\ ~Right(low2, lev2, new, p)
  BY <1>1, <1>2, <1>3 DEF Right
<1>6. Bounds(low2, lev2, D \cup {new})
  <2>1. Differ(low2, lev2)
    BY <1>1, <1>2, <1>3 DEF Differ
  <2> QED BY <1>1, <1>2, <1>3, <2>1 DEF Bounds
<1>7. ASSUME NEW x PROVE Refines(low, lev, low2, lev2, x)
  <2>1. ASSUME NEW p \in D, NEW b \in Int, Below(low, lev, p, b) PROVE Below(low2, lev2, p, b)
    BY <2>1, <1>1, <1>2, <1>4, <1>5 DEF Below
  <2>2. ASSUME NEW p \in D, NEW b \in Int, AtMost(low, lev, p, b) PROVE AtMost(low2, lev2, p, b)
    BY <2>2, <1>1, <1>2, <1>4, <1>5 DEF AtMost
  <2>3. ASSUME NEW p \in D, NEW l \in D \cup {NULL}, IsNext(low, lev, p, l) PROVE IsNext(low2, lev2, p, l)
    BY <2>3, <1>1, <1>2, <1>4, <1>5 DEF IsNext
  <2>4. ASSUME NEW p \in D, NEW h, IsHigh(low, lev, p, h) PROVE IsHigh(low2, lev2, p, h)
    <3>1. ASSUME NEW l \in D \cup {new}, IsNext(low2, lev2, p, l) PROVE h = low2[l]
      <4>1. l # NULL /\ l # new
        BY <1>1, <1>5, <3>1 DEF IsNext
      <4>2. IsNext(low, lev, p, l)
        BY <1>1, <1>2, <1>4, <3>1, <4>1 DEF IsNext
      <4> QED BY <1>1, <1>2, <2>4, <3>1, <4>1, <4>2 DEF IsHigh
    <3> QED BY <1>2, <3>1 DEF IsHigh
  <2> QED BY <1>1, <1>2, <1>3, <2>1, <2>2, <2>3, <2>4 DEF Refines
<1>8. IsNext(low2, lev2, new, NULL) /\ \A b : Below(low2, lev2, new, b)
  BY <1>2, <1>5 DEF IsNext, Below
<1>9. \A h : IsHigh(low2, lev2, new, h)
  <2>1. \A l \in DOMAIN low2 : ~IsNext(low2, lev2, new, l)
    BY <1>1, <1>2, <1>5 DEF IsNext
  <2> QED BY <2>1 DEF IsHigh
<1>10. OnTop(low, lev, low2, lev2, D, new, top)
  BY <1>2, <1>3, <1>6, <1>7, <1>8, <1>9 DEF OnTop
<1> QED BY <1>0, <1>10

\* There is one next node at most.
LEMMA OneNext ==
    ASSUME NEW D, NEW low, NEW lev, Bounds(low, lev, D), NEW p \in D, NEW q \in D, NEW l \in D,
           IsNext(low, lev, p, l), IsNext(low, lev, q, l)
    PROVE  p = q
<1>1. /\ low \in [D -> Nat] /\ lev \in [D -> Nat] /\ DOMAIN low = D /\ l # NULL /\ Differ(low, lev)
  BY DEF Bounds
<1>2. Right(low, lev, p, l) /\ Right(low, lev, q, l)
  BY <1>1 DEF IsNext
<1>3. ASSUME NEW a \in D, NEW b \in D, IsNext(low, lev, a, l), Right(low, lev, b, l), Right(low, lev, a, b)
      PROVE  FALSE
  <2>1. low[l] <= low[b] /\ low[b] < low[l]
    BY <1>1, <1>3 DEF IsNext, Right
  <2> QED BY <1>1, <2>1
<1>4. ~Right(low, lev, p, q) /\ ~Right(low, lev, q, p)
  BY <1>2, <1>3
<1>5. lev[p] = lev[q] /\ low[p] = low[q]
  BY <1>1, <1>2, <1>4 DEF Right
<1> QED BY <1>1, <1>5 DEF Differ

\* What is below the next node is below all to the right.
LEMMA NextBelow ==
    ASSUME NEW D, NEW low, NEW lev, Bounds(low, lev, D), NEW p \in D, NEW l \in D \cup {NULL},
           IsNext(low, lev, p, l), NEW k \in Int, l # NULL => k < low[l]
    PROVE  Below(low, lev, p, k)
<1>1. /\ low \in [D -> Nat] /\ lev \in [D -> Nat] /\ DOMAIN low = D
  BY DEF Bounds
<1>2. ASSUME NEW q \in D, Right(low, lev, p, q) PROVE k < low[q]
  <2>1. l # NULL /\ low[l] <= low[q] /\ low[l] \in Nat /\ low[q] \in Nat
    BY <1>1, <1>2 DEF IsNext
  <2> QED BY <2>1
<1> QED BY <1>1, <1>2 DEF Below

-----------------------------------------------------------------------------
(* The invariant *)

\* The root is on top, and only the root to be published is above it.
Placed(low, lev) ==
    /\ Bounds(low, lev, DOMAIN node)
    /\ low[Root] = 0
    /\ \A p \in DOMAIN node :
          lev[p] <= lev[Root] \/ \E u \in Threads : pc[u] = "publish" /\ p = NewRoot

\* Every pointer leads one level up or down, or to the right, also the parent
\* and children that are out of date; a high key is never beyond the next node.
Pointing(low, lev, p) ==
    /\ node[p].isLeaf <=> lev[p] = 0
    /\ node[p].parent # NULL => Under(low, lev, node[p].parent, p)
    /\ ~node[p].isLeaf =>
          \A s \in ChiSlots : node[p].chi[s] # NULL => Under(low, lev, p, node[p].chi[s])
    /\ node[p].right_link # NULL =>
          /\ Right(low, lev, p, node[p].right_link)
          /\ node[p].high_key <= low[node[p].right_link]

\* Somebody is about to store to the field of p.
Pending(p, field) ==
    \E u \in Threads : \E j \in DOMAIN stores[u] :
        stores[u][j].to = p /\ stores[u][j].field = field

\* Unless they are about to be stored, link and high key name the next node.
Linked(low, lev, p) ==
    /\ ~Pending(p, "right_link") => IsNext(low, lev, p, node[p].right_link)
    /\ ~Pending(p, "high_key") => IsHigh(low, lev, p, node[p].high_key)

\* The links and high keys that u is about to store: the high key of a node
\* first, its link once, and the right half has no link before.
LinkStore(low, lev, u, j) ==
    LET q == stores[u] IN
    /\ q[j].field \in {"right_link", "high_key"} => pc[u] = "split"
    /\ q[j].field = "right_link" =>
          /\ IsNext(low, lev, q[j].to, q[j].value)
          /\ q[j].to = rc[u] => node[rc[u]].right_link = NULL
          /\ \A m \in DOMAIN q : q[m].field = "right_link" /\ q[m].to = q[j].to => m = j
    /\ q[j].field = "high_key" =>
          /\ IsHigh(low, lev, q[j].to, q[j].value)
          /\ \E m \in DOMAIN q : q[m].field = "right_link" /\ q[m].to = q[j].to
          /\ \A m \in DOMAIN q : q[m].field = "right_link" /\ q[m].to = q[j].to => j < m

Linking(low, lev, u) == \A j \in DOMAIN stores[u] : LinkStore(low, lev, u, j)

\* u has not yet linked the right half.
Splitting(u) == pc[u] = "split" /\ stores[u] # <<>>

\* k has been inserted in a leaf.
Inserted(k) ==
    \E u \in Threads : \E j \in 1 .. range :
        /\ k = KeyOf(u, j)
        /\ \/ j < i[u]
           \/ j = i[u] /\ pc[u] \in Climbing
           \/ pc[u] = "search"

\* The keys of a leaf are different, and between its bound and the next one.
LeafKeys(low, lev, p) ==
    node[p].isLeaf =>
        /\ \A s \in 0 .. node[p].nkey - 1 :
              /\ low[p] < node[p].key[s]
              /\ AtMost(low, lev, p, node[p].key[s])
              /\ Inserted(node[p].key[s])
        /\ \A a, b \in 0 .. node[p].nkey - 1 : a < b => node[p].key[a] < node[p].key[b]

\* t has made the right half rc[t], which is in no parent yet.
InTransit(t) == pc[t] \in {"up", "lockparent", "parent", "split"}

\* The keys f and children g, n keys, that the internal node p has or will
\* have, are separators and nodes between the bounds of p.
Separators(low, lev, p, f, g, n) ==
    /\ n \in 0 .. N - 1
    /\ f \in [Slots -> Nat]
    /\ \A s \in 0 .. n - 1 :
          low[p] < f[s] /\ Below(low, lev, p, f[s]) /\ low[g[s + 1]] = f[s]
    /\ \A a, b \in 0 .. n - 1 : a < b => f[a] < f[b]
    /\ low[g[0]] = low[p]
    /\ \A s \in 0 .. n : Under(low, lev, p, g[s])
    /\ \A t \in Threads : InTransit(t) => \A s \in 0 .. n : g[s] # rc[t]

\* The keys that p has are larger, and those out of date beyond its bounds.
Larger(low, lev, p, f, n) ==
    \A s \in Slots : node[p].key[s] # 0 =>
        /\ s < n => f[s] <= node[p].key[s]
        /\ s >= n => ~Below(low, lev, p, node[p].key[s])

\* The store q[j], on the way to f, g and n: a child before the key in front
\* of it, and the keys before nkey unless nkey becomes less.
Sets(p, f, g, n, q, j) ==
    q[j].to = p =>
        /\ q[j].field = "key" =>
              /\ q[j].slot \in 0 .. n - 1 /\ q[j].value = f[q[j].slot]
              /\ \A m \in DOMAIN q : q[m].field = "chi" /\ q[m].slot = q[j].slot + 1 => m < j
        /\ q[j].field = "chi" => q[j].slot \in 0 .. n /\ q[j].value = g[q[j].slot]
        /\ q[j].field = "nkey" =>
              /\ q[j].value = n
              /\ n <= node[p].nkey \/ \A m \in DOMAIN q : q[m].field = "key" => m < j

Reaches(p, f, g, n) ==
    /\ \A s \in 0 .. n - 1 :
          \/ node[p].key[s] = f[s]
          \/ \E u \in Threads : Has(stores[u], PutAt(p, "key", s, f[s]))
    /\ \A s \in 0 .. n :
          \/ node[p].chi[s] = g[s]
          \/ \E u \in Threads : Has(stores[u], PutAt(p, "chi", s, g[s]))
    /\ \/ node[p].nkey = n
       \/ \E u \in Threads : Has(stores[u], Put(p, "nkey", n))
    /\ \A u \in Threads : \A j \in DOMAIN stores[u] : Sets(p, f, g, n, stores[u], j)

Separated(low, lev, p) ==
    \E f, g, n : /\ Separators(low, lev, p, f, g, n)
                 /\ Larger(low, lev, p, f, n)
                 /\ Reaches(p, f, g, n)

\* What a thread may find in p without its lock: behind a key, a child with
\* no larger bound, and no key counted that is not there.
Readable(low, lev, p) ==
    /\ node[p].chi[0] # NULL /\ low[node[p].chi[0]] = low[p]
    /\ \A s \in Slots : node[p].key[s] # 0 =>
          node[p].chi[s + 1] # NULL /\ low[node[p].chi[s + 1]] <= node[p].key[s]
    /\ \A s \in 0 .. node[p].nkey - 1 : node[p].key[s] # 0

NodeRange(low, lev, p) ==
    /\ Pointing(low, lev, p)
    /\ Linked(low, lev, p)
    /\ LeafKeys(low, lev, p)
    /\ ~node[p].isLeaf => Separated(low, lev, p) /\ Readable(low, lev, p)

\* The node of which t has split off rc[t].
Half(t) == IF pc[t] = "split" THEN cur[t] ELSE lc[t]

\* Where t is, and what it has read, is not to the right of its key.
Way(low, lev, t) ==
    /\ pc[t] \in {"descend", "scan", "child", "leaf"} => low[cur[t]] < Key(t)
    /\ pc[t] \in {"scan", "child"} =>
          \A s \in 0 .. kid[t] - 1 :
              node[cur[t]].key[s] # 0 /\ node[cur[t]].key[s] < Key(t)
    /\ pc[t] = "scan" => \A s \in 0 .. nkey[t] - 1 : node[cur[t]].key[s] # 0
    /\ InTransit(t) => IsNext(low, lev, Half(t), rc[t])
    /\ pc[t] \in {"up", "lockparent", "parent"} => lm_key[t] = low[rc[t]]
    /\ pc[t] \in {"lockparent", "parent"} /\ cur[t] # NULL => Under(low, lev, cur[t], lc[t])

\* What has the right half for its parent, while it has no link, is within its
\* bounds.
Unlinked(low, lev, u) ==
    Splitting(u) =>
        /\ \A s \in ChiSlots : node[rc[u]].chi[s] # NULL =>
              Below(low, lev, rc[u], low[node[rc[u]].chi[s]])
        /\ \A p \in DOMAIN node : node[p].parent = rc[u] => Below(low, lev, rc[u], low[p])
        /\ \A t \in Threads : pc[t] \in {"lockparent", "parent"} /\ cur[t] = rc[u] =>
              Below(low, lev, rc[u], low[lc[t]])

ThreadRange(low, lev, u) ==
    Linking(low, lev, u) /\ Way(low, lev, u) /\ Unlinked(low, lev, u)

\* Two threads have different right halves, and none splits that of another
\* that has not linked it.
Apart ==
    \A t, u \in Threads : t # u =>
        /\ InTransit(t) /\ InTransit(u) => rc[t] # rc[u]
        /\ pc[t] = "split" /\ Splitting(u) => cur[t] # rc[u]

Ranges(low, lev) ==
    /\ Placed(low, lev)
    /\ \A p \in DOMAIN node : NodeRange(low, lev, p)
    /\ \A u \in Threads : ThreadRange(low, lev, u)
    /\ Apart

RangeInv == ~early => \E low, lev : Ranges(low, lev)

-----------------------------------------------------------------------------
(* What a step keeps of the nodes and threads it leaves alone *)

\* In this step t moves, which has nothing to store.
Alone(t) ==
    /\ t \in Threads /\ stores[t] = <<>>
    /\ Key_vector' = Key_vector
    /\ \A u \in Threads \ {t} : Locals(u)' = Locals(u) /\ lm_key'[u] = lm_key[u]

LEMMA OthersSame ==
    ASSUME NEW t, Alone(t), NEW u \in Threads \ {t}
    PROVE  /\ pc'[u] = pc[u] /\ i'[u] = i[u] /\ cur'[u] = cur[u] /\ nkey'[u] = nkey[u]
           /\ kid'[u] = kid[u] /\ lc'[u] = lc[u] /\ rc'[u] = rc[u] /\ stores'[u] = stores[u]
           /\ lm_key'[u] = lm_key[u] /\ Key(u)' = Key(u) /\ range' = range
<1>1. /\ pc'[u] = pc[u] /\ i'[u] = i[u] /\ cur'[u] = cur[u] /\ nkey'[u] = nkey[u]
      /\ kid'[u] = kid[u] /\ lc'[u] = lc[u] /\ rc'[u] = rc[u] /\ stores'[u] = stores[u]
      /\ lm_key'[u] = lm_key[u]
  BY LocalsSame DEF Alone
<1>2. range' = range
  BY DEF Alone, range
<1>3. Key(u)' = Key(u)
  BY <1>1, <1>2 DEF Alone, Key, KeyOf
<1> QED BY <1>1, <1>2, <1>3

LEMMA RefinesPointers ==
    ASSUME NEW low, NEW lev, NEW low2, NEW lev2, NEW x, Refines(low, lev, low2, lev2, x),
           NEW p \in DOMAIN low, NEW q
    PROVE  /\ Under(low, lev, p, q) => Under(low2, lev2, p, q)
           /\ Right(low, lev, p, q) => Right(low2, lev2, p, q)
  BY DEF Refines, Under, Right

LEMMA PointingKept ==
    ASSUME NEW low, NEW lev, Bounds(low, lev, DOMAIN node), NEW low2, NEW lev2, NEW x,
           Refines(low, lev, low2, lev2, x), NEW p \in DOMAIN node, Pointing(low, lev, p),
           node'[p].isLeaf <=> node[p].isLeaf, node'[p].chi = node[p].chi,
           node'[p].right_link = node[p].right_link, node'[p].high_key = node[p].high_key,
           node'[p].parent = node[p].parent \/ Under(low2, lev2, node'[p].parent, p)
    PROVE  Pointing(low2, lev2, p)'
<1>1. DOMAIN low = DOMAIN node /\ \A q \in DOMAIN low : low2[q] = low[q] /\ lev2[q] = lev[q]
  BY DEF Bounds, Refines
<1>2. (node[p].isLeaf <=> lev2[p] = 0)'
  BY <1>1 DEF Pointing
<1>3. (node[p].parent # NULL => Under(low2, lev2, node[p].parent, p))'
  <2>1. CASE node'[p].parent = node[p].parent /\ node[p].parent # NULL
    <3>1. Under(low, lev, node[p].parent, p)
      BY <2>1 DEF Pointing
    <3>2. node[p].parent \in DOMAIN low
      BY <3>1 DEF Under
    <3> QED BY <2>1, <3>1, <3>2, RefinesPointers
  <2> QED BY <2>1
<1>4. (~node[p].isLeaf =>
          \A s \in ChiSlots : node[p].chi[s] # NULL => Under(low2, lev2, p, node[p].chi[s]))'
  BY <1>1, RefinesPointers DEF Pointing
<1>5. (node[p].right_link # NULL =>
          /\ Right(low2, lev2, p, node[p].right_link)
          /\ node[p].high_key <= low2[node[p].right_link])'
  <2>1. ASSUME node[p].right_link # NULL
        PROVE  /\ Right(low2, lev2, p, node[p].right_link)
               /\ node[p].high_key <= low2[node[p].right_link]
    <3>1. /\ Right(low, lev, p, node[p].right_link)
          /\ node[p].high_key <= low[node[p].right_link]
      BY <2>1 DEF Pointing
    <3>2. node[p].right_link \in DOMAIN low
      BY <3>1 DEF Right
    <3> QED BY <1>1, <3>1, <3>2, RefinesPointers
  <2> QED BY <2>1
<1> QED BY <1>2, <1>3, <1>4, <1>5 DEF Pointing

\* Nobody stops being about to store.
LEMMA PendingKept ==
    ASSUME NEW t, Alone(t), NEW p, NEW field, Pending(p, field)
    PROVE  Pending(p, field)'
<1>1. PICK u \in Threads : \E j \in DOMAIN stores[u] :
          stores[u][j].to = p /\ stores[u][j].field = field
  BY DEF Pending
<1>2. u # t
  BY <1>1 DEF Alone
<1> QED BY <1>1, <1>2, OthersSame DEF Pending

LEMMA LinkedKept ==
    ASSUME TypeOK, NEW low, NEW lev, Bounds(low, lev, DOMAIN node), NEW low2, NEW lev2, NEW x,
           Refines(low, lev, low2, lev2, x), NEW p \in DOMAIN node, p # x, Linked(low, lev, p),
           NEW t, Alone(t),
           node'[p].right_link = node[p].right_link, node'[p].high_key = node[p].high_key
    PROVE  Linked(low2, lev2, p)'
<1>1. DOMAIN low = DOMAIN node /\ node[p].right_link \in DOMAIN low \cup {NULL}
  BY NodeFields, Addresses DEF Bounds
<1>2. \A field : Pending(p, field) => Pending(p, field)'
  BY PendingKept
<1>3. (~Pending(p, "right_link") => IsNext(low2, lev2, p, node[p].right_link))'
  <2>1. ASSUME ~Pending(p, "right_link") PROVE IsNext(low2, lev2, p, node[p].right_link)
    BY <1>1, <2>1 DEF Linked, Refines
  <2> QED BY <1>2, <2>1
<1>4. (~Pending(p, "high_key") => IsHigh(low2, lev2, p, node[p].high_key))'
  <2>1. ASSUME ~Pending(p, "high_key") PROVE IsHigh(low2, lev2, p, node[p].high_key)
    BY <1>1, <2>1 DEF Linked, Refines
  <2> QED BY <1>2, <2>1
<1> QED BY <1>3, <1>4 DEF Linked

LEMMA LinkingKept ==
    ASSUME TypeOK, NEW low, NEW lev, Bounds(low, lev, DOMAIN node), NEW low2, NEW lev2, NEW x,
           Refines(low, lev, low2, lev2, x), NEW t, Alone(t), NEW u \in Threads \ {t},
           PlaceInv(u), StoreInv(u), Linking(low, lev, u),
           \A j \in DOMAIN stores[u] : stores[u][j].to # x,
           pc[u] = "split" => node'[rc[u]].right_link = node[rc[u]].right_link
    PROVE  Linking(low2, lev2, u)'
<1>1. /\ stores'[u] = stores[u] /\ pc'[u] = pc[u] /\ rc'[u] = rc[u]
  BY OthersSame
<1>2. ASSUME NEW j \in DOMAIN stores[u] PROVE LinkStore(low2, lev2, u, j)'
  <2>1. LinkStore(low, lev, u, j)
    BY DEF Linking
  <2>2. PICK st : st = stores[u][j]
    OBVIOUS
  <2>3. GoodStore(u, st) /\ pc[u] \in {"added", "split"} /\ stores[u][j].to # x
    BY <2>2, StoresAre DEF StoreInv, PlaceInv
  <2>4. st.to \in DOMAIN node
    BY <2>3, StoreTargets
  <2>5. DOMAIN low = DOMAIN node /\ st.to \in DOMAIN low \ {x}
    BY <2>2, <2>3, <2>4 DEF Bounds
  <2>6. st.field = "right_link" => st.value \in DOMAIN low \cup {NULL}
    BY <2>3, <2>5 DEF GoodStore, Internal
  <2>7. st.field = "right_link" => IsNext(low2, lev2, st.to, st.value)
    BY <2>1, <2>2, <2>5, <2>6 DEF LinkStore, Refines
  <2>8. st.field = "high_key" => IsHigh(low2, lev2, st.to, st.value)
    BY <2>1, <2>2, <2>5 DEF LinkStore, Refines
  <2> QED BY <1>1, <2>1, <2>2, <2>7, <2>8 DEF LinkStore
<1> QED BY <1>1, <1>2 DEF Linking

\* t does not take back an insertion.
Proceeds(t) ==
    /\ \/ i'[t] = i[t] /\ (pc[t] \in Climbing => pc'[t] \in Climbing)
       \/ i'[t] = i[t] + 1
    /\ pc[t] = "search" => pc'[t] = "search"

LEMMA InsertedKept ==
    ASSUME TypeOK, NEW t, Alone(t), Proceeds(t), NEW k, Inserted(k)
    PROVE  Inserted(k)'
<1>1. PICK u \in Threads, j \in 1 .. range :
          /\ k = KeyOf(u, j)
          /\ j < i[u] \/ (j = i[u] /\ pc[u] \in Climbing) \/ pc[u] = "search"
  BY DEF Inserted
<1>2. range' = range /\ KeyOf(u, j)' = KeyOf(u, j) /\ range \in Nat
  <2>1. range' = range
    BY DEF Alone, range
  <2> QED BY <2>1, RangeType DEF Alone, KeyOf
<1>3. i[u] \in Nat
  <2>1. i[u] \in 1 .. range + 1
    BY DEF TypeOK
  <2> QED BY <1>2, <2>1
<1>4. (j < i[u] \/ (j = i[u] /\ pc[u] \in Climbing) \/ pc[u] = "search")'
  <2>1. CASE u = t
    BY <1>1, <1>2, <1>3, <2>1 DEF Proceeds
  <2>2. CASE u # t
    BY <1>1, <2>2, OthersSame
  <2> QED BY <2>1, <2>2
<1>5. (\E v \in Threads : \E m \in 1 .. range :
          /\ k = KeyOf(v, m)
          /\ m < i[v] \/ (m = i[v] /\ pc[v] \in Climbing) \/ pc[v] = "search")'
  BY <1>1, <1>2, <1>4
<1> QED BY <1>5 DEF Inserted

LEMMA LeafKeysKept ==
    ASSUME TypeOK, NEW low, NEW lev, Bounds(low, lev, DOMAIN node), NEW low2, NEW lev2, NEW x,
           Refines(low, lev, low2, lev2, x), NEW p \in DOMAIN node, p # x, LeafKeys(low, lev, p),
           NEW t, Alone(t), Proceeds(t),
           node'[p].isLeaf <=> node[p].isLeaf, node'[p].key = node[p].key,
           node'[p].nkey = node[p].nkey
    PROVE  LeafKeys(low2, lev2, p)'
<1>1. SUFFICES ASSUME node[p].isLeaf
               PROVE  /\ \A s \in 0 .. node[p].nkey - 1 :
                            /\ low2[p] < node[p].key[s]
                            /\ AtMost(low2, lev2, p, node[p].key[s])
                            /\ Inserted(node[p].key[s])'
                      /\ \A a, b \in 0 .. node[p].nkey - 1 : a < b => node[p].key[a] < node[p].key[b]
  BY DEF LeafKeys, Inserted, KeyOf, range
<1>2. ASSUME NEW s \in 0 .. node[p].nkey - 1
      PROVE  /\ low2[p] < node[p].key[s]
             /\ AtMost(low2, lev2, p, node[p].key[s])
             /\ Inserted(node[p].key[s])'
  <2>1. PICK k : k = node[p].key[s]
    OBVIOUS
  <2>2. k \in Nat
    <3>1. node[p].key \in [Slots -> Nat] /\ node[p].nkey \in 0 .. N - 1
      BY NodeFields
    <3>2. s \in Slots
      BY <3>1, Halves
    <3> QED BY <2>1, <3>1, <3>2
  <2>3. low[p] < k /\ AtMost(low, lev, p, k) /\ Inserted(k)
    BY <1>1, <2>1 DEF LeafKeys
  <2>4. DOMAIN low = DOMAIN node /\ k \in Int /\ p \in DOMAIN low \ {x}
    BY <2>2 DEF Bounds
  <2>5. low2[p] < k /\ AtMost(low2, lev2, p, k)
    BY <2>3, <2>4 DEF Refines
  <2>6. Inserted(k)'
    BY <2>3, InsertedKept
  <2> QED BY <2>1, <2>5, <2>6
<1> QED BY <1>1, <1>2 DEF LeafKeys

\* The right half of t is not one that was there before.
Carries(t) ==
    InTransit(t)' => (InTransit(t) /\ rc'[t] = rc[t]) \/ rc'[t] \notin DOMAIN node

LEMMA SeparatorsKept ==
    ASSUME NEW low, NEW lev, Bounds(low, lev, DOMAIN node), NEW low2, NEW lev2, NEW x,
           Refines(low, lev, low2, lev2, x), NEW p \in DOMAIN node, p # x,
           NEW t, Alone(t), Carries(t), NEW f, NEW g, NEW n, Separators(low, lev, p, f, g, n)
    PROVE  Separators(low2, lev2, p, f, g, n)'
<1>1. DOMAIN low = DOMAIN node /\ p \in DOMAIN low \ {x}
  BY DEF Bounds
<1>2. \A q \in DOMAIN low : low2[q] = low[q] /\ lev2[q] = lev[q]
  BY DEF Refines
<1>3. \A s \in 0 .. n : g[s] \in DOMAIN low
  BY DEF Separators, Under
<1>4. n \in Nat /\ n \in 0 .. N - 1 /\ f \in [Slots -> Nat]
  <2>1. n \in 0 .. N - 1 /\ f \in [Slots -> Nat]
    BY DEF Separators
  <2> QED BY <2>1, Halves
<1>5. ASSUME NEW s \in 0 .. n - 1
      PROVE  low2[p] < f[s] /\ Below(low2, lev2, p, f[s]) /\ low2[g[s + 1]] = f[s]
  <2>1. s \in Slots /\ s + 1 \in 0 .. n
    BY <1>4, Halves
  <2>2. f[s] \in Int /\ g[s + 1] \in DOMAIN low
    BY <1>3, <1>4, <2>1
  <2>3. low[p] < f[s] /\ Below(low, lev, p, f[s]) /\ low[g[s + 1]] = f[s]
    BY DEF Separators
  <2> QED BY <1>1, <1>2, <2>2, <2>3 DEF Refines
<1>6. low2[g[0]] = low2[p]
  <2>1. 0 \in 0 .. n
    BY <1>4
  <2>2. low[g[0]] = low[p] /\ g[0] \in DOMAIN low
    BY <1>3, <2>1 DEF Separators
  <2> QED BY <1>1, <1>2, <2>2
<1>7. \A s \in 0 .. n : Under(low2, lev2, p, g[s])
  BY <1>1, RefinesPointers DEF Separators
<1>8. ASSUME NEW u \in Threads, InTransit(u)', NEW s \in 0 .. n PROVE g[s] # rc'[u]
  <2>1. CASE u = t
    BY <1>1, <1>3, <1>8, <2>1 DEF Separators, Carries
  <2>2. CASE u # t
    <3>1. InTransit(u) /\ rc'[u] = rc[u]
      BY <1>8, <2>2, OthersSame DEF InTransit
    <3> QED BY <3>1 DEF Separators
  <2> QED BY <2>1, <2>2
<1>9. \A a, b \in 0 .. n - 1 : a < b => f[a] < f[b]
  BY DEF Separators
<1> QED BY <1>4, <1>5, <1>6, <1>7, <1>8, <1>9 DEF Separators

LEMMA LargerKept ==
    ASSUME TypeOK, NEW low, NEW lev, Bounds(low, lev, DOMAIN node), NEW low2, NEW lev2, NEW x,
           Refines(low, lev, low2, lev2, x), NEW p \in DOMAIN node,
           NEW f, NEW n, Larger(low, lev, p, f, n), node'[p].key = node[p].key
    PROVE  Larger(low2, lev2, p, f, n)'
<1>1. DOMAIN low = DOMAIN node
  BY DEF Bounds
<1>2. ASSUME NEW k, ~Below(low, lev, p, k) PROVE ~Below(low2, lev2, p, k)
  <2>1. PICK q \in DOMAIN low : Right(low, lev, p, q) /\ ~(k < low[q])
    BY <1>2 DEF Below
  <2>2. q \in DOMAIN low2 /\ low2[q] = low[q]
    BY <2>1 DEF Refines
  <2>3. Right(low2, lev2, p, q)
    BY <1>1, <2>1, RefinesPointers
  <2> QED BY <2>1, <2>2, <2>3 DEF Below
<1> QED BY <1>2 DEF Larger

LEMMA ReachesKept ==
    ASSUME NEW t, Alone(t), NEW p, NEW f, NEW g, NEW n, Reaches(p, f, g, n),
           node'[p].key = node[p].key, node'[p].chi = node[p].chi, node'[p].nkey = node[p].nkey,
           \A j \in DOMAIN stores'[t] :
               stores'[t][j].to = p => stores'[t][j].field \notin {"key", "chi", "nkey"}
    PROVE  Reaches(p, f, g, n)'
<1>1. ASSUME NEW u \in Threads, NEW st, Has(stores[u], st) PROVE Has(stores'[u], st)
  <2>1. u # t
    BY <1>1 DEF Has, Alone
  <2> QED BY <1>1, <2>1, OthersSame
<1>2. (\A s \in 0 .. n - 1 :
          \/ node[p].key[s] = f[s]
          \/ \E u \in Threads : Has(stores[u], PutAt(p, "key", s, f[s])))'
  <2>1. ASSUME NEW s \in 0 .. n - 1, node[p].key[s] # f[s]
        PROVE  \E u \in Threads : Has(stores'[u], PutAt(p, "key", s, f[s]))
    <3>1. PICK u \in Threads : Has(stores[u], PutAt(p, "key", s, f[s]))
      BY <2>1 DEF Reaches
    <3> QED BY <1>1, <3>1
  <2> QED BY <2>1 DEF PutAt, Has
<1>3. (\A s \in 0 .. n :
          \/ node[p].chi[s] = g[s]
          \/ \E u \in Threads : Has(stores[u], PutAt(p, "chi", s, g[s])))'
  <2>1. ASSUME NEW s \in 0 .. n, node[p].chi[s] # g[s]
        PROVE  \E u \in Threads : Has(stores'[u], PutAt(p, "chi", s, g[s]))
    <3>1. PICK u \in Threads : Has(stores[u], PutAt(p, "chi", s, g[s]))
      BY <2>1 DEF Reaches
    <3> QED BY <1>1, <3>1
  <2> QED BY <2>1 DEF PutAt, Has
<1>4. (\/ node[p].nkey = n
       \/ \E u \in Threads : Has(stores[u], Put(p, "nkey", n)))'
  BY <1>1 DEF Reaches, Put, Has
<1>5. ASSUME NEW u \in Threads, NEW j \in DOMAIN stores'[u] PROVE Sets(p, f, g, n, stores[u], j)'
  <2>1. CASE u = t
    BY <2>1, <1>5 DEF Sets
  <2>2. CASE u # t
    <3>1. Sets(p, f, g, n, stores[u], j) /\ stores'[u] = stores[u]
      BY <1>5, <2>2, OthersSame DEF Reaches
    <3> QED BY <3>1 DEF Sets
  <2> QED BY <2>1, <2>2
<1> QED BY <1>2, <1>3, <1>4, <1>5 DEF Reaches

LEMMA SeparatedKept ==
    ASSUME TypeOK, NEW low, NEW lev, Bounds(low, lev, DOMAIN node), NEW low2, NEW lev2, NEW x,
           Refines(low, lev, low2, lev2, x), NEW p \in DOMAIN node, p # x, Separated(low, lev, p),
           NEW t, Alone(t), Carries(t),
           node'[p].key = node[p].key, node'[p].chi = node[p].chi, node'[p].nkey = node[p].nkey,
           \A j \in DOMAIN stores'[t] :
               stores'[t][j].to = p => stores'[t][j].field \notin {"key", "chi", "nkey"}
    PROVE  Separated(low2, lev2, p)'
<1>1. PICK f, g, n : /\ Separators(low, lev, p, f, g, n)
                     /\ Larger(low, lev, p, f, n)
                     /\ Reaches(p, f, g, n)
  BY DEF Separated
<1>2. Separators(low2, lev2, p, f, g, n)'
  BY <1>1, SeparatorsKept
<1>3. Larger(low2, lev2, p, f, n)'
  BY <1>1, LargerKept
<1>4. Reaches(p, f, g, n)'
  BY <1>1, ReachesKept
<1> QED BY <1>2, <1>3, <1>4 DEF Separated

LEMMA ReadableKept ==
    ASSUME TypeOK, NEW low, NEW lev, Bounds(low, lev, DOMAIN node), NEW low2, NEW lev2, NEW x,
           Refines(low, lev, low2, lev2, x), NEW p \in DOMAIN node, Readable(low, lev, p),
           node'[p].key = node[p].key, node'[p].chi = node[p].chi, node'[p].nkey = node[p].nkey
    PROVE  Readable(low2, lev2, p)'
<1>1. DOMAIN low = DOMAIN node /\ \A q \in DOMAIN node : low2[q] = low[q]
  BY DEF Bounds, Refines
<1>2. \A s \in ChiSlots : node[p].chi[s] # NULL => node[p].chi[s] \in DOMAIN node
  BY NodeFields, Addresses
<1>3. 0 \in ChiSlots /\ \A s \in Slots : s + 1 \in ChiSlots
  BY Halves
<1>4. node[p].chi[0] # NULL /\ low2[node[p].chi[0]] = low2[p]
  BY <1>1, <1>2, <1>3 DEF Readable
<1>5. ASSUME NEW s \in Slots, node[p].key[s] # 0
      PROVE  node[p].chi[s + 1] # NULL /\ low2[node[p].chi[s + 1]] <= node[p].key[s]
  <2>1. node[p].chi[s + 1] # NULL /\ low[node[p].chi[s + 1]] <= node[p].key[s]
    BY <1>5 DEF Readable
  <2> QED BY <1>1, <1>2, <1>3, <2>1
<1>6. \A s \in 0 .. node[p].nkey - 1 : node[p].key[s] # 0
  BY DEF Readable
<1> QED BY <1>4, <1>5, <1>6 DEF Readable

\* The keys of an internal node only fall.
KeysFall ==
    \A p \in DOMAIN node : ~node[p].isLeaf =>
        \A s \in Slots : node[p].key[s] # 0 => node'[p].key[s] \in 1 .. node[p].key[s]

LEMMA SameKeysFall ==
    ASSUME TypeOK, \A p \in DOMAIN node : ~node[p].isLeaf => node'[p].key = node[p].key
    PROVE  KeysFall
<1>1. ASSUME NEW p \in DOMAIN node, ~node[p].isLeaf, NEW s \in Slots, node[p].key[s] # 0
      PROVE  node'[p].key[s] \in 1 .. node[p].key[s]
  <2>1. node[p].key[s] \in Nat /\ node'[p].key[s] = node[p].key[s]
    BY <1>1, NodeFields
  <2> QED BY <1>1, <2>1
<1> QED BY <1>1 DEF KeysFall

LEMMA WayKept ==
    ASSUME TreeInv, NEW low, NEW lev, Bounds(low, lev, DOMAIN node), NEW low2, NEW lev2, NEW x,
           Refines(low, lev, low2, lev2, x), NEW t, Alone(t), NEW u \in Threads \ {t},
           Way(low, lev, u), KeysFall, InTransit(u) => Half(u) # x
    PROVE  Way(low2, lev2, u)'
<1> USE OthersSame
<1>0. DOMAIN low = DOMAIN node /\ \A q \in DOMAIN node : low2[q] = low[q]
  BY DEF Bounds, Refines
<1>1. PlaceInv(u) /\ TypeOK
  BY DEF TreeInv
<1>2. (pc[u] \in {"descend", "scan", "child", "leaf"} => low2[cur[u]] < Key(u))'
  <2>1. pc[u] \in {"descend", "scan", "child", "leaf"} => cur[u] \in DOMAIN node
    BY <1>1 DEF PlaceInv, Internal, Leaf
  <2> QED BY <1>0, <2>1 DEF Way
<1>3. pc[u] \in {"scan", "child"} =>
          /\ cur[u] \in DOMAIN node /\ ~node[cur[u]].isLeaf
          /\ kid[u] <= nkey[u] /\ kid[u] \in Nat /\ nkey[u] \in Nat /\ nkey[u] <= N - 1
          /\ \A s \in Slots : node[cur[u]].key[s] \in Nat
          /\ Key(u) \in Nat
  <2>1. ASSUME pc[u] \in {"scan", "child"}
        PROVE  /\ cur[u] \in DOMAIN node /\ ~node[cur[u]].isLeaf /\ kid[u] <= nkey[u]
    BY <1>1, <2>1 DEF PlaceInv, Internal
  <2>2. kid[u] \in 0 .. N - 1 /\ nkey[u] \in 0 .. N - 1
    BY <1>1 DEF TypeOK
  <2>3. kid[u] \in Nat /\ nkey[u] \in Nat /\ nkey[u] <= N - 1
    BY <2>2, Halves
  <2>4. ASSUME pc[u] \in {"scan", "child"} PROVE \A s \in Slots : node[cur[u]].key[s] \in Nat
    BY <1>1, <2>1, <2>4, NodeFields
  <2>5. pc[u] \in {"scan", "child"} => Key(u) \in Nat
    BY <1>1, InsertsAKey
  <2> QED BY <2>1, <2>3, <2>4, <2>5
<1>4. (pc[u] \in {"scan", "child"} =>
          \A s \in 0 .. kid[u] - 1 :
              node[cur[u]].key[s] # 0 /\ node[cur[u]].key[s] < Key(u))'
  <2>1. ASSUME pc[u] \in {"scan", "child"}, NEW s \in 0 .. kid[u] - 1
        PROVE  node'[cur[u]].key[s] # 0 /\ node'[cur[u]].key[s] < Key(u)
    <3>1. s \in Slots /\ cur[u] \in DOMAIN node /\ ~node[cur[u]].isLeaf
      BY <1>3, <2>1, Halves
    <3>2. node[cur[u]].key[s] # 0 /\ node[cur[u]].key[s] < Key(u)
      BY <2>1 DEF Way
    <3>3. node'[cur[u]].key[s] \in 1 .. node[cur[u]].key[s]
      BY <3>1, <3>2 DEF KeysFall
    <3> QED BY <1>3, <2>1, <3>1, <3>2, <3>3
  <2> QED BY <2>1
<1>5. (pc[u] = "scan" => \A s \in 0 .. nkey[u] - 1 : node[cur[u]].key[s] # 0)'
  <2>1. ASSUME pc[u] = "scan", NEW s \in 0 .. nkey[u] - 1
        PROVE  node'[cur[u]].key[s] # 0
    <3>1. s \in Slots /\ cur[u] \in DOMAIN node /\ ~node[cur[u]].isLeaf
      BY <1>3, <2>1, Halves
    <3>2. node[cur[u]].key[s] # 0
      BY <2>1 DEF Way
    <3>3. node'[cur[u]].key[s] \in 1 .. node[cur[u]].key[s]
      BY <3>1, <3>2 DEF KeysFall
    <3> QED BY <1>3, <2>1, <3>1, <3>3
  <2> QED BY <2>1
<1>6. InTransit(u) => lc[u] \in DOMAIN node /\ rc[u] \in DOMAIN node /\ Half(u) \in DOMAIN node
  BY <1>1 DEF InTransit, PlaceInv, Climbing, Half, Internal
<1>7. (InTransit(u) => IsNext(low2, lev2, Half(u), rc[u]))'
  BY <1>0, <1>6 DEF Way, Refines, InTransit, Half
<1>8. (pc[u] \in {"up", "lockparent", "parent"} => lm_key[u] = low2[rc[u]])'
  BY <1>0, <1>6 DEF Way, InTransit
<1>9. (pc[u] \in {"lockparent", "parent"} /\ cur[u] # NULL => Under(low2, lev2, cur[u], lc[u]))'
  <2>1. ASSUME pc[u] \in {"lockparent", "parent"}, cur[u] # NULL PROVE Under(low2, lev2, cur[u], lc[u])
    <3>1. Under(low, lev, cur[u], lc[u])
      BY <2>1 DEF Way
    <3>2. cur[u] \in DOMAIN low
      BY <3>1 DEF Under
    <3> QED BY <3>1, <3>2, RefinesPointers
  <2> QED BY <2>1
<1> QED BY <1>2, <1>4, <1>5, <1>7, <1>8, <1>9 DEF Way

LEMMA UnlinkedKept ==
    ASSUME TreeInv, NEW low, NEW lev, Bounds(low, lev, DOMAIN node), NEW low2, NEW lev2, NEW x,
           Refines(low, lev, low2, lev2, x), NEW t, Alone(t), NEW u \in Threads \ {t},
           Unlinked(low, lev, u), Splitting(u) => rc[u] # x /\ node'[rc[u]].chi = node[rc[u]].chi,
           \A p \in DOMAIN node' : Splitting(u) /\ node'[p].parent = rc[u] =>
               \/ p \in DOMAIN node /\ node[p].parent = rc[u]
               \/ Below(low2, lev2, rc[u], low2[p]),
           Splitting(u) /\ pc'[t] \in {"lockparent", "parent"} /\ cur'[t] = rc[u] =>
               Below(low2, lev2, rc[u], low2[lc'[t]])
    PROVE  Unlinked(low2, lev2, u)'
<1>0. /\ DOMAIN low = DOMAIN node /\ \A q \in DOMAIN node : low2[q] = low[q]
      /\ \A q \in DOMAIN node : low[q] \in Int
  BY DEF Bounds, Refines
<1>1. rc'[u] = rc[u] /\ (Splitting(u)' <=> Splitting(u))
  BY OthersSame DEF Splitting
<1>2. SUFFICES ASSUME Splitting(u)
               PROVE  /\ \A s \in ChiSlots : node'[rc[u]].chi[s] # NULL =>
                            Below(low2, lev2, rc[u], low2[node'[rc[u]].chi[s]])
                      /\ \A p \in DOMAIN node' : node'[p].parent = rc[u] => Below(low2, lev2, rc[u], low2[p])
                      /\ \A v \in Threads : pc'[v] \in {"lockparent", "parent"} /\ cur'[v] = rc[u] =>
                            Below(low2, lev2, rc[u], low2[lc'[v]])
  BY <1>1 DEF Unlinked
<1>3. rc[u] \in DOMAIN node /\ rc[u] # x /\ TypeOK
  BY <1>2 DEF TreeInv, PlaceInv, Internal, Splitting
<1>4. ASSUME NEW q \in DOMAIN node, Below(low, lev, rc[u], low[q]) PROVE Below(low2, lev2, rc[u], low2[q])
  BY <1>0, <1>3, <1>4 DEF Refines
<1>5. \A s \in ChiSlots : node'[rc[u]].chi[s] # NULL => Below(low2, lev2, rc[u], low2[node'[rc[u]].chi[s]])
  <2>1. \A s \in ChiSlots : node[rc[u]].chi[s] # NULL => node[rc[u]].chi[s] \in DOMAIN node
    BY <1>3, NodeFields, Addresses
  <2> QED BY <1>2, <1>4, <2>1 DEF Unlinked
<1>6. \A p \in DOMAIN node' : node'[p].parent = rc[u] => Below(low2, lev2, rc[u], low2[p])
  BY <1>2, <1>4 DEF Unlinked
<1>7. ASSUME NEW v \in Threads, pc'[v] \in {"lockparent", "parent"}, cur'[v] = rc[u]
      PROVE  Below(low2, lev2, rc[u], low2[lc'[v]])
  <2>1. CASE v = t
    BY <1>2, <1>7, <2>1
  <2>2. CASE v # t
    <3>1. pc'[v] = pc[v] /\ cur'[v] = cur[v] /\ lc'[v] = lc[v]
      BY <2>2, OthersSame
    <3>2. lc[v] \in DOMAIN node
      BY <1>7, <3>1 DEF TreeInv, PlaceInv, Climbing
    <3>3. Below(low, lev, rc[u], low[lc[v]])
      BY <1>2, <1>7, <3>1 DEF Unlinked
    <3> QED BY <1>4, <3>1, <3>2, <3>3
  <2> QED BY <2>1, <2>2
<1> QED BY <1>5, <1>6, <1>7

LEMMA NodeRangeKept ==
    ASSUME TypeOK, NEW low, NEW lev, Bounds(low, lev, DOMAIN node), NEW low2, NEW lev2, NEW x,
           Refines(low, lev, low2, lev2, x), NEW p \in DOMAIN node, p # x, NodeRange(low, lev, p),
           NEW t, Alone(t), Proceeds(t), Carries(t),
           node'[p].isLeaf <=> node[p].isLeaf, node'[p].key = node[p].key,
           node'[p].chi = node[p].chi, node'[p].nkey = node[p].nkey,
           node'[p].right_link = node[p].right_link, node'[p].high_key = node[p].high_key,
           node'[p].parent = node[p].parent \/ Under(low2, lev2, node'[p].parent, p),
           \A j \in DOMAIN stores'[t] :
               stores'[t][j].to = p => stores'[t][j].field \notin {"key", "chi", "nkey"}
    PROVE  NodeRange(low2, lev2, p)'
<1>1. Pointing(low2, lev2, p)'
  BY PointingKept DEF NodeRange
<1>2. Linked(low2, lev2, p)'
  BY LinkedKept DEF NodeRange
<1>3. LeafKeys(low2, lev2, p)'
  BY LeafKeysKept DEF NodeRange
<1>4. ASSUME ~node[p].isLeaf PROVE Separated(low2, lev2, p)' /\ Readable(low2, lev2, p)'
  <2>1. Separated(low, lev, p) /\ Readable(low, lev, p)
    BY <1>4 DEF NodeRange
  <2> QED BY <2>1, SeparatedKept, ReadableKept
<1> QED BY <1>1, <1>2, <1>3, <1>4 DEF NodeRange

LEMMA ApartKept ==
    ASSUME TreeInv, Apart, NEW t, Alone(t), Carries(t),
           pc'[t] = "split" =>
               /\ rc'[t] \notin DOMAIN node /\ cur'[t] \in DOMAIN node
               /\ \A u \in Threads \ {t} : Splitting(u) => rc[u] # cur'[t]
    PROVE  Apart'
<1>1. ASSUME NEW u \in Threads
      PROVE  /\ InTransit(u) => rc[u] \in DOMAIN node
             /\ Splitting(u) => InTransit(u) /\ rc[u] \in DOMAIN node
             /\ pc[u] = "split" => cur[u] \in DOMAIN node
  BY DEF TreeInv, PlaceInv, InTransit, Climbing, Splitting, Internal
<1>2. ASSUME NEW u \in Threads \ {t}
      PROVE  /\ InTransit(u)' <=> InTransit(u)
             /\ Splitting(u)' <=> Splitting(u)
             /\ rc'[u] = rc[u] /\ cur'[u] = cur[u] /\ pc'[u] = pc[u]
  BY OthersSame DEF InTransit, Splitting
<1>3. ASSUME NEW u \in Threads \ {t}, InTransit(t)', InTransit(u)'
      PROVE  rc'[t] # rc'[u]
  <2>1. CASE InTransit(t) /\ rc'[t] = rc[t]
    BY <1>2, <1>3, <2>1 DEF Apart, Alone
  <2>2. CASE rc'[t] \notin DOMAIN node
    BY <1>1, <1>2, <1>3, <2>2
  <2> QED BY <1>3, <2>1, <2>2 DEF Carries
<1>4. ASSUME NEW u \in Threads \ {t}
      PROVE  /\ pc'[t] = "split" /\ Splitting(u)' => cur'[t] # rc'[u]
             /\ pc'[u] = "split" /\ Splitting(t)' => cur'[u] # rc'[t]
  BY <1>1, <1>2 DEF Splitting
<1>5. ASSUME NEW u \in Threads \ {t}, NEW v \in Threads \ {t}, u # v
      PROVE  /\ InTransit(u)' /\ InTransit(v)' => rc'[u] # rc'[v]
             /\ pc'[u] = "split" /\ Splitting(v)' => cur'[u] # rc'[v]
  BY <1>2, <1>5 DEF Apart
<1>6. ASSUME NEW u \in Threads, NEW v \in Threads, u # v
      PROVE  /\ InTransit(u)' /\ InTransit(v)' => rc'[u] # rc'[v]
             /\ pc'[u] = "split" /\ Splitting(v)' => cur'[u] # rc'[v]
  <2>1. CASE u = t
    BY <1>3, <1>4, <1>6, <2>1
  <2>2. CASE v = t
    BY <1>3, <1>4, <1>6, <2>2
  <2>3. CASE u # t /\ v # t
    BY <1>5, <1>6, <2>3
  <2> QED BY <2>1, <2>2, <2>3
<1> QED BY <1>6 DEF Apart

LEMMA PlacedKept ==
    ASSUME NEW low, NEW lev, Placed(low, lev), UNCHANGED <<node, Root>>, NEW t, Alone(t),
           pc[t] # "publish"
    PROVE  Placed(low, lev)'
<1>1. NewRoot' = NewRoot
  BY DEF NewRoot
<1>2. ASSUME NEW u \in Threads, pc[u] = "publish" PROVE pc'[u] = "publish"
  <2>1. u # t
    BY <1>2
  <2> QED BY <1>2, <2>1, OthersSame
<1>3. (\A p \in DOMAIN node :
          lev[p] <= lev[Root] \/ \E u \in Threads : pc[u] = "publish" /\ p = NewRoot)'
  BY <1>1, <1>2 DEF Placed
<1> QED BY <1>3 DEF Placed

\* A step of t that changes no node and stores nothing.
LEMMA CalmRanges ==
    ASSUME TreeInv, NEW low, NEW lev, Ranges(low, lev), NEW t, Alone(t),
           UNCHANGED <<node, stores>>, Proceeds(t), Carries(t), Placed(low, lev)',
           Way(low, lev, t)', pc'[t] # "split",
           \A u \in Threads \ {t} :
               Splitting(u) /\ pc'[t] \in {"lockparent", "parent"} /\ cur'[t] = rc[u] =>
                   Below(low, lev, rc[u], low[lc'[t]])
    PROVE  Ranges(low, lev)'
<1>1. Bounds(low, lev, DOMAIN node) /\ Refines(low, lev, low, lev, NULL)
  BY RefinesSame DEF Ranges, Placed
<1>2. /\ TypeOK /\ NULL \notin DOMAIN node
      /\ \A u \in Threads : PlaceInv(u) /\ StoreInv(u)
      /\ t \in Threads /\ stores[t] = <<>> /\ stores'[t] = <<>>
  BY Addresses DEF TreeInv, Alone
<1>3. ASSUME NEW p \in DOMAIN node' PROVE NodeRange(low, lev, p)'
  <2>1. p \in DOMAIN node /\ p # NULL /\ NodeRange(low, lev, p)
    BY <1>2 DEF Ranges
  <2>2. \A j \in DOMAIN stores'[t] :
            stores'[t][j].to = p => stores'[t][j].field \notin {"key", "chi", "nkey"}
    BY <1>2
  <2> QED BY <1>1, <1>2, <2>1, <2>2, NodeRangeKept
<1>4. ASSUME NEW u \in Threads \ {t} PROVE ThreadRange(low, lev, u)'
  <2>1. Linking(low, lev, u) /\ Way(low, lev, u) /\ Unlinked(low, lev, u)
    BY DEF Ranges, ThreadRange
  <2>2. \A j \in DOMAIN stores[u] : stores[u][j].to # NULL
    BY <1>2, StoresGo
  <2>3. Linking(low, lev, u)'
    BY <1>1, <1>2, <2>1, <2>2, LinkingKept
  <2>4. KeysFall
    BY <1>2, SameKeysFall
  <2>5. InTransit(u) => Half(u) # NULL
    BY <1>2 DEF InTransit, Half, PlaceInv, Internal, Climbing
  <2>6. Way(low, lev, u)'
    BY <1>1, <2>1, <2>4, <2>5, WayKept
  <2>7. Splitting(u) => rc[u] # NULL /\ node'[rc[u]].chi = node[rc[u]].chi
    BY <1>2 DEF Splitting, PlaceInv, Internal
  <2>8. Unlinked(low, lev, u)'
    <3>1. Splitting(u) /\ pc'[t] \in {"lockparent", "parent"} /\ cur'[t] = rc[u] =>
               Below(low, lev, rc[u], low[lc'[t]])
      OBVIOUS
    <3>2. \A p \in DOMAIN node' : Splitting(u) /\ node'[p].parent = rc[u] =>
               p \in DOMAIN node /\ node[p].parent = rc[u]
      OBVIOUS
    <3> QED BY <1>1, <2>1, <2>7, <3>1, <3>2, UnlinkedKept
  <2> QED BY <2>3, <2>6, <2>8 DEF ThreadRange
<1>5. ThreadRange(low, lev, t)'
  <2>1. Linking(low, lev, t)'
    BY <1>2 DEF Linking
  <2>2. Unlinked(low, lev, t)'
    BY <1>2 DEF Unlinked, Splitting
  <2> QED BY <2>1, <2>2 DEF ThreadRange
<1>6. Apart'
  BY ApartKept DEF Ranges
<1> QED BY <1>3, <1>4, <1>5, <1>6 DEF Ranges

-----------------------------------------------------------------------------
(* The keys of the threads *)

\* Two threads have no key in common.
LEMMA KeysDiffer ==
    ASSUME TypeOK, NEW t \in Threads, NEW u \in Threads, NEW j \in 1 .. range, NEW m \in 1 .. range
    PROVE  /\ KeyOf(t, j) \in Nat /\ KeyOf(t, j) > 0
           /\ KeyOf(t, j) = KeyOf(u, m) => t = u /\ j = m
<1>1. PICK kv : kv = Key_vector /\ kv \in KeyVectors
  BY DEF TypeOK
<1>2. /\ kv \in Seq(Nat \ {0})
      /\ \A a, b \in DOMAIN kv : kv[a] = kv[b] => a = b
  BY <1>1, ConstantsAssumption, DistinctKeys
<1>3. DOMAIN kv = 1 .. Len(kv) /\ \A a \in 1 .. Len(kv) : kv[a] \in Nat /\ kv[a] > 0
  BY <1>2
<1>4. range * t + j \in 1 .. Len(kv) /\ range * u + m \in 1 .. Len(kv)
  BY <1>1, KeyType
<1>5. PICK r \in Nat : r = range
  BY RangeType
<1>6. t \in Nat /\ u \in Nat
  BY Halves
<1>7. ASSUME NEW a \in Nat, NEW b \in Nat, a < b PROVE r * a + r <= r * b
  <2>1. PICK d \in Nat : b = a + 1 + d
    <3>1. b - a - 1 \in Nat /\ b = a + 1 + (b - a - 1)
      BY <1>7
    <3> QED BY <3>1
  <2>2. r * b = r * a + r + r * d /\ r * d \in Nat /\ r * a \in Nat
    BY <2>1
  <2> QED BY <2>1, <2>2
<1>8. ASSUME KeyOf(t, j) = KeyOf(u, m) PROVE t = u /\ j = m
  <2>1. r * t + j = r * u + m
    BY <1>1, <1>2, <1>3, <1>4, <1>5, <1>8 DEF KeyOf
  <2>2. j \in 1 .. r /\ m \in 1 .. r /\ r * t \in Nat /\ r * u \in Nat
    BY <1>5, <1>6
  <2>3. ~(t < u)
    <3>1. t < u => r * t + r <= r * u
      BY <1>6, <1>7
    <3> QED BY <2>1, <2>2, <3>1
  <2>4. ~(u < t)
    <3>1. u < t => r * u + r <= r * t
      BY <1>6, <1>7
    <3> QED BY <2>1, <2>2, <3>1
  <2>5. t = u
    BY <1>6, <2>3, <2>4
  <2> QED BY <2>1, <2>2, <2>5
<1>9. KeyOf(t, j) \in Nat /\ KeyOf(t, j) > 0
  BY <1>1, <1>3, <1>4 DEF KeyOf
<1> QED BY <1>8, <1>9

-----------------------------------------------------------------------------
(* The way down *)

LEMMA RangesGive ==
    ASSUME TreeInv, NEW low, NEW lev, Ranges(low, lev)
    PROVE  /\ Bounds(low, lev, DOMAIN node)
           /\ low \in [DOMAIN node -> Nat] /\ lev \in [DOMAIN node -> Nat]
           /\ DOMAIN low = DOMAIN node /\ NULL \notin DOMAIN node
           /\ \A u \in Threads : PlaceInv(u) /\ StoreInv(u) /\ ThreadRange(low, lev, u)
           /\ \A p \in DOMAIN node : NodeRange(low, lev, p)
           /\ TypeOK
  BY DEF Ranges, Placed, Bounds, TreeInv

LEMMA ReadRootRanges ==
    ASSUME TreeInv, NEW low, NEW lev, Ranges(low, lev), NEW t \in Threads, ReadRoot(t)
    PROVE  Ranges(low, lev)'
<1>1. Alone(t) /\ UNCHANGED <<node, Root, stores>> /\ pc[t] = "insert" /\ i[t] <= range
  BY DEF TreeInv, TypeOK, ReadRoot, At, Goto, Alone, Locals
<1>2. pc'[t] = "descend" /\ cur'[t] = Root /\ i'[t] = i[t]
  BY DEF TreeInv, TypeOK, ReadRoot, Goto
<1>3. Proceeds(t) /\ Carries(t)
  BY <1>1, <1>2 DEF Proceeds, Carries, InTransit, Climbing
<1>4. Placed(low, lev)'
  BY <1>1, PlacedKept DEF Ranges
<1>5. Way(low, lev, t)'
  <2>1. i[t] \in 1 .. range
    <3>1. i[t] \in 1 .. range + 1 /\ range \in Nat
      BY RangeType DEF TreeInv, TypeOK
    <3> QED BY <1>1, <3>1
  <2>2. Key(t)' = Key(t) /\ Key(t) > 0
    <3>1. Key(t) > 0
      BY <2>1, KeysDiffer DEF Key, TreeInv
    <3>2. Key(t)' = Key(t)
      BY <1>1, <1>2 DEF Alone, Key, KeyOf, range
    <3> QED BY <3>1, <3>2
  <2>3. low[Root] = 0
    BY DEF Ranges, Placed
  <2> QED BY <1>2, <2>2, <2>3 DEF Way, InTransit
<1> QED BY <1>1, <1>2, <1>3, <1>4, <1>5, CalmRanges

\* Where t goes on with the same key and the same node.
SameNode(t) ==
    /\ i'[t] = i[t] /\ cur'[t] = cur[t] /\ lc'[t] = lc[t] /\ rc'[t] = rc[t]
    /\ lm_key'[t] = lm_key[t]

LEMMA ReadNkeyRanges ==
    ASSUME TreeInv, NEW low, NEW lev, Ranges(low, lev), NEW t \in Threads, ReadNkey(t)
    PROVE  Ranges(low, lev)'
<1>1. /\ Alone(t) /\ UNCHANGED <<node, Root, stores>> /\ pc[t] = "descend"
      /\ ~node[cur[t]].isLeaf
  BY DEF TreeInv, TypeOK, ReadNkey, At, Goto, Alone, Locals
<1>2. SameNode(t) /\ pc'[t] = "scan" /\ kid'[t] = 0 /\ nkey'[t] = node[cur[t]].nkey
  BY DEF TreeInv, TypeOK, ReadNkey, Goto, SameNode
<1>3. Proceeds(t) /\ Carries(t)
  BY <1>1, <1>2 DEF Proceeds, Carries, InTransit, Climbing, SameNode
<1>4. Placed(low, lev)'
  BY <1>1, PlacedKept DEF Ranges
<1>5. Key(t)' = Key(t)
  BY <1>1, <1>2 DEF Alone, Key, KeyOf, range, SameNode
<1>6. Way(low, lev, t)'
  <2>1. cur[t] \in DOMAIN node /\ NodeRange(low, lev, cur[t]) /\ Way(low, lev, t)
    BY <1>1, RangesGive DEF PlaceInv, ThreadRange
  <2>2. low[cur[t]] < Key(t)
    BY <1>1, <2>1 DEF Way
  <2>3. \A s \in 0 .. node[cur[t]].nkey - 1 : node[cur[t]].key[s] # 0
    BY <1>1, <2>1 DEF NodeRange, Readable
  <2> QED BY <1>1, <1>2, <1>5, <2>2, <2>3 DEF Way, InTransit, SameNode
<1> QED BY <1>1, <1>2, <1>3, <1>4, <1>6, CalmRanges

LEMMA ReadKeyRanges ==
    ASSUME TreeInv, NEW low, NEW lev, Ranges(low, lev), NEW t \in Threads, ReadKey(t)
    PROVE  Ranges(low, lev)'
<1>1. Alone(t) /\ UNCHANGED <<node, Root, stores>> /\ pc[t] = "scan" /\ kid[t] < nkey[t]
  BY DEF TreeInv, TypeOK, ReadKey, At, Goto, Alone, Locals
<1>2. /\ SameNode(t) /\ nkey'[t] = nkey[t]
      /\ \/ pc'[t] = "child" /\ kid'[t] = kid[t]
         \/ /\ pc'[t] = "scan" /\ kid'[t] = kid[t] + 1
            /\ ~(Key(t) <= node[cur[t]].key[kid[t]])
  BY DEF TreeInv, TypeOK, ReadKey, Goto, SameNode, At
<1>3. Proceeds(t) /\ Carries(t)
  BY <1>1, <1>2 DEF Proceeds, Carries, InTransit, Climbing, SameNode
<1>4. Placed(low, lev)'
  BY <1>1, PlacedKept DEF Ranges
<1>5. Key(t)' = Key(t) /\ Key(t) \in Nat
  <2>1. Key(t)' = Key(t)
    BY <1>1, <1>2 DEF Alone, Key, KeyOf, range, SameNode
  <2> QED BY <1>1, <2>1, RangesGive, InsertsAKey
<1>6. Way(low, lev, t)'
  <2>1. PlaceInv(t) /\ Way(low, lev, t) /\ TypeOK
    BY RangesGive DEF ThreadRange
  <2>2. cur[t] \in DOMAIN node /\ kid[t] \in 0 .. N - 1 /\ nkey[t] \in 0 .. N - 1
    BY <1>1, <2>1 DEF PlaceInv, Internal, TypeOK
  <2>3. kid[t] \in Slots /\ kid[t] \in Nat /\ nkey[t] \in Nat
    <3>1. kid[t] < nkey[t]
      BY <1>1
    <3>2. PICK a, b : a = kid[t] /\ b = nkey[t]
      OBVIOUS
    <3>b. a \in 0 .. N - 1 /\ b \in 0 .. N - 1 /\ a < b
      BY <2>2, <3>1, <3>2
    <3>3. a \in Slots /\ a \in Nat /\ b \in Nat
      BY <3>b, Halves
    <3> QED BY <3>2, <3>3
  <2>4. node[cur[t]].key[kid[t]] \in Nat
    BY <2>1, <2>2, <2>3, NodeFields
  <2>5. low[cur[t]] < Key(t)
    BY <1>1, <2>1 DEF Way
  <2>6. \A s \in 0 .. nkey[t] - 1 : node[cur[t]].key[s] # 0
    BY <1>1, <2>1 DEF Way
  <2>7. ASSUME NEW s \in 0 .. kid'[t] - 1
        PROVE  node[cur[t]].key[s] # 0 /\ node[cur[t]].key[s] < Key(t)
    <3>1. CASE s \in 0 .. kid[t] - 1
      BY <1>1, <2>1, <3>1 DEF Way
    <3>2. CASE ~(s \in 0 .. kid[t] - 1)
      <4>1. s = kid[t] /\ ~(Key(t) <= node[cur[t]].key[kid[t]])
        BY <1>2, <2>3, <3>2
      <4>2. s \in 0 .. nkey[t] - 1
        BY <1>1, <2>3, <4>1
      <4> QED BY <1>5, <2>4, <2>6, <4>1, <4>2
    <3> QED BY <3>1, <3>2
  <2> QED BY <1>1, <1>2, <1>5, <2>5, <2>6, <2>7 DEF Way, InTransit, SameNode
<1> QED BY <1>1, <1>2, <1>3, <1>4, <1>6, CalmRanges

LEMMA ReadChildRanges ==
    ASSUME TreeInv, NEW low, NEW lev, Ranges(low, lev), NEW t \in Threads, ReadChild(t)
    PROVE  Ranges(low, lev)'
<1>1. Alone(t) /\ UNCHANGED <<node, Root, stores>> /\ pc[t] \in {"child", "scan"}
  BY DEF TreeInv, TypeOK, ReadChild, At, Goto, Alone, Locals
<1>2. i'[t] = i[t] /\ pc'[t] = "descend" /\ cur'[t] = node[cur[t]].chi[kid[t]]
  BY DEF TreeInv, TypeOK, ReadChild, Goto
<1>3. Proceeds(t) /\ Carries(t)
  BY <1>1, <1>2 DEF Proceeds, Carries, InTransit, Climbing
<1>4. Placed(low, lev)'
  BY <1>1, PlacedKept DEF Ranges
<1>5. Key(t)' = Key(t) /\ Key(t) \in Nat
  <2>1. Key(t)' = Key(t)
    BY <1>1, <1>2 DEF Alone, Key, KeyOf, range
  <2> QED BY <1>1, <2>1, RangesGive, InsertsAKey
<1>6. low[cur'[t]] < Key(t)
  <2>1. PlaceInv(t) /\ Way(low, lev, t) /\ TypeOK
    BY RangesGive DEF ThreadRange
  <2>2. PICK p : p = cur[t] /\ p \in DOMAIN node /\ ~node[p].isLeaf
    BY <1>1, <2>1 DEF PlaceInv, Internal
  <2>3. Readable(low, lev, p)
    BY <2>2, RangesGive DEF NodeRange
  <2>4. kid[t] \in 0 .. N - 1
    BY <2>1 DEF TypeOK
  <2>5. low[p] < Key(t)
    BY <1>1, <2>1, <2>2 DEF Way
  <2>6. CASE kid[t] = 0
    BY <1>2, <2>2, <2>3, <2>5, <2>6 DEF Readable
  <2>7. CASE kid[t] # 0
    <3>0. PICK a : a = kid[t]
      OBVIOUS
    <3>a. a - 1 \in Slots /\ a - 1 \in 0 .. a - 1 /\ (a - 1) + 1 = a /\ a \in ChiSlots
      BY <2>4, <2>7, <3>0, Halves
    <3>1. PICK s : s \in Slots /\ s \in 0 .. kid[t] - 1 /\ s + 1 = kid[t] /\ s + 1 \in ChiSlots
      BY <3>0, <3>a
    <3>2. node[p].key[s] # 0 /\ node[p].key[s] < Key(t)
      BY <1>1, <2>1, <2>2, <3>1 DEF Way
    <3>3. node[p].chi[s + 1] # NULL /\ low[node[p].chi[s + 1]] <= node[p].key[s]
      BY <2>3, <3>1, <3>2 DEF Readable
    <3>4. node[p].chi[s + 1] \in DOMAIN node /\ node[p].key[s] \in Nat
      BY <2>1, <2>2, <3>1, <3>3, NodeFields, Addresses
    <3>5. low[node[p].chi[s + 1]] \in Nat
      BY <3>4, RangesGive
    <3> QED BY <1>2, <1>5, <2>2, <3>1, <3>2, <3>3, <3>4, <3>5
  <2> QED BY <2>6, <2>7
<1>7. Way(low, lev, t)'
  BY <1>2, <1>5, <1>6 DEF Way, InTransit
<1> QED BY <1>1, <1>2, <1>3, <1>4, <1>7, CalmRanges

LEMMA LockLeafRanges ==
    ASSUME TreeInv, NEW low, NEW lev, Ranges(low, lev), NEW t \in Threads, LockLeaf(t)
    PROVE  Ranges(low, lev)'
<1>1. Alone(t) /\ UNCHANGED <<node, Root, stores>> /\ pc[t] = "descend"
  BY DEF TreeInv, TypeOK, LockLeaf, At, Goto, Alone, Locals
<1>2. SameNode(t) /\ pc'[t] = "leaf"
  BY DEF TreeInv, TypeOK, LockLeaf, Goto, SameNode
<1>3. Proceeds(t) /\ Carries(t)
  BY <1>1, <1>2 DEF Proceeds, Carries, InTransit, Climbing, SameNode
<1>4. Placed(low, lev)'
  BY <1>1, PlacedKept DEF Ranges
<1>5. Key(t)' = Key(t)
  BY <1>1, <1>2 DEF Alone, Key, KeyOf, range, SameNode
<1>6. Way(low, lev, t)'
  <2>1. low[cur[t]] < Key(t)
    BY <1>1, RangesGive DEF ThreadRange, Way
  <2> QED BY <1>2, <1>5, <2>1 DEF Way, InTransit, SameNode
<1> QED BY <1>1, <1>2, <1>3, <1>4, <1>6, CalmRanges

-----------------------------------------------------------------------------
(* The way to the right, and up *)

\* The link of a node that t holds, if it has nothing to store.
LEMMA HeldLinked ==
    ASSUME TreeInv, NEW low, NEW lev, Ranges(low, lev), NEW t \in Threads, stores[t] = <<>>,
           NEW p \in DOMAIN node, Holds(t, p), 
           node[p].right_link # NULL \/ \A u \in Threads \ {t} : Splitting(u) => rc[u] # p
    PROVE  /\ IsNext(low, lev, p, node[p].right_link)
           /\ IsHigh(low, lev, p, node[p].high_key)
<1>1. ASSUME NEW u \in Threads, NEW j \in DOMAIN stores[u],
             stores[u][j].to = p, stores[u][j].field = "right_link"
      PROVE  FALSE
  <2>1. LinkStore(low, lev, u, j)
    BY DEF Ranges, ThreadRange, Linking
  <2>2. pc[u] = "split" /\ GoodStore(u, stores[u][j])
    BY <1>1, <2>1 DEF LinkStore, TreeInv, StoreInv
  <2>3. stores[u] # <<>> /\ u # t
    BY <1>1
  <2>4. CASE p = cur[u]
    <3>1. Holds(u, p)
      BY <2>2, <2>4 DEF Holds
    <3>2. locked[p] = u /\ locked[p] = t
      BY <3>1 DEF TreeInv, LocksAreHeld
    <3> QED BY <2>3, <3>2
  <2>5. CASE p = rc[u]
    BY <1>1, <2>1, <2>2, <2>3, <2>5 DEF LinkStore, Splitting
  <2> QED BY <1>1, <2>2, <2>4, <2>5 DEF GoodStore
<1>2. ASSUME NEW u \in Threads, NEW j \in DOMAIN stores[u],
             stores[u][j].to = p, stores[u][j].field = "high_key"
      PROVE  FALSE
  <2>1. LinkStore(low, lev, u, j)
    BY DEF Ranges, ThreadRange, Linking
  <2>2. PICK m \in DOMAIN stores[u] : stores[u][m].field = "right_link" /\ stores[u][m].to = p
    BY <1>2, <2>1 DEF LinkStore
  <2> QED BY <1>1, <2>2
<1>3. ~Pending(p, "right_link") /\ ~Pending(p, "high_key")
  BY <1>1, <1>2 DEF Pending
<1> QED BY <1>3 DEF Ranges, NodeRange, Linked

LEMMA MoveRightRanges ==
    ASSUME TreeInv, NEW low, NEW lev, Ranges(low, lev), NEW t \in Threads, MoveRight(t)
    PROVE  Ranges(low, lev)'
<1>1. Alone(t) /\ UNCHANGED <<node, Root, stores>> /\ pc[t] \in {"leaf", "parent"}
  BY DEF TreeInv, TypeOK, MoveRight, At, Goto, Alone, Locals
<1>2. PICK p, next : p = cur[t] /\ next = node[p].right_link
  OBVIOUS
<1>3. /\ cur'[t] = next /\ pc'[t] = pc[t] /\ i'[t] = i[t] /\ lc'[t] = lc[t] /\ rc'[t] = rc[t]
      /\ lm_key'[t] = lm_key[t] /\ next # NULL
      /\ pc[t] = "leaf" => node[p].high_key < Key(t)
      /\ pc[t] = "parent" => node[p].high_key < lm_key[t]
  BY <1>2 DEF TreeInv, TypeOK, MoveRight, At, MustGoRight
<1>4. Proceeds(t) /\ Carries(t)
  BY <1>1, <1>3 DEF Proceeds, Carries, InTransit, Climbing
<1>5. Placed(low, lev)'
  BY <1>1, PlacedKept DEF Ranges
<1>6. p \in DOMAIN node /\ Holds(t, p) /\ stores[t] = <<>> /\ next \in DOMAIN node /\ PlaceInv(t)
  <2>1. PlaceInv(t) /\ stores[t] = <<>>
    BY <1>1 DEF Alone, TreeInv
  <2>2. p \in DOMAIN node /\ Holds(t, p)
    BY <1>1, <1>2, <2>1 DEF PlaceInv, Leaf, Internal, Holds
  <2>3. next \in DOMAIN node
    BY <1>2, <1>3, <2>2, NodeFields, Addresses DEF TreeInv
  <2> QED BY <2>1, <2>2, <2>3
<1>7. IsNext(low, lev, p, next) /\ node[p].high_key = low[next] /\ lev[next] = lev[p]
  <2>1. IsNext(low, lev, p, next) /\ IsHigh(low, lev, p, node[p].high_key)
    BY <1>2, <1>3, <1>6, HeldLinked
  <2>2. next \in DOMAIN low
    BY <1>6, RangesGive
  <2> QED BY <1>3, <2>1, <2>2 DEF IsHigh, IsNext, Right
<1>8. Key(t)' = Key(t)
  BY <1>1, <1>3 DEF Alone, Key, KeyOf, range
<1>9. Way(low, lev, t) /\ Way(low, lev, t)'
  <2>0. Way(low, lev, t)
    BY DEF Ranges, ThreadRange
  <2>1. CASE pc[t] = "leaf"
    BY <1>3, <1>7, <1>8, <2>1, <2>0 DEF Way, InTransit
  <2>2. CASE pc[t] = "parent"
    <3>1. /\ IsNext(low, lev, lc[t], rc[t]) /\ lm_key[t] = low[rc[t]]
          /\ Under(low, lev, p, lc[t])
      BY <1>2, <1>6, <2>0, <2>2, Addresses DEF Way, InTransit, Half, TreeInv
    <3>2. PICK c : c = node[next].chi[0]
      OBVIOUS
    <3>3. ~node[next].isLeaf
      BY <1>2, <1>3, <1>6, <2>2 DEF PlaceInv, Internal, TreeInv, NodeInv, NodeOK
    <3>4. c # NULL /\ low[c] = low[next] /\ Under(low, lev, next, c)
      <4>1. Readable(low, lev, next) /\ Pointing(low, lev, next) /\ 0 \in ChiSlots
        BY <1>6, <3>3, RangesGive, Halves DEF NodeRange
      <4> QED BY <3>2, <3>3, <4>1 DEF Readable, Pointing
    <3>5. lc[t] \in DOMAIN node /\ rc[t] \in DOMAIN node /\ c \in DOMAIN node
      BY <1>6, <2>2, <3>4, RangesGive DEF PlaceInv, Climbing, Under
    <3>6. low[next] < low[rc[t]]
      BY <1>3, <1>7, <2>2, <3>1
    <3>7. lev[c] = lev[lc[t]]
      BY <1>6, <1>7, <3>1, <3>4, <3>5, RangesGive DEF Under
    <3>8. ~(low[lc[t]] < low[c])
      <4>1. SUFFICES ASSUME low[lc[t]] < low[c] PROVE FALSE
        OBVIOUS
      <4>2. Right(low, lev, lc[t], c)
        BY <3>5, <3>7, <4>1, RangesGive DEF Right
      <4>3. low[rc[t]] <= low[c]
        BY <3>1, <3>5, <4>2, RangesGive DEF IsNext
      <4> QED BY <1>6, <3>4, <3>5, <3>6, <4>3, RangesGive
    <3>9. Under(low, lev, next, lc[t])
      BY <1>6, <3>4, <3>5, <3>7, <3>8, RangesGive DEF Under
    <3>10. pc'[t] = "parent" /\ Half(t)' = lc[t] /\ cur'[t] = next
      BY <1>3, <2>2 DEF Half
    <3>11. (pc[t] \in {"up", "lockparent", "parent"} => lm_key[t] = low[rc[t]])'
      BY <1>3, <3>1
    <3>12. (InTransit(t) => IsNext(low, lev, Half(t), rc[t]))'
      BY <1>3, <3>1, <3>10
    <3>13. (cur[t] # NULL => Under(low, lev, cur[t], lc[t]))'
      BY <1>3, <3>9
    <3>14. Way(low, lev, t)'
      BY <3>10, <3>11, <3>12, <3>13 DEF Way
    <3> QED BY <2>0, <3>14
  <2> QED BY <1>1, <2>0, <2>1, <2>2
<1>10. ASSUME NEW u \in Threads \ {t}, Splitting(u), next = rc[u] PROVE FALSE
  <2>1. IsNext(low, lev, cur[u], rc[u]) /\ cur[u] \in DOMAIN node
    BY <1>10, RangesGive DEF ThreadRange, Way, Splitting, InTransit, Half, PlaceInv, Internal
  <2>2. p = cur[u]
    BY <1>6, <1>7, <1>10, <2>1, OneNext, RangesGive
  <2>3. Holds(u, p)
    BY <1>10, <2>2 DEF Splitting, Holds
  <2>4. locked[p] = u /\ locked[p] = t
    BY <1>6, <2>3 DEF TreeInv, LocksAreHeld
  <2> QED BY <2>4
<1> QED BY <1>1, <1>3, <1>4, <1>5, <1>9, <1>10, CalmRanges

LEMMA ReadParentRanges ==
    ASSUME TreeInv, NEW low, NEW lev, Ranges(low, lev), NEW t \in Threads, ReadParent(t)
    PROVE  Ranges(low, lev)'
<1>1. Alone(t) /\ UNCHANGED <<node, Root, stores>> /\ pc[t] = "up"
  BY DEF TreeInv, TypeOK, ReadParent, At, Goto, Alone, Locals
<1>2. /\ i'[t] = i[t] /\ lc'[t] = lc[t] /\ rc'[t] = rc[t] /\ lm_key'[t] = lm_key[t]
      /\ pc'[t] = "lockparent" /\ cur'[t] = node[lc[t]].parent
  BY DEF TreeInv, TypeOK, ReadParent, Goto
<1>3. Proceeds(t) /\ Carries(t)
  BY <1>1, <1>2 DEF Proceeds, Carries, InTransit, Climbing
<1>4. Placed(low, lev)'
  BY <1>1, PlacedKept DEF Ranges
<1>5. lc[t] \in DOMAIN node /\ Way(low, lev, t) /\ Pointing(low, lev, lc[t])
  <2>1. lc[t] \in DOMAIN node
    BY <1>1 DEF TreeInv, PlaceInv, Climbing
  <2> QED BY <2>1 DEF Ranges, ThreadRange, NodeRange
<1>6. Way(low, lev, t)'
  <2>1. IsNext(low, lev, lc[t], rc[t]) /\ lm_key[t] = low[rc[t]]
    BY <1>1, <1>5 DEF Way, InTransit, Half
  <2>2. Half(t)' = lc[t]
    BY <1>2 DEF Half
  <2>3. cur'[t] # NULL => Under(low, lev, cur'[t], lc[t])
    BY <1>2, <1>5 DEF Pointing
  <2>4. (InTransit(t) => IsNext(low, lev, Half(t), rc[t]))'
    BY <1>2, <2>1, <2>2
  <2>5. (pc[t] \in {"up", "lockparent", "parent"} => lm_key[t] = low[rc[t]])'
    BY <1>2, <2>1
  <2> QED BY <1>2, <2>3, <2>4, <2>5 DEF Way
<1>7. ASSUME NEW u \in Threads, Splitting(u), cur'[t] = rc[u] PROVE Below(low, lev, rc[u], low[lc'[t]])
  BY <1>2, <1>5, <1>7 DEF Ranges, ThreadRange, Unlinked
<1> QED BY <1>1, <1>2, <1>3, <1>4, <1>6, <1>7, CalmRanges

\* A step that leaves the nodes where t is, on the way to its parent.
LEMMA SamePlaceRanges ==
    ASSUME TreeInv, NEW low, NEW lev, Ranges(low, lev), NEW t, Alone(t), SameNode(t),
           UNCHANGED <<node, Root, stores>>, pc[t] = "lockparent", pc'[t] \in {"lockparent", "parent"}
    PROVE  Ranges(low, lev)'
<1>1. Proceeds(t) /\ Carries(t)
  BY DEF Proceeds, Carries, InTransit, Climbing, SameNode
<1>2. Placed(low, lev)'
  BY PlacedKept DEF Ranges
<1>3. Way(low, lev, t)'
  <2>1. /\ IsNext(low, lev, lc[t], rc[t]) /\ lm_key[t] = low[rc[t]]
        /\ cur[t] # NULL => Under(low, lev, cur[t], lc[t])
    BY DEF Ranges, ThreadRange, Way, InTransit, Half, Alone
  <2>2. Half(t)' = lc[t]
    BY DEF Half, SameNode
  <2>3. (cur[t] # NULL => Under(low, lev, cur[t], lc[t]))'
    BY <2>1 DEF SameNode
  <2>4. (InTransit(t) => IsNext(low, lev, Half(t), rc[t]))'
    BY <2>1, <2>2 DEF SameNode
  <2>5. (pc[t] \in {"up", "lockparent", "parent"} => lm_key[t] = low[rc[t]])'
    BY <2>1 DEF SameNode
  <2> QED BY <2>3, <2>4, <2>5 DEF Way
<1>4. ASSUME NEW u \in Threads, Splitting(u), cur'[t] = rc[u] PROVE Below(low, lev, rc[u], low[lc'[t]])
  BY <1>4 DEF Ranges, ThreadRange, Unlinked, SameNode, Alone
<1> QED BY <1>1, <1>2, <1>3, <1>4, CalmRanges

LEMMA LockParentRanges ==
    ASSUME TreeInv, NEW low, NEW lev, Ranges(low, lev), NEW t \in Threads, LockParent(t) \/ LockNull(t)
    PROVE  Ranges(low, lev)'
<1>1. Alone(t) /\ UNCHANGED <<node, Root, stores>> /\ pc[t] = "lockparent"
  BY DEF TreeInv, TypeOK, LockParent, LockNull, At, Goto, Alone, Locals
<1>2. SameNode(t) /\ pc'[t] \in {"lockparent", "parent"}
  BY DEF TreeInv, TypeOK, LockParent, LockNull, At, Goto, SameNode
<1> QED BY <1>1, <1>2, SamePlaceRanges

LEMMA SearchCoreRanges ==
    ASSUME TreeInv, NEW low, NEW lev, Ranges(low, lev), NEW t \in Threads, SearchCore(t)
    PROVE  Ranges(low, lev)'
<1>1. Alone(t) /\ UNCHANGED <<node, Root, stores>> /\ pc[t] = "search" /\ pc'[t] = "search"
  BY DEF TreeInv, TypeOK, SearchCore, At, Alone, Locals
<1>2. i'[t] = i[t] \/ i'[t] = i[t] + 1
  BY DEF TreeInv, TypeOK, SearchCore
<1>3. Proceeds(t) /\ Carries(t)
  BY <1>1, <1>2 DEF Proceeds, Carries, InTransit, Climbing
<1>4. Placed(low, lev)'
  BY <1>1, PlacedKept DEF Ranges
<1>5. Way(low, lev, t)'
  BY <1>1 DEF Way, InTransit
<1> QED BY <1>1, <1>3, <1>4, <1>5, CalmRanges

\* The end of an insertion that stores nothing more.
LEMMA EndInsertIsAlone ==
    ASSUME TreeInv, NEW t \in Threads, EndInsert(t), UNCHANGED <<nkey, kid, stores, Key_vector>>,
           stores[t] = <<>>, pc[t] # "search"
    PROVE  /\ Alone(t) /\ pc'[t] = "insert" /\ i'[t] = i[t] + 1
           /\ Proceeds(t) /\ Carries(t) /\ stores'[t] = <<>>
           /\ \A low, lev : Way(low, lev, t)'
<1>1. Alone(t) /\ pc'[t] = "insert" /\ i'[t] = i[t] + 1
  BY DEF TreeInv, TypeOK, EndInsert, Goto, Alone, Locals
<1>2. Carries(t) /\ \A low, lev : Way(low, lev, t)'
  BY <1>1 DEF Carries, Way, InTransit
<1> QED BY <1>1, <1>2 DEF Proceeds

LEMMA UnlockBothRanges ==
    ASSUME TreeInv, NEW low, NEW lev, Ranges(low, lev), NEW t \in Threads, UnlockBoth(t)
    PROVE  Ranges(low, lev)'
<1>1. /\ pc[t] = "added" /\ stores[t] = <<>> /\ EndInsert(t)
      /\ UNCHANGED <<Key_vector, Root, node, nkey, kid, stores>>
  BY DEF UnlockBoth, At
<1>2. Alone(t) /\ pc'[t] = "insert" /\ Proceeds(t) /\ Carries(t) /\ Way(low, lev, t)'
  <2>1. \A a, b : Way(a, b, t)'
    BY <1>1, EndInsertIsAlone
  <2> QED BY <1>1, <2>1, EndInsertIsAlone
<1>4. Placed(low, lev)'
  BY <1>1, <1>2, PlacedKept DEF Ranges
<1> QED BY <1>1, <1>2, <1>4, CalmRanges

\* The new root has the bound of the old one.
LEMMA PublishRootRanges ==
    ASSUME TreeInv, ParentInv, ~early, NEW low, NEW lev, Ranges(low, lev),
           NEW t \in Threads, PublishRoot(t)
    PROVE  Ranges(low, lev)'
<1>1. /\ pc[t] = "publish" /\ stores[t] = <<>> /\ EndInsert(t)
      /\ Root' = node[lc[t]].parent
      /\ UNCHANGED <<Key_vector, node, nkey, kid, stores>>
  BY DEF PublishRoot, At
<1>2. Alone(t) /\ pc'[t] = "insert" /\ Proceeds(t) /\ Carries(t) /\ Way(low, lev, t)'
  <2>1. \A a, b : Way(a, b, t)'
    BY <1>1, EndInsertIsAlone
  <2> QED BY <1>1, <2>1, EndInsertIsAlone
<1>3. Publishing /\ Placed(low, lev)
  BY DEF ParentInv, Ranges
<1>4. lc[t] = Root /\ NewRoot # NULL /\ Root' = NewRoot /\ Root \in DOMAIN node
  BY <1>1, <1>3, RootIsNode DEF Publishing, NewRoot, TreeInv
<1>5. Under(low, lev, NewRoot, Root)
  BY <1>4, RangesGive DEF NodeRange, Pointing, NewRoot
<1>6. NewRoot \in DOMAIN node /\ lev[NewRoot] = lev[Root] + 1 /\ low[NewRoot] <= low[Root]
  BY <1>5, RangesGive DEF Under
<1>7. low[NewRoot] = 0
  BY <1>3, <1>6, RangesGive DEF Placed
<1>8. ASSUME NEW p \in DOMAIN node PROVE lev[p] <= lev[NewRoot]
  <2>1. lev[p] <= lev[Root] \/ p = NewRoot
    BY <1>3 DEF Placed
  <2>2. lev[p] \in Nat /\ lev[Root] \in Nat /\ lev[NewRoot] \in Nat
    BY <1>4, <1>6, RangesGive
  <2> QED BY <1>6, <2>1, <2>2
<1>9. Placed(low, lev)'
  BY <1>1, <1>3, <1>4, <1>7, <1>8 DEF Placed
<1> QED BY <1>1, <1>2, <1>9, CalmRanges

LEMMA AscendRanges ==
    ASSUME TreeInv, NEW low, NEW lev, Ranges(low, lev), NEW t \in Threads, Ascend(t)
    PROVE  Ranges(low, lev)'
<1>1. Alone(t) /\ UNCHANGED <<node, Root, stores>> /\ pc[t] = "split" /\ stores[t] = <<>>
  BY DEF TreeInv, TypeOK, Ascend, At, Goto, Alone, Locals
<1>2. /\ i'[t] = i[t] /\ lc'[t] = cur[t] /\ rc'[t] = rc[t]
      /\ lm_key'[t] = node[cur[t]].high_key /\ pc'[t] = "up"
  BY DEF TreeInv, TypeOK, Ascend, Goto
<1>3. Proceeds(t) /\ Carries(t)
  BY <1>1, <1>2 DEF Proceeds, Carries, InTransit, Climbing
<1>4. Placed(low, lev)'
  BY <1>1, PlacedKept DEF Ranges
<1>5. Way(low, lev, t)'
  <2>1. cur[t] \in DOMAIN node /\ rc[t] \in DOMAIN node /\ Holds(t, cur[t]) /\ Way(low, lev, t)
    BY <1>1, RangesGive DEF PlaceInv, Internal, Holds, ThreadRange
  <2>2. IsNext(low, lev, cur[t], rc[t])
    BY <1>1, <2>1 DEF Way, InTransit, Half
  <2>3. \A u \in Threads \ {t} : Splitting(u) => rc[u] # cur[t]
    BY <1>1 DEF Ranges, Apart
  <2>4. IsHigh(low, lev, cur[t], node[cur[t]].high_key)
    BY <1>1, <2>1, <2>3, HeldLinked
  <2>5. lm_key'[t] = low[rc[t]]
    BY <1>2, <2>1, <2>2, <2>4, RangesGive DEF IsHigh
  <2>6. Half(t)' = cur[t]
    BY <1>2 DEF Half
  <2>7. (InTransit(t) => IsNext(low, lev, Half(t), rc[t]))'
    BY <1>2, <2>2, <2>6
  <2> QED BY <1>2, <2>5, <2>7 DEF Way
<1> QED BY <1>1, <1>2, <1>3, <1>4, <1>5, CalmRanges

\* A step that changes nothing of the nodes and stores, nor where the threads
\* are, if they are not among the idle ones before and after it.
LEMMA IdleRanges ==
    ASSUME NEW low, NEW lev, Ranges(low, lev), UNCHANGED <<Key_vector, Root, node, cur, nkey, kid, lc, rc, lm_key, stores>>,
           \A u \in Threads : \/ pc'[u] = pc[u] /\ i'[u] = i[u]
                              \/ pc[u] = "insert" /\ pc'[u] = "search"
    PROVE  Ranges(low, lev)'
<1>1. \A u \in Threads :
          /\ InTransit(u)' <=> InTransit(u)
          /\ Splitting(u)' <=> Splitting(u)
          /\ \A a \in {"descend", "scan", "child", "leaf", "publish", "lockparent", "parent", "split", "up"} :
                pc'[u] = a <=> pc[u] = a
          /\ pc[u] \in {"descend", "scan", "child", "leaf"} => Key(u)' = Key(u)
  BY DEF InTransit, Splitting, Key, KeyOf, range
<1>2. \A p, field : Pending(p, field)' <=> Pending(p, field)
  BY DEF Pending
<1>3. ASSUME NEW k, Inserted(k) PROVE Inserted(k)'
  <2>1. PICK u \in Threads, j \in 1 .. range :
            /\ k = KeyOf(u, j)
            /\ j < i[u] \/ (j = i[u] /\ pc[u] \in Climbing) \/ pc[u] = "search"
    BY <1>3 DEF Inserted
  <2>2. (k = KeyOf(u, j))' /\ range' = range
    BY <2>1 DEF KeyOf, range
  <2>3. (j < i[u] \/ (j = i[u] /\ pc[u] \in Climbing) \/ pc[u] = "search")'
    BY <2>1
  <2>4. j \in 1 .. range'
    BY <2>1, <2>2
  <2> QED BY <2>2, <2>3, <2>4 DEF Inserted
<1>4. Placed(low, lev)'
  <2>1. NewRoot' = NewRoot
    BY DEF NewRoot
  <2> QED BY <1>1, <2>1 DEF Ranges, Placed
<1>5. ASSUME NEW p \in DOMAIN node PROVE NodeRange(low, lev, p)'
  <2>1. NodeRange(low, lev, p)
    BY DEF Ranges
  <2>2. Pointing(low, lev, p)'
    BY <2>1 DEF NodeRange, Pointing
  <2>3. Linked(low, lev, p)'
    BY <1>2, <2>1 DEF NodeRange, Linked
  <2>4. LeafKeys(low, lev, p)'
    BY <1>3, <2>1 DEF NodeRange, LeafKeys
  <2>5. Separated(low, lev, p) => Separated(low, lev, p)'
    <3>1. \A f, g, n : Separators(low, lev, p, f, g, n) => Separators(low, lev, p, f, g, n)'
      BY <1>1 DEF Separators
    <3>2. \A f, n : Larger(low, lev, p, f, n) => Larger(low, lev, p, f, n)'
      BY DEF Larger
    <3>3. \A f, g, n : Reaches(p, f, g, n) => Reaches(p, f, g, n)'
      BY DEF Reaches, Has, Sets
    <3> QED BY <3>1, <3>2, <3>3 DEF Separated
  <2>6. Readable(low, lev, p) => Readable(low, lev, p)'
    BY DEF Readable
  <2> QED BY <2>1, <2>2, <2>3, <2>4, <2>5, <2>6 DEF NodeRange
<1>6. ASSUME NEW u \in Threads PROVE ThreadRange(low, lev, u)'
  <2>1. ThreadRange(low, lev, u)
    BY DEF Ranges
  <2>2. Linking(low, lev, u)'
    BY <1>1, <2>1 DEF ThreadRange, Linking, LinkStore
  <2>3. Way(low, lev, u)'
    BY <1>1, <2>1 DEF ThreadRange, Way, Half
  <2>4. Unlinked(low, lev, u)'
    BY <1>1, <2>1 DEF ThreadRange, Unlinked
  <2> QED BY <2>2, <2>3, <2>4 DEF ThreadRange
<1>7. Apart'
  BY <1>1 DEF Ranges, Apart
<1> QED BY <1>4, <1>5, <1>6, <1>7 DEF Ranges

LEMMA StartSearchRanges ==
    ASSUME NEW low, NEW lev, Ranges(low, lev), StartSearch \/ UNCHANGED vars
    PROVE  Ranges(low, lev)'
<1>1. UNCHANGED <<Key_vector, Root, node, cur, nkey, kid, lc, rc, lm_key, stores>>
  BY DEF StartSearch, vars
<1>2. \A u \in Threads : \/ pc'[u] = pc[u] /\ i'[u] = i[u]
                         \/ pc[u] = "insert" /\ pc'[u] = "search"
  BY DEF StartSearch, vars
<1> QED BY <1>1, <1>2, IdleRanges

-----------------------------------------------------------------------------
(* The steps that change nodes, or are going to                            *)

\* The step of t changes no more than the parent of any node outside S.
Spares(t, S, x, low2, lev2) ==
    \A p \in DOMAIN node' \ S :
          /\ p \in DOMAIN node /\ p # x
          /\ node'[p].isLeaf <=> node[p].isLeaf
          /\ node'[p].key = node[p].key /\ node'[p].chi = node[p].chi
          /\ node'[p].nkey = node[p].nkey /\ node'[p].right_link = node[p].right_link
          /\ node'[p].high_key = node[p].high_key
          /\ node'[p].parent = node[p].parent \/ Under(low2, lev2, node'[p].parent, p)
          /\ \A j \in DOMAIN stores'[t] :
                stores'[t][j].to = p => stores'[t][j].field \notin {"key", "chi", "nkey"}

\* A step of t that leaves the keys, children and links of the internal nodes.
LEMMA ChangeRanges ==
    ASSUME TreeInv, NEW low, NEW lev, Ranges(low, lev), NEW t, Alone(t), Proceeds(t), Carries(t),
           NEW low2, NEW lev2, NEW x, Refines(low, lev, low2, lev2, x), Placed(low2, lev2)',
           DOMAIN node \subseteq DOMAIN node',
           \A p \in DOMAIN node : ~node[p].isLeaf =>
               /\ node'[p].key = node[p].key /\ node'[p].chi = node[p].chi
               /\ node'[p].right_link = node[p].right_link,
           NEW S, \A p \in DOMAIN node' : p \in S => NodeRange(low2, lev2, p)',
           Spares(t, S, x, low2, lev2),
           ThreadRange(low2, lev2, t)', pc'[t] \notin {"lockparent", "parent"},
           \A u \in Threads \ {t} :
               /\ InTransit(u) => Half(u) # x
               /\ \A j \in DOMAIN stores[u] : stores[u][j].to # x
               /\ Splitting(u) => rc[u] # x,
           \A u \in Threads \ {t} : Splitting(u) =>
               \A p \in DOMAIN node' : node'[p].parent = rc[u] =>
                   (p \in DOMAIN node /\ node[p].parent = rc[u]) \/ Below(low2, lev2, rc[u], low2[p]),
           pc'[t] = "split" =>
               /\ rc'[t] \notin DOMAIN node /\ cur'[t] \in DOMAIN node
               /\ \A u \in Threads \ {t} : Splitting(u) => rc[u] # cur'[t]
    PROVE  Ranges(low2, lev2)'
<1>1. /\ Bounds(low, lev, DOMAIN node) /\ TypeOK /\ t \in Threads
      /\ \A u \in Threads : PlaceInv(u) /\ StoreInv(u) /\ ThreadRange(low, lev, u)
      /\ \A p \in DOMAIN node : NodeRange(low, lev, p)
  BY RangesGive DEF Alone
<1>2. ASSUME NEW p \in DOMAIN node' \ S PROVE NodeRange(low2, lev2, p)'
  <2>1. NodeRange(low, lev, p)
    BY <1>1 DEF Spares
  <2> QED BY <1>1, <2>1, NodeRangeKept DEF Spares
<1>3. KeysFall
  BY <1>1, SameKeysFall
<1>4. ASSUME NEW u \in Threads \ {t} PROVE ThreadRange(low2, lev2, u)'
  <2>1. Linking(low, lev, u) /\ Way(low, lev, u) /\ Unlinked(low, lev, u)
    BY <1>1 DEF ThreadRange
  <2>2. pc[u] = "split" => rc[u] \in DOMAIN node /\ ~node[rc[u]].isLeaf
    BY <1>1 DEF PlaceInv, Internal
  <2>3. Linking(low2, lev2, u)'
    <3>1. \A j \in DOMAIN stores[u] : stores[u][j].to # x
      OBVIOUS
    <3>2. pc[u] = "split" => node'[rc[u]].right_link = node[rc[u]].right_link
      BY <2>2
    <3> QED BY <1>1, <2>1, <3>1, <3>2, LinkingKept
  <2>4. Way(low2, lev2, u)'
    BY <1>1, <1>3, <2>1, WayKept
  <2>5. Unlinked(low2, lev2, u)'
    <3>1. Splitting(u) => rc[u] # x /\ node'[rc[u]].chi = node[rc[u]].chi
      BY <2>2 DEF Splitting
    <3>2. \A p \in DOMAIN node' : Splitting(u) /\ node'[p].parent = rc[u] =>
               \/ p \in DOMAIN node /\ node[p].parent = rc[u]
               \/ Below(low2, lev2, rc[u], low2[p])
      OBVIOUS
    <3>3. Splitting(u) /\ pc'[t] \in {"lockparent", "parent"} /\ cur'[t] = rc[u] =>
               Below(low2, lev2, rc[u], low2[lc'[t]])
      OBVIOUS
    <3> QED BY <1>1, <2>1, <3>1, <3>2, <3>3, UnlinkedKept
  <2> QED BY <2>3, <2>4, <2>5 DEF ThreadRange
<1>5. Apart'
  BY ApartKept DEF Ranges
<1> QED BY <1>1, <1>2, <1>4, <1>5 DEF Ranges

\* What t holds, and nobody has just split off, is nobody else's half.
LEMMA HeldIsOwn ==
    ASSUME TreeInv, NEW t \in Threads, NEW x, Holds(t, x), NEW u \in Threads \ {t},
           Splitting(u) => rc[u] # x
    PROVE  /\ InTransit(u) => Half(u) # x
           /\ \A j \in DOMAIN stores[u] : stores[u][j].to # x
<1>1. ~Holds(u, x)
  BY OneHolder
<1>2. InTransit(u) => Holds(u, Half(u))
  BY DEF InTransit, Half, Holds
<1>3. ASSUME NEW j \in DOMAIN stores[u] PROVE stores[u][j].to # x
  <2>1. GoodStore(u, stores[u][j]) /\ stores[u] # <<>>
    BY DEF TreeInv, StoreInv
  <2>2. pc[u] \in {"added", "split"}
    BY <2>1 DEF TreeInv, PlaceInv
  <2>3. Holds(u, cur[u])
    BY <2>2 DEF Holds
  <2> QED BY <1>1, <2>1, <2>3 DEF GoodStore, Splitting
<1> QED BY <1>1, <1>2, <1>3

-----------------------------------------------------------------------------
(* Arrays in strict order                                                  *)

Rising(f, n) == \A a, b \in 0 .. n - 1 : a < b => f[a] < f[b]

\* g is f with k inserted in slot p.
Inserts(g, f, n, p, k) ==
    /\ p \in 0 .. n
    /\ \A s \in 0 .. n :
          /\ s < p => g[s] = f[s] /\ g[s] < k /\ s \in 0 .. n - 1
          /\ s = p => g[s] = k
          /\ s > p => g[s] = f[s - 1] /\ g[s] > k /\ s - 1 \in 0 .. n - 1
          /\ g[s] \in Nat /\ (g[s] = k \/ \E r \in 0 .. n - 1 : g[s] = f[r])
    /\ Rising(g, n + 1)

\* A key that was not there, inserted in the slot that SlotOf found.
LEMMA InsertRises ==
    ASSUME NEW x, NEW n \in Nat, x.nkey = n, NEW dom \in SUBSET Nat, 0 .. n \subseteq dom,
           NEW k \in Nat, NEW p, IsSlotOf(p, x, k),
           \A a \in 0 .. n - 1 : x.key[a] \in Nat /\ x.key[a] # k, Rising(x.key, n)
    PROVE  Inserts(InsertAt(x.key, dom, n, p, k), x.key, n, p, k)
<1>1. PICK g : g = InsertAt(x.key, dom, n, p, k)
  OBVIOUS
<1>2. p \in 0 .. n /\ (\A s \in 0 .. (p - 1) : x.key[s] <= k) /\ (p < n => x.key[p] > k)
  BY DEF IsSlotOf
<1>3. ASSUME NEW s \in 0 .. n
      PROVE  /\ s < p => g[s] = x.key[s] /\ g[s] < k /\ s \in 0 .. n - 1
             /\ s = p => g[s] = k
             /\ s > p => g[s] = x.key[s - 1] /\ g[s] > k /\ s - 1 \in 0 .. n - 1
  <2>1. p \in Nat /\ s \in dom /\ s \in Nat
    BY <1>2
  <2>2. /\ s < p => g[s] = x.key[s]
        /\ s = p => g[s] = k
        /\ s > p /\ s <= n => g[s] = x.key[s - 1]
    <3>1. PICK f : f = x.key
      OBVIOUS
    <3>2. g = InsertAt(f, dom, n, p, k)
      BY <1>1, <3>1
    <3> QED BY <2>1, <3>1, <3>2 DEF InsertAt
  <2>3. CASE s < p
    <3>1. s \in 0 .. p - 1 /\ s \in 0 .. n - 1
      BY <1>2, <2>1, <2>3
    <3>2. x.key[s] <= k /\ x.key[s] \in Nat /\ x.key[s] # k
      BY <1>2, <3>1
    <3> QED BY <2>1, <2>2, <2>3, <3>1, <3>2
  <2>4. CASE s > p
    <3>1. s - 1 \in 0 .. n - 1 /\ p \in 0 .. n - 1 /\ p <= s - 1 /\ p < n
      BY <1>2, <2>1, <2>4
    <3>2. (p < s - 1 => x.key[p] < x.key[s - 1]) /\ x.key[p] > k /\ x.key[p] \in Nat /\ x.key[s - 1] \in Nat
      BY <1>2, <3>1 DEF Rising
    <3>3. p = s - 1 \/ p < s - 1
      BY <2>1, <3>1
    <3>4. g[s] = x.key[s - 1]
      BY <2>1, <2>2, <2>4
    <3>5. x.key[s - 1] > k
      BY <3>2, <3>3
    <3> QED BY <2>1, <2>4, <3>1, <3>4, <3>5, <1>2
  <2>5. CASE s = p
    BY <1>2, <2>1, <2>2, <2>5
  <2> QED BY <1>2, <2>1, <2>3, <2>4, <2>5
<1>4. ASSUME NEW a \in 0 .. n, NEW b \in 0 .. n, a < b PROVE g[a] < g[b]
  <2>1. CASE b < p
    <3>1. a \in 0 .. n - 1 /\ b \in 0 .. n - 1 /\ g[a] = x.key[a] /\ g[b] = x.key[b]
      BY <1>2, <1>3, <1>4, <2>1
    <3> QED BY <1>4, <3>1 DEF Rising
  <2>2. CASE b = p
    BY <1>2, <1>3, <1>4, <2>2
  <2>3. CASE b > p
    <3>1. g[b] = x.key[b - 1] /\ g[b] > k /\ b - 1 \in 0 .. n - 1 /\ x.key[b - 1] \in Nat
      BY <1>3, <2>3
    <3>2. CASE a < p
      <4>1. g[a] = x.key[a] /\ g[a] < k /\ x.key[a] \in Nat
        BY <1>3, <3>2
      <4> QED BY <3>1, <4>1
    <3>3. CASE a = p
      BY <1>3, <3>1, <3>3
    <3>4. CASE a > p
      <4>1. g[a] = x.key[a - 1] /\ a - 1 \in 0 .. n - 1 /\ a - 1 < b - 1
        BY <1>3, <1>4, <3>4
      <4> QED BY <3>1, <4>1 DEF Rising
    <3> QED BY <1>2, <3>2, <3>3, <3>4
  <2> QED BY <1>2, <2>1, <2>2, <2>3
<1>5. 0 .. (n + 1) - 1 = 0 .. n
  OBVIOUS
<1>6. ASSUME NEW s \in 0 .. n
      PROVE  g[s] \in Nat /\ (g[s] = k \/ \E r \in 0 .. n - 1 : g[s] = x.key[r])
  <2>1. s < p \/ s = p \/ s > p
    BY <1>2
  <2> QED BY <1>2, <1>3, <2>1
<1> QED BY <1>1, <1>2, <1>3, <1>4, <1>5, <1>6 DEF Inserts, Rising

\* The same for the keys of a node, and for those of a full one in TEMP.
LEMMA NewKeysRise ==
    ASSUME TypeOK, NEW x \in NodeType, NEW k \in Nat,
           \A a \in 0 .. x.nkey - 1 : x.key[a] # k, Rising(x.key, x.nkey)
    PROVE  /\ x.nkey < N - 1 => Inserts(NewKeys(x, k), x.key, x.nkey, SlotOf(x, k), k)
           /\ x.nkey = N - 1 => Inserts(TempKey(x, k), x.key, x.nkey, SlotOf(x, k), k)
<1>1. PICK n, p : n \in Nat /\ n = x.nkey /\ p = SlotOf(x, k)
  BY NodeTypeIs
<1>2. IsSlotOf(p, x, k)
  BY <1>1, SlotOfType
<1>3. n <= N - 1 /\ \A a \in 0 .. n - 1 : x.key[a] \in Nat /\ x.key[a] # k
  <2>1. n \in 0 .. N - 1 /\ x.key \in [Slots -> Nat]
    BY <1>1, NodeTypeIs
  <2>2. \A a \in 0 .. n - 1 : a \in Slots
    BY <2>1, Halves
  <2> QED BY <1>1, <2>1, <2>2
<1>4. CASE n < N - 1
  <2>1. Slots \in SUBSET Nat /\ 0 .. n \subseteq Slots
    BY <1>1, <1>4, Halves
  <2>2. Inserts(InsertAt(x.key, Slots, n, p, k), x.key, n, p, k)
    BY <1>1, <1>2, <1>3, <2>1, InsertRises
  <2> QED BY <1>1, <1>4, <2>2 DEF NewKeys
<1>5. CASE n = N - 1
  <2>1. PICK dom : dom = 0 .. N - 1 /\ dom \in SUBSET Nat /\ 0 .. n \subseteq dom
    BY <1>5, Halves
  <2>2. Inserts(InsertAt(x.key, dom, n, p, k), x.key, n, p, k)
    BY <1>1, <1>2, <1>3, <2>1, InsertRises
  <2>3. TempKey(x, k) = InsertAt(x.key, dom, n, p, k)
    BY <1>1, <1>5, <2>1, Halves DEF TempKey
  <2> QED BY <1>1, <1>5, <2>2, <2>3
<1> QED BY <1>1, <1>3, <1>4, <1>5, Halves

-----------------------------------------------------------------------------
(* Insertions in a leaf                                                    *)

\* The leaf that t has come to is the one for its key.
LEMMA LeafTakes ==
    ASSUME TreeInv, NEW low, NEW lev, Ranges(low, lev), NEW t \in Threads,
           stores[t] = <<>>, pc[t] = "leaf", ~MustGoRight(cur[t], Key(t)),
           NEW c, c = cur[t], NEW k, k = Key(t)
    PROVE  /\ c \in DOMAIN node /\ node[c].isLeaf /\ Holds(t, c) /\ k \in Nat /\ low[c] < k
           /\ i[t] \in 1 .. range
           /\ AtMost(low, lev, c, k)
           /\ IsNext(low, lev, c, node[c].right_link) /\ IsHigh(low, lev, c, node[c].high_key)
           /\ node[c].right_link = NULL => \A h : IsHigh(low, lev, c, h)
           /\ node[c].right_link # NULL => k <= node[c].high_key
           /\ \A s \in 0 .. node[c].nkey - 1 :
                 /\ node[c].key[s] \in Nat /\ node[c].key[s] # k /\ low[c] < node[c].key[s]
                 /\ AtMost(low, lev, c, node[c].key[s]) /\ Inserted(node[c].key[s])
           /\ Rising(node[c].key, node[c].nkey)
           /\ Pointing(low, lev, c)
           /\ \A u \in Threads \ {t} : Splitting(u) => rc[u] # c
           /\ \A field : ~Pending(c, field)
<1>1. /\ c \in DOMAIN node /\ node[c].isLeaf /\ Holds(t, c) /\ k \in Nat /\ low[c] < k
      /\ i[t] \in 1 .. range
  <2>1. PlaceInv(t) /\ Way(low, lev, t) /\ TypeOK
    BY RangesGive DEF ThreadRange
  <2> QED BY <2>1, InsertsAKey DEF PlaceInv, Leaf, Holds, Way
<1>2. \A u \in Threads : Splitting(u) => rc[u] # c
  BY <1>1 DEF Splitting, TreeInv, PlaceInv, Internal
<1>3. IsNext(low, lev, c, node[c].right_link) /\ IsHigh(low, lev, c, node[c].high_key)
  BY <1>1, <1>2, HeldLinked
<1>4. NodeRange(low, lev, c) /\ node[c].right_link \in DOMAIN node \cup {NULL} /\ node[c].high_key \in Nat
  BY <1>1, RangesGive, NodeFields, Addresses
<1>5. node[c].right_link # NULL => k <= node[c].high_key /\ node[c].high_key = low[node[c].right_link]
  <2>1. node[c].right_link # NULL => k <= node[c].high_key
    BY <1>1, <1>4 DEF MustGoRight
  <2> QED BY <1>3, <1>4, <2>1, RangesGive DEF IsHigh
<1>6. AtMost(low, lev, c, k)
  <2>1. ASSUME NEW q \in DOMAIN low, Right(low, lev, c, q) PROVE k <= low[q]
    <3>1. node[c].right_link # NULL /\ low[node[c].right_link] <= low[q]
      BY <1>3, <2>1 DEF IsNext
    <3>2. low[q] \in Nat
      BY RangesGive
    <3> QED BY <1>1, <1>4, <1>5, <3>1, <3>2
  <2> QED BY <2>1 DEF AtMost
<1>7. node[c].right_link = NULL => \A h : IsHigh(low, lev, c, h)
  BY <1>3, RangesGive DEF IsHigh, IsNext
<1>8. ASSUME NEW s \in 0 .. node[c].nkey - 1
      PROVE  /\ node[c].key[s] \in Nat /\ node[c].key[s] # k /\ low[c] < node[c].key[s]
             /\ AtMost(low, lev, c, node[c].key[s]) /\ Inserted(node[c].key[s])
  <2>1. node[c].key[s] \in Nat
    <3>1. node[c].key \in [Slots -> Nat] /\ node[c].nkey \in 0 .. N - 1
      BY <1>1, NodeFields, RangesGive
    <3>2. s \in Slots
      BY <3>1, Halves
    <3> QED BY <3>1, <3>2
  <2>2. low[c] < node[c].key[s] /\ AtMost(low, lev, c, node[c].key[s]) /\ Inserted(node[c].key[s])
    BY <1>1, <1>4 DEF NodeRange, LeafKeys
  <2>3. node[c].key[s] # k
    <3>1. PICK u \in Threads, j \in 1 .. range :
              /\ node[c].key[s] = KeyOf(u, j)
              /\ j < i[u] \/ (j = i[u] /\ pc[u] \in Climbing) \/ pc[u] = "search"
      BY <2>2 DEF Inserted
    <3>2. KeyOf(u, j) = KeyOf(t, i[t]) => u = t /\ j = i[t]
      BY <1>1, KeysDiffer, RangesGive
    <3>3. i[t] \in Nat /\ pc[t] \notin Climbing /\ pc[t] # "search"
      BY <1>1 DEF Climbing
    <3> QED BY <3>1, <3>2, <3>3 DEF Key
  <2> QED BY <2>1, <2>2, <2>3
<1>9. Rising(node[c].key, node[c].nkey)
  BY <1>1, <1>4 DEF NodeRange, LeafKeys, Rising
<1>10. \A field : ~Pending(c, field)
  BY <1>1, StoresGo DEF Pending
<1> QED BY <1>1, <1>2, <1>3, <1>4, <1>5, <1>6, <1>7, <1>8, <1>9, <1>10 DEF NodeRange

LEMMA AddToLeafRanges ==
    ASSUME TreeInv, NEW low, NEW lev, Ranges(low, lev), NEW t \in Threads, AddToLeaf(t)
    PROVE  Ranges(low, lev)'
<1>0. /\ pc[t] = "leaf" /\ stores[t] = <<>> /\ EndInsert(t) /\ ~MustGoRight(cur[t], Key(t))
      /\ UNCHANGED <<Key_vector, Root, nkey, kid, stores>>
  BY DEF AddToLeaf, At
<1>1. /\ Alone(t) /\ pc'[t] = "insert" /\ i'[t] = i[t] + 1 /\ Proceeds(t) /\ Carries(t)
      /\ stores'[t] = <<>> /\ Way(low, lev, t)'
  <2>1. \A a, b : Way(a, b, t)'
    BY <1>0, EndInsertIsAlone
  <2> QED BY <1>0, <2>1, EndInsertIsAlone
<1>2. PICK c, k : c = cur[t] /\ k = Key(t)
  OBVIOUS
<1>3. /\ c \in DOMAIN node /\ node[c].isLeaf /\ Holds(t, c) /\ k \in Nat /\ low[c] < k
      /\ i[t] \in 1 .. range
      /\ AtMost(low, lev, c, k)
      /\ IsNext(low, lev, c, node[c].right_link) /\ IsHigh(low, lev, c, node[c].high_key)
      /\ node[c].right_link = NULL => \A h : IsHigh(low, lev, c, h)
      /\ node[c].right_link # NULL => k <= node[c].high_key
      /\ Rising(node[c].key, node[c].nkey)
      /\ Pointing(low, lev, c)
      /\ \A u \in Threads \ {t} : Splitting(u) => rc[u] # c
      /\ \A field : ~Pending(c, field)
  BY <1>0, <1>2, LeafTakes
<1>4. \A s \in 0 .. node[c].nkey - 1 :
          /\ node[c].key[s] \in Nat /\ node[c].key[s] # k /\ low[c] < node[c].key[s]
          /\ AtMost(low, lev, c, node[c].key[s]) /\ Inserted(node[c].key[s])
  BY <1>0, <1>2, LeafTakes
<1>5. PICK x, n : x \in NodeType /\ x = node[c] /\ n \in Nat /\ n = x.nkey /\ n < N - 1
  BY <1>2, <1>3, NodeFields, NodeTypeIs, RangesGive DEF AddToLeaf
<1>6. PICK y : /\ y.isLeaf = x.isLeaf /\ y.chi = x.chi
               /\ y.right_link = x.right_link /\ y.parent = x.parent
               /\ y.nkey = n + 1 /\ y.key = InsertAt(x.key, Slots, n, SlotOf(x, k), k)
               /\ y.high_key = (IF x.high_key < k THEN k ELSE x.high_key)
               /\ node' = [node EXCEPT ![c] = y]
  <2>1. node' = [node EXCEPT ![c] = InsertInLeaf(x, k)]
    BY <1>2, <1>5 DEF AddToLeaf
  <2> QED BY <1>3, <1>5, <2>1, InsertInLeafIs, RangesGive
<1>7. DOMAIN node' = DOMAIN node /\ \A p \in DOMAIN node : node'[p] = IF p = c THEN y ELSE node[p]
  BY <1>6 DEF TreeInv, TypeOK
<1>8. node'[c] = y /\ \A p \in DOMAIN node : p # c => node'[p] = node[p]
  BY <1>3, <1>7
<1>9. /\ \A s \in 0 .. n : y.key[s] = k \/ \E r \in 0 .. n - 1 : y.key[s] = x.key[r]
      /\ Rising(y.key, n + 1)
  <2>1. \A a \in 0 .. x.nkey - 1 : x.key[a] # k
    BY <1>4, <1>5
  <2>2. Rising(x.key, x.nkey) /\ x.nkey < N - 1 /\ y.key = NewKeys(x, k)
    BY <1>3, <1>5, <1>6 DEF NewKeys
  <2>3. Inserts(NewKeys(x, k), x.key, x.nkey, SlotOf(x, k), k)
    BY <1>3, <1>5, <2>1, <2>2, NewKeysRise, RangesGive
  <2> QED BY <1>5, <2>2, <2>3 DEF Inserts
<1>10. Inserted(k)'
  <2>1. PICK j : j = i[t] /\ j \in 1 .. range /\ k = KeyOf(t, j)
    BY <1>2, <1>3 DEF Key
  <2>2. range' = range /\ (k = KeyOf(t, j))'
    BY <1>0, <2>1 DEF range, KeyOf
  <2>3. j < i'[t]
    <3>1. range \in Nat
      BY RangeType, RangesGive
    <3> QED BY <1>1, <2>1, <3>1
  <2> QED BY <2>1, <2>2, <2>3 DEF Inserted
<1>11. NodeRange(low, lev, c)'
  <2>1. Pointing(low, lev, c)'
    <3>1. (node[c].right_link # NULL =>
              /\ Right(low, lev, c, node[c].right_link)
              /\ node[c].high_key <= low[node[c].right_link])'
      <4>1. ASSUME x.right_link # NULL PROVE y.high_key = x.high_key
        <5>1. k <= x.high_key /\ x.high_key \in Nat
          BY <1>3, <1>5, <4>1, NodeTypeIs, RangesGive
        <5> QED BY <1>3, <1>6, <5>1
      <4> QED BY <1>3, <1>5, <1>6, <1>8, <4>1 DEF Pointing
    <3> QED BY <1>3, <1>5, <1>6, <1>8, <3>1 DEF Pointing
  <2>2. Linked(low, lev, c)'
    <3>1. IsHigh(low, lev, c, y.high_key)
      <4>1. x.right_link # NULL => y.high_key = x.high_key
        <5>1. x.right_link # NULL => k <= x.high_key /\ x.high_key \in Nat
          BY <1>3, <1>5, NodeTypeIs, RangesGive
        <5> QED BY <1>3, <1>6, <5>1
      <4> QED BY <1>3, <1>5, <4>1
    <3> QED BY <1>3, <1>5, <1>6, <1>8, <3>1 DEF Linked
  <2>3. ASSUME NEW s \in 0 .. n
        PROVE  low[c] < y.key[s] /\ AtMost(low, lev, c, y.key[s]) /\ Inserted(y.key[s])'
    <3>1. CASE y.key[s] = k
      BY <1>3, <1>10, <3>1
    <3>2. CASE y.key[s] # k
      <4>1. PICK r \in 0 .. n - 1 : y.key[s] = x.key[r]
        BY <1>9, <3>2
      <4>2. PICK b : b = x.key[r] /\ low[c] < b /\ AtMost(low, lev, c, b) /\ Inserted(b)
        BY <1>4, <1>5
      <4>3. Inserted(b)'
        BY <1>1, <4>2, InsertedKept, RangesGive
      <4> QED BY <4>1, <4>2, <4>3
    <3> QED BY <3>1, <3>2
  <2>4. LeafKeys(low, lev, c)'
    <3>1. node'[c].nkey - 1 = n /\ node'[c].key = y.key
      BY <1>5, <1>6, <1>8
    <3>2. \A a, b \in 0 .. n : a < b => y.key[a] < y.key[b]
      <4>1. (n + 1) - 1 = n
        BY <1>5
      <4> QED BY <1>9, <4>1 DEF Rising
    <3>3. (\A s \in 0 .. node[c].nkey - 1 :
              /\ low[c] < node[c].key[s]
              /\ AtMost(low, lev, c, node[c].key[s])
              /\ Inserted(node[c].key[s]))'
      BY <2>3, <3>1 DEF Inserted
    <3>4. (\A a, b \in 0 .. node[c].nkey - 1 : a < b => node[c].key[a] < node[c].key[b])'
      BY <3>1, <3>2
    <3> QED BY <3>3, <3>4 DEF LeafKeys
  <2>5. node'[c].isLeaf
    BY <1>3, <1>5, <1>6, <1>8
  <2> QED BY <2>1, <2>2, <2>4, <2>5 DEF NodeRange
<1>12. Placed(low, lev)'
  <2>1. Placed(low, lev)
    BY DEF Ranges
  <2>2. ASSUME NEW u \in Threads, pc[u] = "publish" PROVE pc'[u] = "publish"
    <3>1. u # t
      BY <1>0, <2>2
    <3> QED BY <1>1, <2>2, <3>1, OthersSame
  <2>3. NewRoot' = NewRoot
    <3>1. Root \in DOMAIN node
      BY RootIsNode DEF TreeInv
    <3> QED BY <1>0, <1>5, <1>6, <1>8, <3>1 DEF NewRoot
  <2> QED BY <1>0, <1>7, <2>1, <2>2, <2>3 DEF Placed
<1>13. ThreadRange(low, lev, t)'
  BY <1>1 DEF ThreadRange, Linking, Unlinked, Splitting
<1>14. \A p \in DOMAIN node' \ {c} : p \in DOMAIN node /\ p # c /\ node'[p] = node[p]
  BY <1>1, <1>7, <1>8
<1>15. \A p \in DOMAIN node : ~node[p].isLeaf => node'[p] = node[p]
  BY <1>3, <1>8
<1>16. \A u \in Threads \ {t} : Splitting(u) =>
               \A p \in DOMAIN node' : node'[p].parent = rc[u] => (p \in DOMAIN node /\ node[p].parent = rc[u])
  BY <1>5, <1>6, <1>7
<1>17. \A u \in Threads \ {t} :
               /\ InTransit(u) => Half(u) # c
               /\ \A j \in DOMAIN stores[u] : stores[u][j].to # c
               /\ Splitting(u) => rc[u] # c
  BY <1>3, HeldIsOwn
<1>18. Refines(low, lev, low, lev, c)
  BY RefinesSame
<1>19. PICK S : S = {c}
  OBVIOUS
<1>20. \A p \in DOMAIN node' : p \in S => NodeRange(low, lev, p)'
  BY <1>11, <1>19
<1>21. pc'[t] \notin {"lockparent", "parent", "split"} /\ DOMAIN node \subseteq DOMAIN node'
  BY <1>1, <1>7
<1>22. Spares(t, S, c, low, lev)
  BY <1>1, <1>14, <1>19 DEF Spares
<1>23. \A p \in DOMAIN node : ~node[p].isLeaf =>
               /\ node'[p].key = node[p].key /\ node'[p].chi = node[p].chi
               /\ node'[p].right_link = node[p].right_link
  BY <1>15
<1>24. \A u \in Threads \ {t} : Splitting(u) =>
               \A p \in DOMAIN node' : node'[p].parent = rc[u] =>
                   (p \in DOMAIN node /\ node[p].parent = rc[u]) \/ Below(low, lev, rc[u], low[p])
  BY <1>16
<1> QED BY <1>1, <1>12, <1>13, <1>17, <1>18, <1>20, <1>21, <1>22, <1>23, <1>24, ChangeRanges

\* What is below the right neighbours of a child of r, is below those of r, if
\* r has none with the child to the left of it.
LEMMA BelowAbove ==
    ASSUME TreeInv, NEW low, NEW lev, Ranges(low, lev), NEW r, NEW c \in DOMAIN node,
           Under(low, lev, r, c), Below(low, lev, r, low[c]), NEW k \in Int, Below(low, lev, c, k)
    PROVE  Below(low, lev, r, k)
<1>1. r \in DOMAIN node /\ lev[r] = lev[c] + 1 /\ lev[c] \in Nat /\ low[c] \in Nat
  BY RangesGive DEF Under
<1>2. ASSUME NEW q \in DOMAIN node, Right(low, lev, r, q) PROVE k < low[q]
  <2>1. lev[q] = lev[c] + 1 /\ low[c] < low[q]
    BY <1>1, <1>2, RangesGive DEF Right, Below
  <2>2. NodeRange(low, lev, q) /\ ~node[q].isLeaf
    BY <1>1, <2>1, RangesGive DEF NodeRange, Pointing
  <2>3. PICK d : d = node[q].chi[0] /\ d # NULL /\ low[d] = low[q] /\ Under(low, lev, q, d)
    <3>1. Readable(low, lev, q) /\ Pointing(low, lev, q) /\ 0 \in ChiSlots
      BY <2>2, Halves DEF NodeRange
    <3> QED BY <2>2, <3>1 DEF Readable, Pointing
  <2>4. d \in DOMAIN node /\ lev[d] \in Nat /\ lev[d] = lev[c]
    BY <1>1, <2>1, <2>3, RangesGive DEF Under
  <2>5. Right(low, lev, c, d)
    BY <2>1, <2>3, <2>4, RangesGive DEF Right
  <2> QED BY <2>3, <2>4, <2>5, RangesGive DEF Below
<1> QED BY <1>2, RangesGive DEF Below

\* The key that t has just inserted.
LEMMA InsertedNow ==
    ASSUME TypeOK, NEW t \in Threads, i[t] \in 1 .. range, UNCHANGED <<Key_vector, i>>,
           pc'[t] \in Climbing
    PROVE  Inserted(Key(t))'
<1>1. PICK j : j = i[t] /\ j \in 1 .. range
  OBVIOUS
<1>2. range' = range /\ (Key(t) = KeyOf(t, j))' /\ (j = i[t] /\ pc[t] \in Climbing)'
  BY <1>1 DEF range, Key, KeyOf, Climbing
<1> QED BY <1>1, <1>2 DEF Inserted

LEMMA SplitLeafRanges ==
    ASSUME TreeInv, NEW low, NEW lev, Ranges(low, lev), NEW t \in Threads, SplitLeaf(t)
    PROVE  \E low2, lev2 : Ranges(low2, lev2)'
<1>0. /\ pc[t] = "leaf" /\ stores[t] = <<>> /\ ~MustGoRight(cur[t], Key(t))
      /\ UNCHANGED <<Key_vector, Root, i, nkey, kid, cur, stores>>
  BY DEF SplitLeaf, At
<1>1. PICK c, k : c = cur[t] /\ k = Key(t)
  OBVIOUS
<1>2. /\ c \in DOMAIN node /\ node[c].isLeaf /\ Holds(t, c) /\ k \in Nat /\ low[c] < k
      /\ i[t] \in 1 .. range
      /\ AtMost(low, lev, c, k)
      /\ IsNext(low, lev, c, node[c].right_link) /\ IsHigh(low, lev, c, node[c].high_key)
      /\ Rising(node[c].key, node[c].nkey)
      /\ Pointing(low, lev, c)
      /\ \A u \in Threads \ {t} : Splitting(u) => rc[u] # c
      /\ \A field : ~Pending(c, field)
  BY <1>0, <1>1, LeafTakes
<1>3. \A s \in 0 .. node[c].nkey - 1 :
          /\ node[c].key[s] \in Nat /\ node[c].key[s] # k /\ low[c] < node[c].key[s]
          /\ AtMost(low, lev, c, node[c].key[s]) /\ Inserted(node[c].key[s])
  BY <1>0, <1>1, LeafTakes
<1>4. PICK x, right, f : /\ x \in NodeType /\ x = node[c] /\ x.nkey = N - 1
                         /\ right = Len(node) + 1 /\ f = TempKey(x, k)
  BY <1>1, <1>2, NodeFields, RangesGive DEF SplitLeaf
<1>5. /\ Alone(t) /\ pc'[t] = "up" /\ lc'[t] = c /\ rc'[t] = right /\ lm_key'[t] = f[H - 1]
      /\ stores'[t] = <<>>
  BY <1>0, <1>1, <1>4 DEF TreeInv, TypeOK, SplitLeaf, Goto, Alone, Locals
<1>6. PICK y, z : /\ y.isLeaf = x.isLeaf /\ y.nkey = H /\ y.high_key = f[H - 1]
                  /\ y.right_link = right /\ y.parent = x.parent /\ y.chi = x.chi
                  /\ \A s \in 0 .. H - 1 : y.key[s] = f[s]
                  /\ z.isLeaf = TRUE /\ z.nkey = H /\ z.high_key = x.high_key
                  /\ z.right_link = x.right_link /\ z.parent = x.parent
                  /\ \A s \in 0 .. H - 1 : z.key[s] = f[s + H]
                  /\ \A s \in ChiSlots : z.chi[s] = NULL
                  /\ node' = Append([node EXCEPT ![c] = y], z)
  <2>1. PICK y, z : /\ y = LeftLeaf(x, k, right) /\ z = RightLeaf(x, k)
                    /\ node' = Append([node EXCEPT ![c] = y], z)
    BY <1>1, <1>4 DEF SplitLeaf
  <2>2. AreHalves(LeftLeaf(x, k, right), RightLeaf(x, k), x, k, right)
    BY <1>2, <1>4, LeafHalves, RangesGive
  <2>3. PICK a, b \in [Slots -> Nat] :
          /\ a = [s \in Slots |-> IF s < H THEN f[s] ELSE x.key[s]]
          /\ b = [s \in Slots |-> IF s < N - H THEN f[s + H] ELSE 0]
          /\ y = [isLeaf |-> x.isLeaf, nkey |-> H, key |-> a, chi |-> x.chi,
                  high_key |-> f[H - 1], right_link |-> right, parent |-> x.parent]
          /\ z = [isLeaf |-> TRUE, nkey |-> N - H, key |-> b,
                  chi |-> [s \in ChiSlots |-> NULL], high_key |-> x.high_key,
                  right_link |-> x.right_link, parent |-> x.parent]
    BY <1>4, <2>1, <2>2, Zenon DEF AreHalves
  <2>4. \A s \in 0 .. H - 1 : s \in Slots /\ s < H /\ s < N - H
    BY Halves
  <2>5. N - H = H
    BY Halves
  <2>6. \A s \in 0 .. H - 1 : a[s] = f[s] /\ b[s] = f[s + H]
    BY <2>3, <2>4
  <2> QED BY <2>1, <2>3, <2>5, <2>6
<1>7. /\ DOMAIN node' = DOMAIN node \cup {right} /\ right \notin DOMAIN node /\ node'[right] = z
      /\ node'[c] = y /\ \A p \in DOMAIN node : p # c => node'[p] = node[p]
      /\ right # NULL
  <2>1. right # NULL
    BY <1>4, Addresses, Halves, RangesGive
  <2> QED BY <1>2, <1>4, <1>6, <2>1, AppendIs, RangesGive
<1>8. Proceeds(t) /\ Carries(t)
  BY <1>0, <1>5, <1>7 DEF Proceeds, Carries, Climbing, TypeOK
<1>9. Inserts(f, x.key, N - 1, SlotOf(x, k), k)
  BY <1>2, <1>3, <1>4, NewKeysRise, RangesGive
<1>10. ASSUME NEW s \in 0 .. N - 1
       PROVE  f[s] \in Nat /\ low[c] < f[s] /\ AtMost(low, lev, c, f[s]) /\ Inserted(f[s])'
  <2>1. f[s] \in Nat /\ (f[s] = k \/ \E r \in 0 .. (N - 1) - 1 : f[s] = x.key[r])
    BY <1>9 DEF Inserts
  <2>2. CASE f[s] = k
    <3>1. Inserted(Key(t))'
      BY <1>0, <1>2, <1>5, InsertedNow, RangesGive DEF Climbing
    <3>2. Key(t)' = k
      BY <1>0, <1>1 DEF Key, KeyOf, range
    <3> QED BY <1>2, <2>2, <3>1, <3>2 DEF Inserted
  <2>3. CASE f[s] # k
    <3>1. PICK b : b = f[s] /\ low[c] < b /\ AtMost(low, lev, c, b) /\ Inserted(b)
      BY <1>3, <1>4, <2>1, <2>3
    <3>2. Inserted(b)'
      BY <1>5, <1>8, <3>1, InsertedKept, RangesGive
    <3> QED BY <2>1, <3>1, <3>2
  <2> QED BY <2>2, <2>3
<1>11. PICK k0, low2, lev2 : /\ k0 = f[H - 1] /\ k0 \in Nat /\ low[c] < k0
                             /\ low2 = WithNew(low, right, k0) /\ lev2 = WithNew(lev, right, lev[c])
  <2>1. H - 1 \in 0 .. N - 1
    BY Halves
  <2> QED BY <1>10, <2>1
<1>12. /\ \A a, b \in 0 .. N - 1 : a < b => f[a] < f[b]
       /\ \A a \in 0 .. H - 1 : f[a] <= k0 /\ a \in 0 .. N - 1
       /\ \A a \in 0 .. H - 1 : k0 < f[a + H] /\ a + H \in 0 .. N - 1
  <2>1. \A a, b \in 0 .. N - 1 : a < b => f[a] < f[b]
    <3>1. Rising(f, (N - 1) + 1) /\ ((N - 1) + 1) - 1 = N - 1
      BY <1>9, Halves DEF Inserts
    <3> QED BY <3>1 DEF Rising
  <2>2. ASSUME NEW a \in 0 .. H - 1 PROVE f[a] <= k0 /\ a \in 0 .. N - 1
    <3>1. a \in 0 .. N - 1 /\ H - 1 \in 0 .. N - 1 /\ (a = H - 1 \/ a < H - 1)
      BY Halves
    <3>2. f[a] \in Nat
      BY <1>10, <3>1
    <3> QED BY <1>11, <2>1, <3>1, <3>2
  <2>3. ASSUME NEW a \in 0 .. H - 1 PROVE k0 < f[a + H] /\ a + H \in 0 .. N - 1
    <3>1. a + H \in 0 .. N - 1 /\ H - 1 \in 0 .. N - 1 /\ H - 1 < a + H
      BY Halves
    <3> QED BY <1>11, <2>1, <3>1
  <2> QED BY <2>1, <2>2, <2>3
<1>13. Below(low, lev, c, k0)
  <2>1. PICK b : b = f[0 + H] /\ b \in Nat /\ k0 < b /\ AtMost(low, lev, c, b)
    <3>1. 0 \in 0 .. H - 1
      BY Halves
    <3> QED BY <1>10, <1>12, <3>1
  <2>2. \A q \in DOMAIN low : low[q] \in Nat
    BY RangesGive
  <2> QED BY <1>11, <2>1, <2>2 DEF AtMost, Below
<1>14. SplitOff(low, lev, low2, lev2, DOMAIN node, c, right, k0)
  <2>1. Bounds(low, lev, DOMAIN node)
    BY RangesGive
  <2> QED BY <1>2, <1>7, <1>11, <1>13, <2>1, SplitRefines
<1>15. /\ Bounds(low2, lev2, DOMAIN node')
       /\ Refines(low, lev, low2, lev2, c)
       /\ low2[right] = k0 /\ lev2[right] = lev[c] /\ DOMAIN low2 = DOMAIN node \cup {right}
       /\ \A q \in DOMAIN node : low2[q] = low[q] /\ lev2[q] = lev[q]
       /\ IsNext(low2, lev2, c, right)
       /\ \A b \in Int : AtMost(low, lev, c, b) => AtMost(low2, lev2, right, b)
       /\ \A b \in Int : b <= k0 => AtMost(low2, lev2, c, b)
       /\ IsNext(low2, lev2, right, x.right_link)
       /\ IsHigh(low2, lev2, right, x.high_key)
       /\ IsHigh(low2, lev2, c, k0)
  <2>1. x.right_link \in DOMAIN node \cup {NULL}
    BY <1>2, <1>4, NodeFields, Addresses, RangesGive
  <2>2. DOMAIN low2 = DOMAIN node \cup {right}
    BY <1>14 DEF SplitOff, Bounds
  <2> QED BY <1>2, <1>4, <1>7, <1>14, <2>1, <2>2 DEF SplitOff
<1>16. lev[c] = 0 /\ (x.parent # NULL => Under(low, lev, x.parent, c))
  BY <1>2, <1>4 DEF Pointing
<1>17. x.parent # NULL => Under(low2, lev2, x.parent, c) /\ Under(low2, lev2, x.parent, right)
  <2>1. SUFFICES ASSUME x.parent # NULL
                 PROVE  Under(low2, lev2, x.parent, c) /\ Under(low2, lev2, x.parent, right)
    OBVIOUS
  <2>2. Under(low, lev, x.parent, c)
    BY <1>16, <2>1
  <2>3. PICK r : r = x.parent /\ r \in DOMAIN node /\ low[r] <= low[c] /\ lev[r] = lev[c] + 1
                 /\ low[r] \in Nat /\ low[c] \in Nat
    BY <1>2, <2>2, RangesGive DEF Under
  <2>4. low[r] <= k0
    BY <1>11, <2>3
  <2>5. Under(low2, lev2, r, c) /\ Under(low2, lev2, r, right)
    BY <1>2, <1>15, <2>3, <2>4 DEF Under
  <2> QED BY <2>3, <2>5
<1>18. NodeRange(low2, lev2, c)'
  <2>1. Pointing(low2, lev2, c)'
    <3>1. y.isLeaf /\ lev2[c] = 0
      BY <1>2, <1>4, <1>6, <1>15, <1>16
    <3>2. Right(low2, lev2, c, right) /\ k0 <= low2[right]
      BY <1>7, <1>11, <1>15 DEF IsNext
    <3> QED BY <1>6, <1>7, <1>11, <1>17, <3>1, <3>2 DEF Pointing
  <2>2. Linked(low2, lev2, c)'
    BY <1>6, <1>7, <1>11, <1>15 DEF Linked
  <2>3. LeafKeys(low2, lev2, c)'
    <3>1. ASSUME NEW s \in 0 .. H - 1
          PROVE  low2[c] < y.key[s] /\ AtMost(low2, lev2, c, y.key[s]) /\ Inserted(y.key[s])'
      <4>1. s \in 0 .. N - 1 /\ f[s] <= k0 /\ y.key[s] = f[s]
        BY <1>6, <1>12
      <4>2. PICK b : b = f[s] /\ b \in Nat /\ low[c] < b /\ Inserted(b)'
        BY <1>10, <4>1
      <4>3. AtMost(low2, lev2, c, b)
        BY <1>15, <4>1, <4>2
      <4> QED BY <1>2, <1>15, <4>1, <4>2, <4>3
    <3>2. \A a, b \in 0 .. H - 1 : a < b => y.key[a] < y.key[b]
      BY <1>6, <1>12
    <3>3. node'[c].nkey = H /\ node'[c].key = y.key
      BY <1>6, <1>7
    <3>4. (\A s \in 0 .. node[c].nkey - 1 :
              /\ low2[c] < node[c].key[s]
              /\ AtMost(low2, lev2, c, node[c].key[s])
              /\ Inserted(node[c].key[s]))'
      BY <3>1, <3>3 DEF Inserted
    <3>5. (\A a, b \in 0 .. node[c].nkey - 1 : a < b => node[c].key[a] < node[c].key[b])'
      BY <3>2, <3>3
    <3> QED BY <3>4, <3>5 DEF LeafKeys
  <2>4. node'[c].isLeaf
    BY <1>2, <1>4, <1>6, <1>7
  <2> QED BY <2>1, <2>2, <2>3, <2>4 DEF NodeRange
<1>19. NodeRange(low2, lev2, right)'
  <2>1. Pointing(low2, lev2, right)'
    <3>1. z.isLeaf /\ lev2[right] = 0
      BY <1>6, <1>15, <1>16
    <3>2. x.right_link # NULL => /\ Right(low2, lev2, right, x.right_link)
                                /\ x.high_key <= low2[x.right_link]
      <4>1. ASSUME x.right_link # NULL
            PROVE  Right(low2, lev2, right, x.right_link) /\ x.high_key <= low2[x.right_link]
        <5>1. x.right_link \in DOMAIN node
          BY <1>2, <1>4, <4>1, NodeFields, Addresses, RangesGive
        <5>2. x.high_key <= low[x.right_link]
          BY <1>2, <1>4, <4>1 DEF Pointing
        <5> QED BY <1>15, <4>1, <5>1, <5>2 DEF IsNext
      <4> QED BY <4>1
    <3> QED BY <1>6, <1>7, <1>17, <3>1, <3>2 DEF Pointing
  <2>2. Linked(low2, lev2, right)'
    BY <1>6, <1>7, <1>15 DEF Linked
  <2>3. LeafKeys(low2, lev2, right)'
    <3>1. ASSUME NEW s \in 0 .. H - 1
          PROVE  low2[right] < z.key[s] /\ AtMost(low2, lev2, right, z.key[s]) /\ Inserted(z.key[s])'
      <4>1. s + H \in 0 .. N - 1 /\ k0 < f[s + H] /\ z.key[s] = f[s + H]
        BY <1>6, <1>12
      <4>2. PICK b : b = f[s + H] /\ b \in Nat /\ AtMost(low, lev, c, b) /\ Inserted(b)'
        BY <1>10, <4>1
      <4>3. AtMost(low2, lev2, right, b)
        BY <1>15, <4>2
      <4> QED BY <1>15, <4>1, <4>2, <4>3
    <3>2. \A a, b \in 0 .. H - 1 : a < b => z.key[a] < z.key[b]
      <4>1. ASSUME NEW a \in 0 .. H - 1, NEW b \in 0 .. H - 1, a < b PROVE z.key[a] < z.key[b]
        <5>1. a + H < b + H
          BY <4>1, Halves
        <5> QED BY <1>6, <1>12, <5>1
      <4> QED BY <4>1
    <3>3. node'[right].nkey = H /\ node'[right].key = z.key
      BY <1>6, <1>7
    <3>4. (\A s \in 0 .. node[right].nkey - 1 :
              /\ low2[right] < node[right].key[s]
              /\ AtMost(low2, lev2, right, node[right].key[s])
              /\ Inserted(node[right].key[s]))'
      BY <3>1, <3>3 DEF Inserted
    <3>5. (\A a, b \in 0 .. node[right].nkey - 1 : a < b => node[right].key[a] < node[right].key[b])'
      BY <3>2, <3>3
    <3> QED BY <3>4, <3>5 DEF LeafKeys
  <2>4. node'[right].isLeaf
    BY <1>6, <1>7
  <2> QED BY <2>1, <2>2, <2>3, <2>4 DEF NodeRange
<1>20. Placed(low2, lev2)'
  <2>1. Placed(low, lev) /\ Root \in DOMAIN node
    BY RootIsNode, RangesGive DEF Ranges
  <2>2. ASSUME NEW u \in Threads, pc[u] = "publish" PROVE pc'[u] = "publish"
    <3>1. u # t
      BY <1>0, <2>2
    <3> QED BY <1>5, <2>2, <3>1, OthersSame
  <2>3. NewRoot' = NewRoot
    BY <1>0, <1>4, <1>6, <1>7, <2>1 DEF NewRoot
  <2>4. lev2[right] <= lev2[Root]
    <3>1. lev[Root] \in Nat
      BY <2>1, RangesGive
    <3> QED BY <1>15, <1>16, <2>1, <3>1
  <2>5. ASSUME NEW p \in DOMAIN node'
        PROVE  lev2[p] <= lev2[Root] \/ \E u \in Threads : pc'[u] = "publish" /\ p = NewRoot
    <3>1. CASE p = right
      BY <2>4, <3>1
    <3>2. CASE p \in DOMAIN node
      BY <1>15, <2>1, <2>2, <3>2 DEF Placed
    <3> QED BY <1>7, <3>1, <3>2
  <2>6. low2[Root] = 0 /\ Root' = Root
    BY <1>0, <1>15, <2>1 DEF Placed
  <2> QED BY <1>15, <2>3, <2>5, <2>6 DEF Placed
<1>21. ThreadRange(low2, lev2, t)'
  <2>1. Way(low2, lev2, t)'
    <3>1. Half(t)' = c
      BY <1>5 DEF Half
    <3>2. (InTransit(t) => IsNext(low2, lev2, Half(t), rc[t]))'
      BY <1>5, <1>15, <3>1
    <3>3. (lm_key[t] = low2[rc[t]])'
      BY <1>5, <1>11, <1>15
    <3> QED BY <1>5, <3>2, <3>3 DEF Way
  <2> QED BY <1>5, <2>1 DEF ThreadRange, Linking, Unlinked, Splitting
<1>22. ASSUME NEW u \in Threads \ {t}, Splitting(u), NEW p \in DOMAIN node', node'[p].parent = rc[u]
       PROVE  (p \in DOMAIN node /\ node[p].parent = rc[u]) \/ Below(low2, lev2, rc[u], low2[p])
  <2>1. CASE p # right
    BY <1>4, <1>6, <1>7, <1>22, <2>1
  <2>2. CASE p = right
    <3>1. PICK r : r = rc[u] /\ r = x.parent /\ r # NULL /\ r \in DOMAIN node /\ r # c
      BY <1>2, <1>6, <1>7, <1>22, <2>2, RangesGive, Addresses DEF Splitting, PlaceInv, Internal
    <3>2. Unlinked(low, lev, u)
      BY RangesGive DEF ThreadRange
    <3>3. Below(low, lev, r, low[c]) /\ Under(low, lev, r, c)
      BY <1>2, <1>4, <1>16, <1>22, <3>1, <3>2 DEF Unlinked
    <3>4. Below(low, lev, r, k0)
      BY <1>2, <1>11, <1>13, <3>3, BelowAbove
    <3>5. Below(low2, lev2, r, k0)
      <4>1. DOMAIN low = DOMAIN node
        BY RangesGive
      <4> QED BY <1>11, <1>15, <3>1, <3>4, <4>1 DEF Refines
    <3> QED BY <1>15, <2>2, <3>1, <3>5
  <2> QED BY <2>1, <2>2
<1>23. \A u \in Threads \ {t} :
               /\ InTransit(u) => Half(u) # c
               /\ \A j \in DOMAIN stores[u] : stores[u][j].to # c
               /\ Splitting(u) => rc[u] # c
  BY <1>2, HeldIsOwn
<1>24. PICK S : S = {c, right}
  OBVIOUS
<1>25. \A p \in DOMAIN node' : p \in S => NodeRange(low2, lev2, p)'
  BY <1>18, <1>19, <1>24
<1>26. pc'[t] \notin {"lockparent", "parent", "split"} /\ DOMAIN node \subseteq DOMAIN node'
  BY <1>5, <1>7
<1>27. Spares(t, S, c, low2, lev2)
  BY <1>5, <1>7, <1>24 DEF Spares
<1>28. \A p \in DOMAIN node : ~node[p].isLeaf =>
               /\ node'[p].key = node[p].key /\ node'[p].chi = node[p].chi
               /\ node'[p].right_link = node[p].right_link
  BY <1>2, <1>7
<1>29. \A u \in Threads \ {t} : Splitting(u) =>
               \A p \in DOMAIN node' : node'[p].parent = rc[u] =>
                   (p \in DOMAIN node /\ node[p].parent = rc[u]) \/ Below(low2, lev2, rc[u], low2[p])
  BY <1>22
<1>30. Ranges(low2, lev2)'
  BY <1>5, <1>8, <1>15, <1>20, <1>21, <1>23, <1>25, <1>26, <1>27, <1>28, <1>29, ChangeRanges
<1> QED BY <1>30

LEMMA GrowRootRanges ==
    ASSUME TreeInv, ParentInv, ~early, NEW low, NEW lev, Ranges(low, lev), NEW t \in Threads, GrowRoot(t)
    PROVE  \E low2, lev2 : Ranges(low2, lev2)'
<1>0. /\ pc[t] = "up" /\ lc[t] = Root /\ rc[t] \in DOMAIN node /\ stores[t] = <<>>
      /\ pc' = [pc EXCEPT ![t] = "publish"]
      /\ UNCHANGED <<Key_vector, Root, i, cur, nkey, kid, lc, rc, lm_key, stores>>
  BY DEF TreeInv, PlaceInv, GrowRoot, At, Goto, Climbing
<1>1. PICK r, k, new, z : /\ IsGrown(t, new, z) /\ r = rc[t] /\ k = lm_key[t]
  BY GrowRootIs
<1>2. PICK key, chi : /\ z = [isLeaf |-> FALSE, nkey |-> 1, key |-> key, chi |-> chi,
                              high_key |-> 0, right_link |-> NULL, parent |-> NULL]
                      /\ key = [s \in Slots |-> IF s = 0 THEN k ELSE 0]
                      /\ chi = [s \in ChiSlots |-> IF s = 0 THEN Root ELSE IF s = 1 THEN r ELSE NULL]
                      /\ 0 \in Slots /\ 0 \in ChiSlots /\ 1 \in ChiSlots
  <2>1. IsNewRoot(z, k, Root, r)
    BY <1>0, <1>1 DEF IsGrown
  <2> QED BY <2>1 DEF IsNewRoot
<1>3. /\ DOMAIN node' = DOMAIN node \cup {new} /\ new \notin DOMAIN node /\ new # NULL
      /\ node'[new] = z
      /\ \A p \in DOMAIN node :
           node'[p] = IF p \in {Root, r} THEN [node[p] EXCEPT !.parent = new] ELSE node[p]
  BY <1>0, <1>1 DEF IsGrown
<1>4. ASSUME NEW p \in DOMAIN node
      PROVE  /\ node'[p].isLeaf = node[p].isLeaf /\ node'[p].key = node[p].key
             /\ node'[p].chi = node[p].chi /\ node'[p].nkey = node[p].nkey
             /\ node'[p].right_link = node[p].right_link /\ node'[p].high_key = node[p].high_key
             /\ node'[p].parent = IF p \in {Root, r} THEN new ELSE node[p].parent
  <2>1. LET y == [node[p] EXCEPT !.parent = new]
        IN  /\ y.isLeaf = node[p].isLeaf /\ y.key = node[p].key
            /\ y.chi = node[p].chi /\ y.nkey = node[p].nkey
            /\ y.right_link = node[p].right_link /\ y.high_key = node[p].high_key
            /\ y.parent = new
    <3>1. node[p] \in NodeType
      BY NodeFields DEF TreeInv
    <3> QED BY <3>1 DEF NodeType
  <2> QED BY <1>3, <2>1
<1>5. /\ Root \in DOMAIN node /\ Root # NULL /\ NULL \notin DOMAIN node /\ Root' = Root
      /\ Alone(t) /\ pc'[t] = "publish" /\ stores'[t] = <<>>
  <2>1. TypeOK
    BY DEF TreeInv
  <2>2. pc'[t] = "publish" /\ \A u \in Threads \ {t} : pc'[u] = pc[u]
    BY <1>0, <2>1 DEF TypeOK
  <2>3. Alone(t)
    BY <1>0, <2>2 DEF Alone, Locals
  <2> QED BY <1>0, <2>1, <2>2, <2>3, RootIsNode, Addresses
<1>6. Proceeds(t) /\ Carries(t)
  BY <1>0, <1>5 DEF Proceeds, Carries, Climbing, InTransit
<1>7. /\ Bounds(low, lev, DOMAIN node) /\ DOMAIN low = DOMAIN node
      /\ low[Root] = 0 /\ lev[Root] \in Nat
      /\ lev[r] = lev[Root] /\ k = low[r] /\ k \in Nat /\ 0 < k
  <2>1. Bounds(low, lev, DOMAIN node) /\ low[Root] = 0
    BY DEF Ranges, Placed
  <2>2. IsNext(low, lev, Root, r) /\ k = low[r]
    <3>1. Way(low, lev, t)
      BY DEF Ranges, ThreadRange
    <3> QED BY <1>0, <1>1, <3>1 DEF Way, InTransit, Half
  <2>3. r # NULL /\ r \in DOMAIN node
    BY <1>0, <1>1, <1>5
  <2>4. Right(low, lev, Root, r)
    BY <2>2, <2>3 DEF IsNext
  <2> QED BY <1>5, <2>1, <2>2, <2>3, <2>4 DEF Bounds, Right
<1>8. ASSUME NEW u \in Threads \ {t} PROVE pc[u] # "publish"
  <2>1. Holds(t, Root) /\ Publishing
    BY <1>0 DEF Holds, ParentInv
  <2>2. pc[u] \in Climbing => lc[u] # Root
    BY <2>1, RootHeld
  <2> QED BY <2>1, <2>2 DEF Publishing, Climbing
<1>9. PICK top, low2, lev2 : /\ top = lev[Root] + 1 /\ top \in Nat /\ top # 0
                             /\ low2 = WithNew(low, new, 0) /\ lev2 = WithNew(lev, new, top)
  BY <1>7
<1>10. OnTop(low, lev, low2, lev2, DOMAIN node, new, top)
  <2>1. ASSUME NEW p \in DOMAIN node PROVE lev[p] # top
    <3>1. lev[p] <= lev[Root]
      BY <1>0, <1>8 DEF Ranges, Placed
    <3> QED BY <1>7, <1>9, <3>1 DEF Bounds
  <2> QED BY <1>3, <1>7, <1>9, <2>1, TopRefines
<1>11. /\ Bounds(low2, lev2, DOMAIN node') /\ DOMAIN low2 = DOMAIN node \cup {new}
       /\ Refines(low, lev, low2, lev2, new)
       /\ low2[new] = 0 /\ lev2[new] = top
       /\ \A p \in DOMAIN node : low2[p] = low[p] /\ lev2[p] = lev[p]
       /\ IsNext(low2, lev2, new, NULL)
       /\ \A b : Below(low2, lev2, new, b)
       /\ \A h : IsHigh(low2, lev2, new, h)
  BY <1>3, <1>10 DEF OnTop, Bounds
<1>12. Under(low2, lev2, new, Root) /\ Under(low2, lev2, new, r)
  BY <1>0, <1>1, <1>5, <1>7, <1>9, <1>11 DEF Under
<1>13. ASSUME NEW u \in Threads PROVE \A j \in DOMAIN stores[u] : stores[u][j].to \in DOMAIN node
  BY StoresGo
<1>14. NodeRange(low2, lev2, new)'
  <2>1. Pointing(low2, lev2, new)'
    BY <1>2, <1>3, <1>9, <1>11, <1>12 DEF Pointing
  <2>2. Linked(low2, lev2, new)'
    BY <1>2, <1>3, <1>11 DEF Linked
  <2>3. ~node'[new].isLeaf
    BY <1>2, <1>3
  <2>4. /\ node'[new].key = key /\ node'[new].chi = chi /\ node'[new].nkey = 1
        /\ key[0] = k /\ chi[0] = Root /\ chi[1] = r
        /\ \A s \in Slots : s # 0 => key[s] = 0
    BY <1>2, <1>3
  <2>5. \A s \in 0 .. 1 - 1 : s = 0
    OBVIOUS
  <2>6. Separators(low2, lev2, new, key, chi, 1)'
    <3>1. 1 \in 0 .. N - 1
      BY Halves
    <3>2. key \in [Slots -> Nat]
      BY <1>2, <1>7
    <3>3. \A s \in 0 .. 1 - 1 :
             low2[new] < key[s] /\ Below(low2, lev2, new, key[s]) /\ low2[chi[s + 1]] = key[s]
      <4>1. low2[new] < key[0] /\ Below(low2, lev2, new, key[0]) /\ low2[chi[0 + 1]] = key[0]
        BY <1>0, <1>1, <1>7, <1>11, <2>4
      <4> QED BY <2>5, <4>1
    <3>4. low2[chi[0]] = low2[new]
      BY <1>5, <1>7, <1>11, <2>4
    <3>5. \A s \in 0 .. 1 : chi[s] \in {Root, r}
      BY <2>4
    <3>6. ASSUME NEW u \in Threads, InTransit(u)' PROVE rc'[u] # Root /\ rc'[u] # r
      <4>1. u # t
        BY <1>5, <3>6 DEF InTransit
      <4>2. InTransit(u) /\ rc'[u] = rc[u] /\ InTransit(t)
        BY <1>0, <1>5, <3>6, <4>1, OthersSame DEF InTransit
      <4>3. rc[u] # Root
        BY DEF ParentInv, RootIsNoChild
      <4>4. rc[u] # rc[t]
        BY <4>1, <4>2 DEF Ranges, Apart
      <4> QED BY <1>1, <4>2, <4>3, <4>4
    <3>7. \A a, b \in 0 .. 1 - 1 : a < b => key[a] < key[b]
      OBVIOUS
    <3> QED BY <1>12, <3>1, <3>2, <3>3, <3>4, <3>5, <3>6, <3>7 DEF Separators
  <2>7. Larger(low2, lev2, new, key, 1)'
    <3>1. \A s \in Slots : key[s] # 0 => s = 0
      BY <2>4
    <3> QED BY <1>7, <2>4, <3>1 DEF Larger
  <2>8. Reaches(new, key, chi, 1)'
    <3>1. \A u \in Threads : \A j \in DOMAIN stores[u] : stores[u][j].to # new
      BY <1>3, <1>13
    <3> QED BY <1>0, <2>4, <3>1 DEF Reaches, Sets
  <2>9. Readable(low2, lev2, new)'
    <3>1. \A s \in Slots : key[s] # 0 => s = 0
      BY <2>4
    <3>2. low2[Root] = 0 /\ low2[r] = k /\ r # NULL
      BY <1>0, <1>1, <1>5, <1>7, <1>11
    <3>3. node'[new].chi[0 + 1] = r
      BY <2>4
    <3>4. (node[new].chi[0] # NULL /\ low2[node[new].chi[0]] = low2[new])'
      BY <1>5, <1>11, <2>4, <3>2
    <3>5. (\A s \in Slots : node[new].key[s] # 0 =>
             node[new].chi[s + 1] # NULL /\ low2[node[new].chi[s + 1]] <= node[new].key[s])'
      BY <1>7, <2>4, <3>1, <3>2, <3>3
    <3>6. (\A s \in 0 .. node[new].nkey - 1 : node[new].key[s] # 0)'
      BY <1>7, <2>4, <2>5
    <3> QED BY <3>4, <3>5, <3>6 DEF Readable
  <2>10. LeafKeys(low2, lev2, new)'
    BY <2>3 DEF LeafKeys
  <2>11. Separated(low2, lev2, new)'
    BY <2>6, <2>7, <2>8 DEF Separated
  <2> QED BY <2>1, <2>2, <2>9, <2>10, <2>11 DEF NodeRange
<1>15. Placed(low2, lev2)'
  <2>1. NewRoot' = new
    BY <1>4, <1>5 DEF NewRoot
  <2>2. ASSUME NEW p \in DOMAIN node PROVE lev2[p] <= lev2[Root]
    <3>1. lev[p] <= lev[Root]
      BY <1>0, <1>8 DEF Ranges, Placed
    <3> QED BY <1>5, <1>11, <3>1
  <2>3. ASSUME NEW p \in DOMAIN node'
        PROVE  lev2[p] <= lev2[Root] \/ \E u \in Threads : pc'[u] = "publish" /\ p = NewRoot'
    BY <1>3, <1>5, <2>1, <2>2
  <2> QED BY <1>5, <1>7, <1>11, <2>3 DEF Placed
<1>16. ThreadRange(low2, lev2, t)'
  <2>1. Way(low2, lev2, t)'
    BY <1>5 DEF Way, InTransit
  <2> QED BY <1>5, <2>1 DEF ThreadRange, Linking, Unlinked, Splitting
<1>17. ASSUME NEW u \in Threads \ {t}
       PROVE  /\ InTransit(u) => Half(u) # new
              /\ \A j \in DOMAIN stores[u] : stores[u][j].to # new
              /\ Splitting(u) => rc[u] # new /\ rc[u] \in DOMAIN node
  <2>1. PlaceInv(u)
    BY DEF TreeInv
  <2>2. InTransit(u) => Half(u) \in DOMAIN node
    BY <2>1 DEF InTransit, Half, PlaceInv, Climbing, Internal
  <2>3. Splitting(u) => rc[u] \in DOMAIN node
    BY <2>1 DEF Splitting, PlaceInv, Internal
  <2> QED BY <1>3, <1>13, <2>2, <2>3
<1>18. ASSUME NEW u \in Threads \ {t}, Splitting(u), NEW p \in DOMAIN node', node'[p].parent = rc[u]
       PROVE  p \in DOMAIN node /\ node[p].parent = rc[u]
  <2>1. rc[u] \in DOMAIN node /\ rc[u] # NULL /\ rc[u] # new
    BY <1>5, <1>17, <1>18
  <2>2. p # new
    BY <1>2, <1>3, <1>18, <2>1
  <2> QED BY <1>3, <1>4, <1>18, <2>1, <2>2
<1>19. PICK S : S = {new}
  OBVIOUS
<1>20. Spares(t, S, new, low2, lev2)
  BY <1>3, <1>4, <1>5, <1>12, <1>19 DEF Spares
<1>21. \A p \in DOMAIN node' : p \in S => NodeRange(low2, lev2, p)'
  BY <1>14, <1>19
<1>22. \A p \in DOMAIN node : ~node[p].isLeaf =>
               /\ node'[p].key = node[p].key /\ node'[p].chi = node[p].chi
               /\ node'[p].right_link = node[p].right_link
  BY <1>4
<1>23. \A u \in Threads \ {t} :
               /\ InTransit(u) => Half(u) # new
               /\ \A j \in DOMAIN stores[u] : stores[u][j].to # new
               /\ Splitting(u) => rc[u] # new
  BY <1>17
<1>24. \A u \in Threads \ {t} : Splitting(u) =>
               \A p \in DOMAIN node' : node'[p].parent = rc[u] =>
                   (p \in DOMAIN node /\ node[p].parent = rc[u]) \/ Below(low2, lev2, rc[u], low2[p])
  BY <1>18
<1>25. pc'[t] \notin {"lockparent", "parent", "split"} /\ DOMAIN node \subseteq DOMAIN node'
  BY <1>3, <1>5
<1>26. Ranges(low2, lev2)'
  BY <1>5, <1>6, <1>11, <1>15, <1>16, <1>20, <1>21, <1>22, <1>23, <1>24, <1>25, ChangeRanges
<1> QED BY <1>26

-----------------------------------------------------------------------------
(* Insertions in a parent                                                  *)

\* The keys f and children g, m keys, of the node p with the right half of t.
Widened(low, lev, p, t, f, g, m) ==
    /\ \A s \in 0 .. m - 1 :
          /\ f[s] \in Nat /\ low[p] < f[s] /\ Below(low, lev, p, f[s])
          /\ low[g[s + 1]] = f[s]
          /\ s \in Slots /\ node[p].key[s] # 0 => f[s] <= node[p].key[s]
    /\ Rising(f, m)
    /\ low[g[0]] = low[p]
    /\ \A s \in 0 .. m : Under(low, lev, p, g[s])
    /\ \A u \in Threads \ {t} : InTransit(u) => \A s \in 0 .. m : g[s] # rc[u]

\* g is f with c inserted behind slot p.
InsertsBehind(g, f, n, p, c) ==
    \A s \in 0 .. n + 1 :
        /\ s < p + 1 => g[s] = f[s] /\ s \in 0 .. n
        /\ s = p + 1 => g[s] = c
        /\ s > p + 1 => g[s] = f[s - 1] /\ s - 1 \in 0 .. n

\* The parent that t has come to is the one for its separator.
LEMMA ParentTakes ==
    ASSUME TreeInv, NEW low, NEW lev, Ranges(low, lev), NEW t \in Threads,
           stores[t] = <<>>, pc[t] = "parent", ~MustGoRight(cur[t], lm_key[t]),
           NEW p, p = cur[t], NEW k, k = lm_key[t], NEW c, c = rc[t]
    PROVE  /\ p \in DOMAIN node /\ ~node[p].isLeaf /\ Holds(t, p) /\ k \in Nat /\ low[p] < k
           /\ c \in DOMAIN node /\ low[c] = k /\ Under(low, lev, p, c)
           /\ Below(low, lev, p, k)
           /\ \A u \in Threads : \A j \in DOMAIN stores[u] :
                 stores[u][j].to = p => stores[u][j].field \notin {"key", "chi", "nkey"}
           /\ Separators(low, lev, p, node[p].key, node[p].chi, node[p].nkey)
           /\ Larger(low, lev, p, node[p].key, node[p].nkey)
           /\ \A s \in 0 .. node[p].nkey - 1 : node[p].key[s] # k
<1>1. /\ p \in DOMAIN node /\ ~node[p].isLeaf /\ Holds(t, p) /\ k \in Nat
      /\ lc[t] \in DOMAIN node /\ c \in DOMAIN node
  BY DEF TreeInv, TypeOK, PlaceInv, Internal, Climbing, Holds
<1>2. PICK l : /\ l = lc[t] /\ l \in DOMAIN node /\ IsNext(low, lev, l, c) /\ low[c] = k
               /\ Under(low, lev, p, l)
  <2>1. Way(low, lev, t) /\ cur[t] # NULL
    BY <1>1, RangesGive DEF ThreadRange
  <2> QED BY <1>1, <2>1 DEF Way, InTransit, Half
<1>3. /\ \A q \in DOMAIN node : low[q] \in Nat /\ lev[q] \in Nat
      /\ lev[c] = lev[l] /\ low[l] < k /\ lev[p] = lev[l] + 1 /\ low[p] <= low[l]
  <2>1. Right(low, lev, l, c)
    BY <1>1, <1>2, RangesGive DEF IsNext
  <2> QED BY <1>2, <2>1, RangesGive DEF Right, Under
<1>4. low[p] < k /\ Under(low, lev, p, c)
  BY <1>1, <1>2, <1>3, RangesGive DEF Under
<1>5. ASSUME NEW u \in Threads, NEW j \in DOMAIN stores[u], stores[u][j].to = p
      PROVE  stores[u][j].field \notin {"key", "chi", "nkey"}
  <2>1. u # t /\ stores[u] # <<>>
    BY <1>5
  <2>2. GoodStore(u, stores[u][j]) /\ pc[u] \in {"added", "split"}
    BY <2>1 DEF TreeInv, PlaceInv, StoreInv
  <2>3. ~Holds(u, p)
    BY <1>1, <2>1, OneHolder
  <2> QED BY <1>5, <2>2, <2>3 DEF GoodStore, Holds
<1>6. /\ Separators(low, lev, p, node[p].key, node[p].chi, node[p].nkey)
      /\ Larger(low, lev, p, node[p].key, node[p].nkey)
  <2>1. PICK f, g, n : /\ Separators(low, lev, p, f, g, n)
                       /\ Larger(low, lev, p, f, n)
                       /\ Reaches(p, f, g, n)
    BY <1>1, RangesGive DEF NodeRange, Separated
  <2>2. PICK x : x = node[p] /\ x.key \in [Slots -> Nat]
    BY <1>1, NodeFields, RangesGive
  <2>3. /\ \A s \in 0 .. n - 1 : x.key[s] = f[s]
        /\ \A s \in 0 .. n : x.chi[s] = g[s]
        /\ x.nkey = n
    <3>1. ASSUME NEW u \in Threads, NEW field \in {"key", "chi"}, NEW s, NEW v
          PROVE  ~Has(stores[u], PutAt(p, field, s, v))
      <4>1. PutAt(p, field, s, v).to = p /\ PutAt(p, field, s, v).field = field
        BY DEF PutAt
      <4> QED BY <1>5, <4>1 DEF Has
    <3>2. ASSUME NEW u \in Threads, NEW v PROVE ~Has(stores[u], Put(p, "nkey", v))
      <4>1. Put(p, "nkey", v).to = p /\ Put(p, "nkey", v).field = "nkey"
        BY DEF Put
      <4> QED BY <1>5, <4>1 DEF Has
    <3> QED BY <2>1, <2>2, <3>1, <3>2 DEF Reaches
  <2>4. n \in Nat /\ \A s \in 0 .. n - 1 : s + 1 \in 0 .. n
    <3>1. n \in 0 .. N - 1
      BY <2>1 DEF Separators
    <3> QED BY <3>1, Halves
  <2>5. Separators(low, lev, p, x.key, x.chi, n)
    <3>1. /\ n \in 0 .. N - 1
          /\ \A s \in 0 .. n - 1 :
                low[p] < f[s] /\ Below(low, lev, p, f[s]) /\ low[g[s + 1]] = f[s]
          /\ \A a, b \in 0 .. n - 1 : a < b => f[a] < f[b]
          /\ low[g[0]] = low[p]
          /\ \A s \in 0 .. n : Under(low, lev, p, g[s])
          /\ \A u \in Threads : InTransit(u) => \A s \in 0 .. n : g[s] # rc[u]
      BY <2>1 DEF Separators
    <3>2. \A s \in 0 .. n - 1 :
             low[p] < x.key[s] /\ Below(low, lev, p, x.key[s]) /\ low[x.chi[s + 1]] = x.key[s]
      BY <2>3, <2>4, <3>1
    <3>3. \A a, b \in 0 .. n - 1 : a < b => x.key[a] < x.key[b]
      BY <2>3, <3>1
    <3>4. low[x.chi[0]] = low[p]
      <4>1. 0 \in 0 .. n
        BY <2>4
      <4> QED BY <2>3, <3>1, <4>1
    <3>5. /\ \A s \in 0 .. n : Under(low, lev, p, x.chi[s])
          /\ \A u \in Threads : InTransit(u) => \A s \in 0 .. n : x.chi[s] # rc[u]
      BY <2>3, <3>1
    <3> QED BY <2>2, <3>1, <3>2, <3>3, <3>4, <3>5 DEF Separators
  <2>6. Larger(low, lev, p, x.key, n)
    <3>1. \A s \in Slots : s < n => x.key[s] = f[s]
      <4>1. \A s \in Slots : s \in Nat
        BY Halves
      <4> QED BY <2>3, <2>4, <4>1
    <3> QED BY <2>1, <3>1 DEF Larger
  <2> QED BY <2>2, <2>3, <2>5, <2>6
<1>7. ASSUME NEW q \in DOMAIN node, NEW d, Under(low, lev, q, d), InTransit(t) => d # c,
             lev[q] = lev[p]
      PROVE  low[d] # k
  <2>1. d \in DOMAIN node /\ lev[d] = lev[c]
    <3>1. d \in DOMAIN node /\ lev[q] = lev[d] + 1
      BY <1>7, RangesGive DEF Under
    <3> QED BY <1>2, <1>3, <1>7, <3>1
  <2>2. d # c
    BY <1>7 DEF InTransit
  <2> QED BY <1>1, <1>2, <2>1, <2>2, RangesGive DEF Bounds, Differ
<1>8. ASSUME NEW s \in 0 .. node[p].nkey - 1 PROVE node[p].key[s] # k
  <2>1. s + 1 \in 0 .. node[p].nkey
    <3>1. PICK n : n = node[p].nkey /\ n \in 0 .. N - 1
      BY <1>1, NodeFields, RangesGive
    <3>2. n \in Nat
      BY <3>1, Halves
    <3> QED BY <3>1, <3>2
  <2>2. PICK d : d = node[p].chi[s + 1] /\ low[d] = node[p].key[s] /\ Under(low, lev, p, d)
                 /\ (InTransit(t) => d # rc[t])
    BY <1>6, <2>1 DEF Separators
  <2> QED BY <1>1, <1>7, <2>2
<1>9. Below(low, lev, p, low[l])
  <2>1. CASE \E u \in Threads : Splitting(u) /\ rc[u] = p
    BY <1>2, <2>1, RangesGive DEF ThreadRange, Unlinked
  <2>2. CASE ~\E u \in Threads : Splitting(u) /\ rc[u] = p
    <3>1. IsNext(low, lev, p, node[p].right_link) /\ IsHigh(low, lev, p, node[p].high_key)
      BY <1>1, <2>2, HeldLinked
    <3>2. node[p].right_link \in DOMAIN node \cup {NULL} /\ node[p].high_key \in Nat
      BY <1>1, NodeFields, Addresses, RangesGive
    <3>3. node[p].right_link # NULL => k <= low[node[p].right_link]
      BY <1>1, <3>1, <3>2, RangesGive DEF MustGoRight, IsHigh
    <3>4. node[p].right_link # NULL => low[l] < low[node[p].right_link]
      BY <1>1, <1>2, <1>3, <3>2, <3>3
    <3> QED BY <1>1, <1>2, <1>3, <3>1, <3>2, <3>4, NextBelow, RangesGive
  <2> QED BY <2>1, <2>2
<1>10. ASSUME NEW q \in DOMAIN node, Right(low, lev, p, q) PROVE k < low[q]
  <2>1. low[l] < low[q] /\ lev[q] = lev[p]
    BY <1>9, <1>10, RangesGive DEF Below, Right
  <2>2. lev[q] # 0
    BY <1>2, <1>3, <2>1
  <2>3. ~node[q].isLeaf /\ Separated(low, lev, q)
    BY <2>2, RangesGive DEF NodeRange, Pointing
  <2>4. PICK f, g, n : Separators(low, lev, q, f, g, n)
    BY <2>3 DEF Separated
  <2>5. 0 \in 0 .. n
    <3>1. n \in 0 .. N - 1
      BY <2>4 DEF Separators
    <3> QED BY <3>1, Halves
  <2>6. PICK d : low[d] = low[q] /\ Under(low, lev, q, d) /\ (InTransit(t) => d # c)
    BY <2>4, <2>5 DEF Separators
  <2>7. low[d] # k
    BY <1>7, <2>1, <2>6
  <2>8. d \in DOMAIN node /\ Right(low, lev, l, d)
    BY <1>2, <1>3, <2>1, <2>6, RangesGive DEF Under, Right
  <2>9. k <= low[d]
    BY <1>2, <2>8, RangesGive DEF IsNext
  <2> QED BY <1>1, <1>3, <2>6, <2>7, <2>8, <2>9
<1>11. Below(low, lev, p, k)
  BY <1>10, RangesGive DEF Below
<1> QED BY <1>1, <1>2, <1>4, <1>5, <1>6, <1>8, <1>11

\* With the separator k and the child c inserted, the keys and children of p
\* are still within its bounds, and no larger than what p has in their slots.
LEMMA Widens ==
    ASSUME TreeInv, NEW low, NEW lev, Ranges(low, lev), NEW t \in Threads, InTransit(t),
           NEW p \in DOMAIN node, NEW k \in Nat, NEW c, c = rc[t],
           NEW n \in Nat, NEW s, NEW f, NEW g,
           Inserts(f, node[p].key, n, s, k), InsertsBehind(g, node[p].chi, n, s, c),
           Separators(low, lev, p, node[p].key, node[p].chi, n),
           Larger(low, lev, p, node[p].key, n),
           low[p] < k, Below(low, lev, p, k), low[c] = k, Under(low, lev, p, c)
    PROVE  Widened(low, lev, p, t, f, g, n + 1)
<1>1. PICK key, chi : key = node[p].key /\ chi = node[p].chi /\ key \in [Slots -> Nat]
  BY NodeFields, RangesGive
<1>2. /\ \A a \in 0 .. n - 1 : /\ key[a] \in Nat /\ low[p] < key[a] /\ Below(low, lev, p, key[a])
                               /\ low[chi[a + 1]] = key[a] /\ a \in Slots
      /\ \A a, b \in 0 .. n - 1 : a < b => key[a] < key[b]
      /\ low[chi[0]] = low[p]
      /\ \A a \in 0 .. n : Under(low, lev, p, chi[a])
      /\ \A u \in Threads : InTransit(u) => \A a \in 0 .. n : chi[a] # rc[u]
  <2>1. n \in 0 .. N - 1
    BY DEF Separators
  <2>2. \A a \in 0 .. n - 1 : a \in Slots
    BY <2>1, Halves
  <2>3. \A a \in 0 .. n - 1 : low[p] < key[a] /\ Below(low, lev, p, key[a]) /\ low[chi[a + 1]] = key[a]
    BY <1>1 DEF Separators
  <2> QED BY <1>1, <2>2, <2>3 DEF Separators
<1>3. /\ s \in 0 .. n
      /\ \A a \in 0 .. n :
          /\ a < s => f[a] = key[a] /\ f[a] < k /\ a \in 0 .. n - 1
          /\ a = s => f[a] = k
          /\ a > s => f[a] = key[a - 1] /\ f[a] > k /\ a - 1 \in 0 .. n - 1
          /\ f[a] \in Nat
      /\ Rising(f, n + 1)
  BY <1>1 DEF Inserts
<1>4. \A a \in 0 .. n + 1 :
          /\ a < s + 1 => g[a] = chi[a] /\ a \in 0 .. n
          /\ a = s + 1 => g[a] = c
          /\ a > s + 1 => g[a] = chi[a - 1] /\ a - 1 \in 0 .. n
  BY <1>1 DEF InsertsBehind
<1>5. ASSUME NEW a \in Slots, a >= n, key[a] # 0, NEW b \in Nat, Below(low, lev, p, b)
      PROVE  b < key[a]
  <2>1. ~Below(low, lev, p, key[a])
    BY <1>1, <1>5 DEF Larger
  <2>2. PICK q \in DOMAIN low : Right(low, lev, p, q) /\ ~(key[a] < low[q])
    BY <2>1 DEF Below
  <2>3. b < low[q] /\ low[q] \in Nat /\ key[a] \in Nat
    BY <1>1, <1>5, <2>2, RangesGive DEF Below
  <2> QED BY <2>2, <2>3
<1>6. ASSUME NEW a \in 0 .. n
      PROVE  /\ f[a] \in Nat /\ low[p] < f[a] /\ Below(low, lev, p, f[a])
             /\ low[g[a + 1]] = f[a]
             /\ a \in Slots /\ key[a] # 0 => f[a] <= key[a]
  <2>0. a + 1 \in 0 .. n + 1 /\ a \in Nat /\ s \in Nat
    BY <1>3
  <2>1. CASE a < s
    <3>1. a \in 0 .. n - 1 /\ f[a] = key[a]
      BY <1>3, <2>1
    <3>2. a + 1 < s + 1
      BY <2>0, <2>1
    <3>3. g[a + 1] = chi[a + 1]
      BY <1>4, <2>0, <3>2
    <3> QED BY <1>2, <3>1, <3>3
  <2>2. CASE a = s
    <3>1. f[a] = k /\ g[a + 1] = c
      BY <1>3, <1>4, <2>0, <2>2
    <3>2. ASSUME a \in Slots, key[a] # 0 PROVE k <= key[a]
      <4>1. CASE a < n
        <5>1. a \in 0 .. n - 1 /\ a + 1 \in 0 .. n /\ a + 1 > s /\ (a + 1) - 1 = a
          BY <2>0, <2>2, <4>1
        <5>2. f[a + 1] = key[a] /\ f[a + 1] > k
          BY <1>3, <5>1
        <5> QED BY <1>2, <5>1, <5>2
      <4>2. CASE a = n
        <5>1. k < key[a] /\ key[a] \in Nat
          BY <1>1, <1>5, <3>2, <4>2
        <5> QED BY <5>1
      <4> QED BY <4>1, <4>2
    <3> QED BY <3>1, <3>2
  <2>3. CASE a > s
    <3>1. f[a] = key[a - 1] /\ a - 1 \in 0 .. n - 1
      BY <1>3, <2>3
    <3>2. a + 1 > s + 1 /\ (a + 1) - 1 = a /\ (a - 1) + 1 = a
      BY <2>0, <2>3
    <3>3. g[a + 1] = chi[a]
      BY <1>4, <2>0, <3>2
    <3>4. ASSUME a \in Slots, key[a] # 0 PROVE key[a - 1] <= key[a]
      <4>1. key[a - 1] \in Nat /\ key[a] \in Nat /\ Below(low, lev, p, key[a - 1])
        BY <1>1, <1>2, <3>1, <3>4
      <4>2. CASE a < n
        <5>1. a \in 0 .. n - 1 /\ a - 1 < a
          BY <2>0, <4>2
        <5>2. key[a - 1] < key[a]
          BY <1>2, <3>1, <5>1
        <5> QED BY <4>1, <5>2
      <4>3. CASE a = n
        <5>1. key[a - 1] < key[a]
          BY <1>5, <3>4, <4>1, <4>3
        <5> QED BY <4>1, <5>1
      <4> QED BY <4>2, <4>3
    <3>5. low[chi[(a - 1) + 1]] = key[a - 1]
      BY <1>2, <3>1
    <3> QED BY <1>2, <3>1, <3>2, <3>3, <3>4, <3>5
  <2> QED BY <1>3, <2>0, <2>1, <2>2, <2>3
<1>7. low[g[0]] = low[p]
  <2>1. 0 \in 0 .. n + 1 /\ 0 < s + 1
    BY <1>3
  <2> QED BY <1>2, <1>4, <2>1
<1>8. ASSUME NEW a \in 0 .. n + 1
      PROVE  /\ Under(low, lev, p, g[a])
             /\ \A u \in Threads \ {t} : InTransit(u) => g[a] # rc[u]
  <2>1. CASE g[a] = c
    BY <2>1 DEF Ranges, Apart
  <2>2. CASE \E b \in 0 .. n : g[a] = chi[b]
    BY <1>2, <2>2
  <2>3. a < s + 1 \/ a = s + 1 \/ a > s + 1
    BY <1>3
  <2> QED BY <1>4, <2>1, <2>2, <2>3
<1>9. 0 .. (n + 1) - 1 = 0 .. n
  OBVIOUS
<1> QED BY <1>1, <1>3, <1>6, <1>7, <1>8, <1>9 DEF Widened

\* The arrays of children with one inserted.
LEMMA ChildrenInserted ==
    ASSUME NEW x, NEW n \in Nat, x.nkey = n, NEW k, NEW c, SlotOf(x, k) \in 0 .. n
    PROVE  /\ n < N - 1 => InsertsBehind(NewChildren(x, k, c), x.chi, n, SlotOf(x, k), c)
           /\ n = N - 1 => InsertsBehind(TempChi(x, k, c), x.chi, n, SlotOf(x, k), c)
<1>1. PICK s, f : s \in 0 .. n /\ s = SlotOf(x, k) /\ f = x.chi
  OBVIOUS
<1>2. ASSUME NEW dom \in SUBSET Nat, 0 .. n + 1 \subseteq dom
      PROVE  InsertsBehind(InsertAt(f, dom, n + 1, s + 1, c), f, n, s, c)
  <2>1. ASSUME NEW a \in 0 .. n + 1
        PROVE  LET g == InsertAt(f, dom, n + 1, s + 1, c) IN
               /\ a < s + 1 => g[a] = f[a] /\ a \in 0 .. n
               /\ a = s + 1 => g[a] = c
               /\ a > s + 1 => g[a] = f[a - 1] /\ a - 1 \in 0 .. n
    <3>1. PICK b, m \in Nat : b = s + 1 /\ m = n + 1
      BY <1>1
    <3>2. LET g == InsertAt(f, dom, m, b, c) IN
          /\ a < b => g[a] = f[a]
          /\ a = b => g[a] = c
          /\ a > b => g[a] = f[a - 1]
      <4>1. a \in dom /\ a \in Nat /\ a <= m
        BY <1>2, <3>1
      <4> QED BY <4>1, InsertAtIs
    <3> QED BY <1>1, <3>1, <3>2
  <2> QED BY <2>1 DEF InsertsBehind
<1>3. CASE n < N - 1
  <2>1. ChiSlots \in SUBSET Nat /\ 0 .. n + 1 \subseteq ChiSlots
    BY <1>3, Halves
  <2> QED BY <1>1, <1>2, <1>3, <2>1 DEF NewChildren
<1>4. CASE n = N - 1
  <2>1. PICK dom : dom = 0 .. N /\ dom \in SUBSET Nat /\ 0 .. n + 1 \subseteq dom /\ N = n + 1
    BY <1>4, Halves
  <2>2. TempChi(x, k, c) = InsertAt(f, dom, n + 1, s + 1, c)
    BY <1>1, <2>1 DEF TempChi
  <2> QED BY <1>1, <1>2, <1>4, <2>1, <2>2
<1> QED BY <1>3, <1>4

\* A child is stored before the key in front of it.
InOrder(q) ==
    \A j, m \in DOMAIN q :
        q[j].field = "key" /\ q[m].field = "chi" /\ q[m].slot = q[j].slot + 1 => m < j

\* The shift of the slots from top down to low: each child, then the key in
\* front of it.
IsShift(q, p, top, low, chi, key) ==
    /\ q \in Seq(Copies(p, top, low, chi, key))
    /\ Len(q) = 2 * (top - low + 1)
    /\ \A a \in low .. top :
          /\ q[2 * (top - a) + 1] = PutAt(p, "chi", a + 1, chi[a + 1])
          /\ q[2 * (top - a) + 2] = PutAt(p, "key", a, key[a])
    /\ \A j \in 1 .. Len(q) : \E a \in low .. top : j = 2 * (top - a) + 1 \/ j = 2 * (top - a) + 2

LEMMA CopyDownShifts ==
    ASSUME NEW p, NEW top \in Int, NEW low \in Nat, low <= top + 1, NEW chi, NEW key
    PROVE  IsShift(CopyDown(p, top, low, chi, key), p, top, low, chi, key)
<1> DEFINE n == 2 * (top - low + 1)
           at(j) == top - ((j - 1) \div 2)
           store(j) == IF j % 2 = 1 THEN PutAt(p, "chi", at(j) + 1, chi[at(j) + 1])
                                    ELSE PutAt(p, "key", at(j), key[at(j)])
<1>1. PICK q : q = CopyDown(p, top, low, chi, key)
  OBVIOUS
<1>2. q \in Seq(Copies(p, top, low, chi, key))
  BY <1>1, CopyDownIs DEF IsCopyDown
<1>3. q = [j \in 1 .. n |-> store(j)]
  BY <1>1 DEF CopyDown
<1>4. ASSUME NEW a \in low .. top
      PROVE  /\ 2 * (top - a) + 1 \in 1 .. n /\ at(2 * (top - a) + 1) = a
             /\ (2 * (top - a) + 1) % 2 = 1
             /\ 2 * (top - a) + 2 \in 1 .. n /\ at(2 * (top - a) + 2) = a
             /\ (2 * (top - a) + 2) % 2 = 0
  <2>1. PICK b \in Nat : b = top - a /\ b <= top - low
    OBVIOUS
  <2>2. (2 * b + 1) % 2 = 1 /\ (2 * b + 2) % 2 = 0
    OBVIOUS
  <2>3. ((2 * b + 1) - 1) \div 2 = b /\ ((2 * b + 2) - 1) \div 2 = b
    OBVIOUS
  <2> QED BY <2>1, <2>2, <2>3
<1>5. ASSUME NEW j \in 1 .. n
      PROVE  \E a \in low .. top : j = 2 * (top - a) + 1 \/ j = 2 * (top - a) + 2
  <2>1. j \in Nat /\ 1 <= j /\ j <= 2 * (top - low + 1)
    OBVIOUS
  <2>2. PICK h \in Int : h = (j - 1) \div 2
    BY <2>1
  <2>3. 2 * h <= j - 1 /\ j - 1 < 2 * h + 2
    BY <2>1, <2>2
  <2>4. PICK a \in Int : a = top - h
    BY <2>2
  <2>5. a \in low .. top /\ (j = 2 * (top - a) + 1 \/ j = 2 * (top - a) + 2)
    BY <2>1, <2>3, <2>4
  <2> QED BY <2>5
<1>6. n \in Nat
  OBVIOUS
<1> HIDE DEF n
<1>7. DOMAIN q = 1 .. n /\ \A j \in 1 .. n : q[j] = store(j)
  BY <1>3
<1>8. Len(q) = n
  BY <1>2, <1>6, <1>7
<1>9. \A a \in low .. top :
          /\ q[2 * (top - a) + 1] = PutAt(p, "chi", a + 1, chi[a + 1])
          /\ q[2 * (top - a) + 2] = PutAt(p, "key", a, key[a])
  <2> HIDE DEF at
  <2> QED BY <1>4, <1>7
<1>10. IsShift(q, p, top, low, chi, key)
  BY <1>2, <1>5, <1>8, <1>9 DEF IsShift, n
<1> QED BY <1>1, <1>10

\* What such a shift stores.
Shifts(q, p, top, low, chi, key) ==
    /\ InOrder(q)
    /\ DOMAIN q = 1 .. Len(q)
    /\ \A a \in low .. top : /\ Has(q, PutAt(p, "chi", a + 1, chi[a + 1]))
                             /\ Has(q, PutAt(p, "key", a, key[a]))
    /\ \A j \in DOMAIN q : \E a \in low .. top :
          \/ q[j] = PutAt(p, "chi", a + 1, chi[a + 1])
          \/ q[j] = PutAt(p, "key", a, key[a])

LEMMA ShiftIs ==
    ASSUME NEW p, NEW top \in Int, NEW low \in Nat, NEW chi, NEW key, NEW q,
           IsShift(q, p, top, low, chi, key)
    PROVE  Shifts(q, p, top, low, chi, key)
<1>1. /\ Len(q) \in Nat /\ DOMAIN q = 1 .. Len(q)
      /\ Len(q) = 2 * (top - low + 1)
      /\ \A a \in low .. top :
            /\ q[2 * (top - a) + 1] = PutAt(p, "chi", a + 1, chi[a + 1])
            /\ q[2 * (top - a) + 2] = PutAt(p, "key", a, key[a])
      /\ \A j \in DOMAIN q : \E a \in low .. top : j = 2 * (top - a) + 1 \/ j = 2 * (top - a) + 2
  <2>1. q \in Seq(Copies(p, top, low, chi, key))
    BY DEF IsShift
  <2>2. Len(q) \in Nat /\ DOMAIN q = 1 .. Len(q)
    BY <2>1
  <2> QED BY <2>2 DEF IsShift
<1>2. ASSUME NEW j \in DOMAIN q
      PROVE  \E a \in low .. top :
                 \/ j = 2 * (top - a) + 1 /\ q[j] = PutAt(p, "chi", a + 1, chi[a + 1])
                 \/ j = 2 * (top - a) + 2 /\ q[j] = PutAt(p, "key", a, key[a])
  BY <1>1
<1>3. ASSUME NEW j \in DOMAIN q, NEW m \in DOMAIN q,
             q[j].field = "key", q[m].field = "chi", q[m].slot = q[j].slot + 1
      PROVE  m < j
  <2>1. PICK a \in low .. top : j = 2 * (top - a) + 2 /\ q[j].slot = a
    BY <1>2, <1>3 DEF PutAt
  <2>2. PICK b \in low .. top : m = 2 * (top - b) + 1 /\ q[m].slot = b + 1
    BY <1>2, <1>3 DEF PutAt
  <2> QED BY <1>3, <2>1, <2>2
<1>4. ASSUME NEW a \in low .. top
      PROVE  /\ Has(q, PutAt(p, "chi", a + 1, chi[a + 1]))
             /\ Has(q, PutAt(p, "key", a, key[a]))
  <2>1. 2 * (top - a) + 1 \in DOMAIN q /\ 2 * (top - a) + 2 \in DOMAIN q
    BY <1>1
  <2> QED BY <1>1, <2>1 DEF Has
<1>5. InOrder(q)
  BY <1>3 DEF InOrder
<1>6. \A j \in DOMAIN q : \E a \in low .. top :
          \/ q[j] = PutAt(p, "chi", a + 1, chi[a + 1])
          \/ q[j] = PutAt(p, "key", a, key[a])
  BY <1>2
<1> QED BY <1>1, <1>4, <1>5, <1>6 DEF Shifts

\* What the queue of finalize_parent leads to.
AddsInOrder(q, p, n, s, chi, key) ==
    /\ \A a \in s .. n : /\ Has(q, PutAt(p, "chi", a + 1, chi[a + 1]))
                         /\ Has(q, PutAt(p, "key", a, key[a]))
    /\ Has(q, Put(p, "nkey", n + 1))
    /\ \A j \in DOMAIN q :
          \/ q[j] = Put(p, "nkey", n + 1)
          \/ \E a \in s .. n : \/ q[j] = PutAt(p, "chi", a + 1, chi[a + 1])
                               \/ q[j] = PutAt(p, "key", a, key[a])
    /\ InOrder(q)
    /\ \A j, m \in DOMAIN q : q[j].field = "nkey" /\ q[m].field = "key" => m < j

LEMMA AddsLast ==
    ASSUME NEW p, NEW n \in Nat, NEW s \in Nat, NEW chi, NEW key, NEW Q,
           IsShift(Q, p, n, s, chi, key), NEW q, q = Append(Q, Put(p, "nkey", n + 1))
    PROVE  AddsInOrder(q, p, n, s, chi, key)
<1>1. PICK C, b : C = Copies(p, n, s, chi, key) /\ b = Put(p, "nkey", n + 1)
  OBVIOUS
<1>a. Q \in Seq(C)
  BY <1>1 DEF IsShift
<1>2. /\ InOrder(Q) /\ DOMAIN Q = 1 .. Len(Q)
      /\ \A a \in s .. n : /\ Has(Q, PutAt(p, "chi", a + 1, chi[a + 1]))
                           /\ Has(Q, PutAt(p, "key", a, key[a]))
      /\ \A j \in DOMAIN Q : \E a \in s .. n :
            \/ Q[j] = PutAt(p, "chi", a + 1, chi[a + 1])
            \/ Q[j] = PutAt(p, "key", a, key[a])
  <2>1. Shifts(Q, p, n, s, chi, key)
    BY ShiftIs
  <2> QED BY <2>1 DEF Shifts
<1>3. PICK l \in Nat : l = Len(Q)
  BY <1>a
<1>4. /\ DOMAIN q = 1 .. l + 1 /\ q[l + 1] = b
      /\ \A j \in 1 .. l : q[j] = Q[j]
  BY <1>1, <1>a, <1>3
<1>5. /\ \A j \in DOMAIN q : j = l + 1 \/ (j \in DOMAIN Q /\ j < l + 1 /\ q[j] = Q[j])
      /\ \A j \in DOMAIN Q : j \in DOMAIN q /\ q[j] = Q[j]
      /\ l + 1 \in DOMAIN q
  BY <1>2, <1>3, <1>4
<1>6. b.field = "nkey" /\ \A a, f, v : PutAt(p, f, a, v).field = f
  BY <1>1 DEF Put, PutAt
<1>7. \A j \in DOMAIN Q : Q[j].field \in {"chi", "key"}
  BY <1>2, <1>6
<1>8. InOrder(q)
  BY <1>2, <1>4, <1>5, <1>6 DEF InOrder
<1>9. ASSUME NEW j \in DOMAIN q, NEW m \in DOMAIN q, q[j].field = "nkey", q[m].field = "key"
      PROVE  m < j
  <2>1. j = l + 1
    BY <1>5, <1>7, <1>9
  <2>2. m # l + 1
    BY <1>4, <1>6, <1>9
  <2> QED BY <1>5, <2>1, <2>2
<1>10. \A st : Has(Q, st) => Has(q, st)
  BY <1>5 DEF Has
<1>11. Has(q, b)
  BY <1>4, <1>5 DEF Has
<1>12. \A j \in DOMAIN q :
          \/ q[j] = b
          \/ \E a \in s .. n : \/ q[j] = PutAt(p, "chi", a + 1, chi[a + 1])
                               \/ q[j] = PutAt(p, "key", a, key[a])
  BY <1>2, <1>4, <1>5
<1> QED BY <1>1, <1>2, <1>8, <1>9, <1>10, <1>11, <1>12 DEF AddsInOrder

LEMMA ConcatIs ==
    ASSUME NEW S, NEW q \in Seq(S), NEW r \in Seq(S), NEW c, c = q \o r
    PROVE  /\ c \in Seq(S)
           /\ Len(q) \in Nat /\ Len(r) \in Nat /\ Len(c) = Len(q) + Len(r)
           /\ \A j \in 1 .. Len(q) : c[j] = q[j]
           /\ \A j \in 1 .. Len(r) : c[Len(q) + j] = r[j]
  OBVIOUS

\* The last slot of a shift.
LEMMA ShiftMore ==
    ASSUME NEW p, NEW n \in Nat, NEW s \in Nat, s <= n, NEW chi, NEW key, NEW A,
           IsShift(A, p, n, s + 1, chi, key)
    PROVE  IsShift(A \o <<PutAt(p, "chi", s + 1, chi[s + 1]), PutAt(p, "key", s, key[s])>>, p, n, s, chi, key)
<1>1. PICK C, B, Q : /\ C = Copies(p, n, s, chi, key)
                     /\ B = <<PutAt(p, "chi", s + 1, chi[s + 1]), PutAt(p, "key", s, key[s])>>
                     /\ Q = A \o B
  OBVIOUS
<1>2. /\ A \in Seq(Copies(p, n, s + 1, chi, key))
      /\ Len(A) = 2 * (n - (s + 1) + 1)
      /\ \A a \in s + 1 .. n :
            /\ A[2 * (n - a) + 1] = PutAt(p, "chi", a + 1, chi[a + 1])
            /\ A[2 * (n - a) + 2] = PutAt(p, "key", a, key[a])
      /\ \A j \in 1 .. Len(A) : \E a \in s + 1 .. n : j = 2 * (n - a) + 1 \/ j = 2 * (n - a) + 2
  BY DEF IsShift
<1>3. A \in Seq(C)
  <2>1. Copies(p, n, s + 1, chi, key) \subseteq C
    BY <1>1 DEF Copies
  <2> QED BY <1>2, <2>1, SeqMonotonic
<1>4. B \in Seq(C) /\ Len(B) = 2 /\ B[1] = PutAt(p, "chi", s + 1, chi[s + 1]) /\ B[2] = PutAt(p, "key", s, key[s])
  <2>1. s \in s .. n
    OBVIOUS
  <2>2. PutAt(p, "chi", s + 1, chi[s + 1]) \in C /\ PutAt(p, "key", s, key[s]) \in C
    BY <1>1, <2>1 DEF Copies
  <2> QED BY <1>1, <2>2
<1>5. PICK l \in Nat : l = Len(A) /\ l = 2 * (n - s)
  BY <1>2
<1>6. /\ Q \in Seq(C) /\ Len(Q) = l + 2
      /\ \A j \in 1 .. l : Q[j] = A[j]
      /\ Q[l + 1] = B[1] /\ Q[l + 2] = B[2]
  <2>1. Q = A \o B
    BY <1>1
  <2>2. B \in Seq(C) /\ Len(B) = 2
    BY <1>4
  <2>3. l \in Nat /\ l = Len(A)
    BY <1>5
  <2>4. /\ Q \in Seq(C) /\ Len(Q) = Len(A) + Len(B)
        /\ \A j \in 1 .. Len(A) : Q[j] = A[j]
        /\ \A j \in 1 .. Len(B) : Q[Len(A) + j] = B[j]
    <3>1. A \in Seq(C) /\ B \in Seq(C)
      BY <1>3, <2>2
    <3> QED BY <2>1, <3>1, ConcatIs
  <2>5. Q[l + 1] = B[1] /\ Q[l + 2] = B[2]
    BY <2>2, <2>3, <2>4
  <2> QED BY <2>2, <2>3, <2>4, <2>5
<1>7. ASSUME NEW a \in s .. n
      PROVE  /\ Q[2 * (n - a) + 1] = PutAt(p, "chi", a + 1, chi[a + 1])
             /\ Q[2 * (n - a) + 2] = PutAt(p, "key", a, key[a])
  <2>1. CASE a = s
    BY <1>4, <1>5, <1>6, <2>1
  <2>2. CASE a # s
    <3>1. PICK h \in Nat : h = 2 * (n - a) /\ h + 1 \in 1 .. l /\ h + 2 \in 1 .. l
      BY <1>5, <2>2
    <3>2. A[h + 1] = PutAt(p, "chi", a + 1, chi[a + 1]) /\ A[h + 2] = PutAt(p, "key", a, key[a])
      <4>1. a \in s + 1 .. n
        BY <2>2
      <4> QED BY <1>2, <3>1, <4>1
    <3> QED BY <1>6, <3>1, <3>2
  <2> QED BY <2>1, <2>2
<1>8. ASSUME NEW j \in 1 .. l + 2
      PROVE  \E a \in s .. n : j = 2 * (n - a) + 1 \/ j = 2 * (n - a) + 2
  <2>1. CASE j \in 1 .. l
    <3>1. PICK a \in s + 1 .. n : j = 2 * (n - a) + 1 \/ j = 2 * (n - a) + 2
      BY <1>2, <1>5, <2>1
    <3>2. a \in s .. n
      OBVIOUS
    <3> QED BY <3>1, <3>2
  <2>2. CASE j \notin 1 .. l
    <3>1. s \in s .. n /\ (j = 2 * (n - s) + 1 \/ j = 2 * (n - s) + 2)
      BY <1>5, <2>2
    <3> QED BY <3>1
  <2> QED BY <2>1, <2>2
<1>9. Len(Q) = 2 * (n - s + 1)
  BY <1>5, <1>6
<1>10. IsShift(Q, p, n, s, chi, key)
  BY <1>1, <1>6, <1>7, <1>8, <1>9 DEF IsShift
<1> QED BY <1>1, <1>10

LEMMA FinalizeInOrder ==
    ASSUME TypeOK, NEW p \in DOMAIN node, NEW x \in NodeType, x = node[p],
           x.nkey < N - 1, NEW c, NEW k \in Nat
    PROVE  AddsInOrder(FinalizeParent(p, c, k), p, x.nkey, SlotOf(x, k),
                       NewChildren(x, k, c), NewKeys(x, k))
<1>1. PICK n, s, key, chi :
          /\ n \in Nat /\ s \in Nat /\ n = x.nkey /\ s = SlotOf(x, k)
          /\ key = NewKeys(x, k) /\ chi = NewChildren(x, k, c)
          /\ s <= n /\ n <= N - 2
  <2>1. x.nkey \in Nat /\ x.nkey \in 0 .. N - 1 /\ SlotOf(x, k) \in 0 .. x.nkey
    BY NodeTypeIs, SlotOfType
  <2>2. x.nkey <= N - 2
    BY <2>1, Halves
  <2> QED BY <2>1, <2>2
<1>2. chi[s + 1] = c /\ key[s] = k
  <2>1. s \in Slots /\ s + 1 \in ChiSlots /\ Slots \in SUBSET Nat /\ ChiSlots \in SUBSET Nat
    BY <1>1, Halves
  <2>2. key[s] = k
    <3>1. key = InsertAt(x.key, Slots, n, s, k)
      BY <1>1 DEF NewKeys
    <3> QED BY <1>1, <2>1, <3>1 DEF InsertAt
  <2>3. chi[s + 1] = c
    <3>1. PICK a, b \in Nat : a = s + 1 /\ b = n + 1
      BY <1>1
    <3>2. chi = InsertAt(x.chi, ChiSlots, b, a, c)
      BY <1>1, <3>1 DEF NewChildren
    <3>3. InsertAt(x.chi, ChiSlots, b, a, c)[a] = c
      BY <2>1, <3>1 DEF InsertAt
    <3> QED BY <3>1, <3>2, <3>3
  <2> QED BY <2>2, <2>3
<1>3. PICK A, Q, b2, q :
          /\ A = CopyDown(p, n, s + 1, chi, key)
          /\ Q = A \o <<PutAt(p, "chi", s + 1, c), PutAt(p, "key", s, k)>>
          /\ b2 = Put(p, "nkey", n + 1)
          /\ q = A \o <<PutAt(p, "chi", s + 1, c), PutAt(p, "key", s, k), b2>>
  OBVIOUS
<1>4. q = FinalizeParent(p, c, k)
  BY <1>1, <1>3 DEF FinalizeParent, NewKeys, NewChildren
<1>5. IsShift(A, p, n, s + 1, chi, key)
  <2>1. PICK low \in Nat : low = s + 1 /\ n \in Int /\ low <= n + 1
    BY <1>1
  <2>2. IsShift(CopyDown(p, n, low, chi, key), p, n, low, chi, key)
    BY <2>1, CopyDownShifts
  <2> QED BY <1>3, <2>1, <2>2
<1>6. IsShift(Q, p, n, s, chi, key)
  <2>1. IsShift(A \o <<PutAt(p, "chi", s + 1, chi[s + 1]), PutAt(p, "key", s, key[s])>>, p, n, s, chi, key)
    BY <1>1, <1>5, ShiftMore
  <2> QED BY <1>2, <1>3, <2>1
<1>7. q = Append(Q, b2)
  <2>1. PICK C : A \in Seq(C)
    BY <1>5 DEF IsShift
  <2>2. PICK D, d1, d2 : /\ d1 = PutAt(p, "chi", s + 1, c) /\ d2 = PutAt(p, "key", s, k)
                         /\ D = C \cup {d1, d2, b2}
    OBVIOUS
  <2>3. A \in Seq(D) /\ d1 \in D /\ d2 \in D /\ b2 \in D
    <3>1. C \subseteq D
      BY <2>2
    <3> QED BY <2>1, <2>2, <3>1, SeqMonotonic
  <2>4. A \o <<d1, d2, b2>> = Append(A \o <<d1, d2>>, b2)
    BY <2>3
  <2> QED BY <1>3, <2>2, <2>4
<1>8. AddsInOrder(q, p, n, s, chi, key)
  BY <1>1, <1>3, <1>6, <1>7, AddsLast
<1> QED BY <1>1, <1>4, <1>8

LEMMA AddToParentRanges ==
    ASSUME TreeInv, NEW low, NEW lev, Ranges(low, lev), NEW t \in Threads, AddToParent(t)
    PROVE  Ranges(low, lev)'
<1>0. /\ pc[t] = "parent" /\ stores[t] = <<>> /\ ~MustGoRight(cur[t], lm_key[t])
      /\ UNCHANGED <<Key_vector, Root, i, nkey, kid, cur, node, lc, rc, lm_key>>
  BY DEF AddToParent, At
<1>1. PICK p, k, c : p = cur[t] /\ k = lm_key[t] /\ c = rc[t]
  OBVIOUS
<1>2. /\ p \in DOMAIN node /\ ~node[p].isLeaf /\ Holds(t, p) /\ k \in Nat /\ low[p] < k
      /\ c \in DOMAIN node /\ low[c] = k /\ Under(low, lev, p, c)
      /\ Below(low, lev, p, k)
      /\ \A u \in Threads : \A j \in DOMAIN stores[u] :
            stores[u][j].to = p => stores[u][j].field \notin {"key", "chi", "nkey"}
      /\ Separators(low, lev, p, node[p].key, node[p].chi, node[p].nkey)
      /\ Larger(low, lev, p, node[p].key, node[p].nkey)
      /\ \A s \in 0 .. node[p].nkey - 1 : node[p].key[s] # k
  BY <1>0, <1>1, ParentTakes
<1>3. PICK x, n, s, key, chi, q :
          /\ x \in NodeType /\ x = node[p] /\ n = x.nkey /\ n \in Nat /\ n < N - 1
          /\ s = SlotOf(x, k) /\ s \in 0 .. n
          /\ key = NewKeys(x, k) /\ chi = NewChildren(x, k, c) /\ q = FinalizeParent(p, c, k)
          /\ stores' = [stores EXCEPT ![t] = q]
  <2>1. PICK x : x \in NodeType /\ x = node[p]
    BY <1>2, NodeFields, RangesGive
  <2>2. x.nkey \in Nat /\ SlotOf(x, k) \in 0 .. x.nkey
    BY <1>2, <2>1, NodeTypeIs, SlotOfType, RangesGive
  <2>3. x.nkey < N - 1 /\ stores' = [stores EXCEPT ![t] = FinalizeParent(p, c, k)]
    BY <1>1, <2>1 DEF AddToParent
  <2> QED BY <2>1, <2>2, <2>3
<1>4. /\ Alone(t) /\ pc'[t] = "added" /\ stores'[t] = q /\ Proceeds(t) /\ Carries(t)
  <2>1. pc' = [pc EXCEPT ![t] = "added"] /\ TypeOK
    BY RangesGive DEF AddToParent, Goto
  <2>2. pc'[t] = "added" /\ stores'[t] = q
    BY <1>3, <2>1 DEF TypeOK
  <2>3. Alone(t)
    BY <1>0, <1>3, <2>1 DEF Alone, TypeOK, Locals
  <2>4. Proceeds(t) /\ Carries(t)
    BY <1>0, <2>2 DEF Proceeds, Carries, Climbing, InTransit
  <2> QED BY <2>2, <2>3, <2>4
<1>5. Widened(low, lev, p, t, key, chi, n + 1)
  <2>1. Inserts(key, x.key, n, s, k)
    <3>1. Rising(x.key, x.nkey)
      BY <1>2, <1>3 DEF Separators, Rising
    <3>2. \A a \in 0 .. x.nkey - 1 : x.key[a] # k
      BY <1>2, <1>3
    <3> QED BY <1>2, <1>3, <3>1, <3>2, NewKeysRise, RangesGive
  <2>2. InsertsBehind(chi, x.chi, n, s, c)
    BY <1>3, ChildrenInserted
  <2>3. InTransit(t)
    BY <1>0 DEF InTransit
  <2> QED BY <1>1, <1>2, <1>3, <2>1, <2>2, <2>3, Widens
<1>6. AddsInOrder(q, p, n, s, chi, key)
  BY <1>2, <1>3, FinalizeInOrder, RangesGive
<1>7. /\ key \in [Slots -> Nat]
      /\ \A a \in 0 .. s - 1 : key[a] = x.key[a]
      /\ \A a \in 0 .. s : chi[a] = x.chi[a]
  <2>1. key \in [Slots -> Nat]
    BY <1>2, <1>3, NewKeysAre, RangesGive
  <2>2. ASSUME NEW a \in 0 .. s - 1 PROVE key[a] = x.key[a]
    <3>1. a \in Slots /\ Slots \in SUBSET Nat /\ a < s /\ s \in Nat
      BY <1>3, Halves
    <3>2. key = InsertAt(x.key, Slots, n, s, k)
      BY <1>3 DEF NewKeys
    <3> QED BY <3>1, <3>2 DEF InsertAt
  <2>3. ASSUME NEW a \in 0 .. s PROVE chi[a] = x.chi[a]
    <3>1. InsertsBehind(chi, x.chi, n, s, c)
      BY <1>3, ChildrenInserted
    <3>2. a \in 0 .. n + 1 /\ a < s + 1
      BY <1>3
    <3> QED BY <3>1, <3>2 DEF InsertsBehind
  <2> QED BY <2>1, <2>2, <2>3
<1>8. PICK m : m = n + 1 /\ m \in 0 .. N - 1 /\ m \in Nat
  BY <1>3, Halves
<1>9. Separators(low, lev, p, key, chi, m)'
  <2>1. \A u \in Threads : InTransit(u)' => u \in Threads \ {t} /\ InTransit(u) /\ rc'[u] = rc[u]
    <3>1. ~InTransit(t)'
      BY <1>4 DEF InTransit
    <3>2. ASSUME NEW u \in Threads \ {t} PROVE (InTransit(u)' <=> InTransit(u)) /\ rc'[u] = rc[u]
      BY <1>4, OthersSame DEF InTransit
    <3> QED BY <3>1, <3>2
  <2> QED BY <1>5, <1>7, <1>8, <2>1 DEF Widened, Separators, Rising
<1>10. Larger(low, lev, p, key, m)'
  <2>1. ASSUME NEW a \in Slots, x.key[a] # 0
        PROVE  /\ a < m => key[a] <= x.key[a]
               /\ a >= m => ~Below(low, lev, p, x.key[a])
    <3>1. a \in Nat /\ (a < m => a \in 0 .. m - 1) /\ (a >= m => a >= n)
      BY <1>3, <1>8, Halves
    <3>2. a \in 0 .. m - 1 => key[a] <= x.key[a]
      BY <1>3, <1>5, <1>8, <2>1 DEF Widened
    <3>3. a >= n => ~Below(low, lev, p, x.key[a])
      BY <1>2, <1>3, <2>1 DEF Larger
    <3> QED BY <3>1, <3>2, <3>3
  <2> QED BY <1>0, <1>3, <2>1 DEF Larger
<1>11. Reaches(p, key, chi, m)'
  <2>1. ASSUME NEW a \in 0 .. m - 1
        PROVE  x.key[a] = key[a] \/ Has(q, PutAt(p, "key", a, key[a]))
    <3>1. a \in 0 .. s - 1 \/ a \in s .. n
      BY <1>3, <1>8
    <3> QED BY <1>6, <1>7, <3>1 DEF AddsInOrder
  <2>2. ASSUME NEW a \in 0 .. m
        PROVE  x.chi[a] = chi[a] \/ Has(q, PutAt(p, "chi", a, chi[a]))
    <3>1. a \in 0 .. s \/ (a - 1 \in s .. n /\ (a - 1) + 1 = a)
      BY <1>3, <1>8
    <3>2. CASE a - 1 \in s .. n /\ (a - 1) + 1 = a
      <4>1. Has(q, PutAt(p, "chi", (a - 1) + 1, chi[(a - 1) + 1]))
        BY <1>6, <3>2 DEF AddsInOrder
      <4> QED BY <3>2, <4>1
    <3> QED BY <1>7, <3>1, <3>2
  <2>3. Has(q, Put(p, "nkey", m))
    BY <1>6, <1>8 DEF AddsInOrder
  <2>4. ASSUME NEW j \in DOMAIN q PROVE Sets(p, key, chi, m, q, j)'
    <3>1. CASE q[j] = Put(p, "nkey", n + 1)
      <4>1. q[j].field = "nkey" /\ q[j].value = m
        BY <1>8, <3>1 DEF Put
      <4>2. \A l \in DOMAIN q : q[l].field = "key" => l < j
        BY <1>6, <4>1 DEF AddsInOrder
      <4> QED BY <4>1, <4>2 DEF Sets
    <3>2. ASSUME NEW a \in s .. n, q[j] = PutAt(p, "chi", a + 1, chi[a + 1])
          PROVE  Sets(p, key, chi, m, q, j)'
      <4>1. q[j].field = "chi" /\ q[j].slot = a + 1 /\ q[j].value = chi[a + 1]
        BY <3>2 DEF PutAt
      <4>2. a + 1 \in 0 .. m
        BY <1>3, <1>8
      <4> QED BY <4>1, <4>2 DEF Sets
    <3>3. ASSUME NEW a \in s .. n, q[j] = PutAt(p, "key", a, key[a])
          PROVE  Sets(p, key, chi, m, q, j)'
      <4>1. q[j].field = "key" /\ q[j].slot = a /\ q[j].value = key[a]
        BY <3>3 DEF PutAt
      <4>2. a \in 0 .. m - 1
        BY <1>3, <1>8
      <4>3. \A l \in DOMAIN q : q[l].field = "chi" /\ q[l].slot = a + 1 => l < j
        BY <1>6, <4>1 DEF AddsInOrder, InOrder
      <4> QED BY <4>1, <4>2, <4>3 DEF Sets
    <3> QED BY <1>6, <3>1, <3>2, <3>3 DEF AddsInOrder
  <2>5. ASSUME NEW u \in Threads \ {t}, NEW j \in DOMAIN stores'[u] PROVE Sets(p, key, chi, m, stores[u], j)'
    <3>1. stores'[u] = stores[u]
      BY <1>4, OthersSame
    <3> QED BY <1>2, <2>5, <3>1 DEF Sets
  <2>6. \A u \in Threads : \A j \in DOMAIN stores'[u] : Sets(p, key, chi, m, stores[u], j)'
    <3>1. ASSUME NEW j \in DOMAIN stores'[t] PROVE Sets(p, key, chi, m, stores[t], j)'
      BY <1>4, <2>4, <3>1 DEF Sets
    <3> QED BY <2>5, <3>1
  <2>7. (\A a \in 0 .. m - 1 :
          \/ node[p].key[a] = key[a]
          \/ \E u \in Threads : Has(stores[u], PutAt(p, "key", a, key[a])))'
    BY <1>0, <1>3, <1>4, <2>1 DEF Has, PutAt
  <2>8. (\A a \in 0 .. m :
          \/ node[p].chi[a] = chi[a]
          \/ \E u \in Threads : Has(stores[u], PutAt(p, "chi", a, chi[a])))'
    BY <1>0, <1>3, <1>4, <2>2 DEF Has, PutAt
  <2>9. (\/ node[p].nkey = m
         \/ \E u \in Threads : Has(stores[u], Put(p, "nkey", m)))'
    BY <1>4, <2>3 DEF Has, Put
  <2> QED BY <2>6, <2>7, <2>8, <2>9 DEF Reaches
<1>12. NodeRange(low, lev, p)'
  <2>1. NodeRange(low, lev, p) /\ Bounds(low, lev, DOMAIN node)
    BY <1>2, RangesGive
  <2>2. Pointing(low, lev, p)'
    BY <1>0, <2>1 DEF NodeRange, Pointing
  <2>3. Linked(low, lev, p)'
    <3>1. \A field : Pending(p, field) => Pending(p, field)'
      BY <1>4, PendingKept
    <3>2. Linked(low, lev, p)
      BY <2>1 DEF NodeRange
    <3> QED BY <1>0, <3>1, <3>2 DEF Linked
  <2>4. LeafKeys(low, lev, p)'
    BY <1>0, <1>2 DEF LeafKeys
  <2>5. Separated(low, lev, p)'
    BY <1>9, <1>10, <1>11 DEF Separated
  <2>6. Readable(low, lev, p)'
    BY <1>0, <1>2, <2>1 DEF NodeRange, Readable
  <2> QED BY <2>2, <2>3, <2>4, <2>5, <2>6 DEF NodeRange
<1>13. Placed(low, lev)'
  BY <1>0, <1>4, PlacedKept DEF Ranges
<1>14. ThreadRange(low, lev, t)'
  <2>1. Linking(low, lev, t)'
    <3>1. \A j \in DOMAIN q : q[j].field \notin {"right_link", "high_key"}
      BY <1>6 DEF AddsInOrder, Put, PutAt
    <3> QED BY <1>4, <3>1 DEF Linking, LinkStore
  <2>2. Way(low, lev, t)'
    BY <1>4 DEF Way, InTransit
  <2>3. Unlinked(low, lev, t)'
    BY <1>4 DEF Unlinked, Splitting
  <2> QED BY <2>1, <2>2, <2>3 DEF ThreadRange
<1>15. Refines(low, lev, low, lev, NULL) /\ NULL \notin DOMAIN node
  BY RefinesSame, RangesGive
<1>16. \A u \in Threads \ {t} :
               /\ InTransit(u) => Half(u) # NULL
               /\ \A j \in DOMAIN stores[u] : stores[u][j].to # NULL
               /\ Splitting(u) => rc[u] # NULL
  <2>1. ASSUME NEW u \in Threads
        PROVE  /\ InTransit(u) => Half(u) \in DOMAIN node
               /\ Splitting(u) => rc[u] \in DOMAIN node
    BY RangesGive DEF InTransit, Half, Splitting, PlaceInv, Climbing, Internal
  <2> QED BY <1>15, <2>1, StoresGo
<1>17. PICK S : S = {p}
  OBVIOUS
<1>18. Spares(t, S, NULL, low, lev)
  <2>1. \A j \in DOMAIN q : q[j].to = p
    BY <1>6 DEF AddsInOrder, Put, PutAt
  <2> QED BY <1>0, <1>4, <1>15, <1>17, <2>1 DEF Spares
<1>19. \A a \in DOMAIN node' : a \in S => NodeRange(low, lev, a)'
  BY <1>12, <1>17
<1>20. \A a \in DOMAIN node : ~node[a].isLeaf =>
               /\ node'[a].key = node[a].key /\ node'[a].chi = node[a].chi
               /\ node'[a].right_link = node[a].right_link
  BY <1>0
<1>21. \A u \in Threads \ {t} : Splitting(u) =>
               \A a \in DOMAIN node' : node'[a].parent = rc[u] =>
                   (a \in DOMAIN node /\ node[a].parent = rc[u]) \/ Below(low, lev, rc[u], low[a])
  BY <1>0
<1>22. pc'[t] \notin {"lockparent", "parent", "split"} /\ DOMAIN node \subseteq DOMAIN node'
  BY <1>0, <1>4
<1> QED BY <1>4, <1>13, <1>14, <1>15, <1>16, <1>18, <1>19, <1>20, <1>21, <1>22, ChangeRanges

LEMMA SeqIn ==
    ASSUME NEW S, NEW T, NEW q \in Seq(S), \A j \in DOMAIN q : q[j] \in T
    PROVE  q \in Seq(T)
  OBVIOUS

\* Two queues, one after the other.
LEMMA JoinInOrder ==
    ASSUME NEW S, NEW P \in Seq(S), NEW R \in Seq(S), NEW q, q = P \o R, InOrder(P), InOrder(R),
           \A j \in DOMAIN P, m \in DOMAIN R :
               ~(P[j].field = "key" /\ R[m].field = "chi" /\ R[m].slot = P[j].slot + 1)
    PROVE  InOrder(q)
<1>1. PICK a, b \in Nat : /\ a = Len(P) /\ b = Len(R) /\ DOMAIN P = 1 .. a /\ DOMAIN R = 1 .. b
                          /\ DOMAIN q = 1 .. a + b
                          /\ \A j \in 1 .. a : q[j] = P[j]
                          /\ \A j \in 1 .. b : q[a + j] = R[j]
  <2>1. /\ q \in Seq(S) /\ Len(q) = Len(P) + Len(R)
        /\ \A j \in 1 .. Len(P) : q[j] = P[j]
        /\ \A j \in 1 .. Len(R) : q[Len(P) + j] = R[j]
    BY ConcatIs
  <2>2. Len(P) \in Nat /\ Len(R) \in Nat /\ DOMAIN P = 1 .. Len(P) /\ DOMAIN R = 1 .. Len(R)
    OBVIOUS
  <2>3. DOMAIN q = 1 .. Len(q)
    BY <2>1
  <2> QED BY <2>1, <2>2, <2>3
<1>2. ASSUME NEW j \in 1 .. a + b, NEW m \in 1 .. a + b,
             q[j].field = "key", q[m].field = "chi", q[m].slot = q[j].slot + 1
      PROVE  m < j
  <2>1. CASE j <= a /\ m <= a
    <3>1. j \in 1 .. a /\ m \in 1 .. a
      BY <2>1
    <3> QED BY <1>1, <1>2, <3>1 DEF InOrder
  <2>2. CASE j > a /\ m > a
    <3>1. PICK c, d \in 1 .. b : j = a + c /\ m = a + d
      <4>1. j - a \in 1 .. b /\ m - a \in 1 .. b /\ j = a + (j - a) /\ m = a + (m - a)
        BY <2>2
      <4> QED BY <4>1
    <3>2. /\ c \in DOMAIN R /\ d \in DOMAIN R
          /\ R[c].field = "key" /\ R[d].field = "chi" /\ R[d].slot = R[c].slot + 1
      BY <1>1, <1>2, <3>1
    <3>3. d < c
      BY <3>2 DEF InOrder
    <3> QED BY <3>1, <3>3
  <2>3. CASE j <= a /\ m > a
    <3>1. PICK d \in 1 .. b : m = a + d
      <4>1. m - a \in 1 .. b /\ m = a + (m - a)
        BY <2>3
      <4> QED BY <4>1
    <3>2. j \in 1 .. a
      BY <2>3
    <3>3. /\ j \in DOMAIN P /\ d \in DOMAIN R
          /\ P[j].field = "key" /\ R[d].field = "chi" /\ R[d].slot = P[j].slot + 1
      BY <1>1, <1>2, <3>1, <3>2
    <3> QED BY <3>3
  <2>4. CASE j > a /\ m <= a
    BY <2>4
  <2> QED BY <2>1, <2>2, <2>3, <2>4
<1> QED BY <1>1, <1>2 DEF InOrder

\* A high key is stored before the link of its node, which is stored once.
HighFirst(q) ==
    \A j \in DOMAIN q :
        /\ q[j].field = "high_key" =>
              /\ \E m \in DOMAIN q : q[m].field = "right_link" /\ q[m].to = q[j].to
              /\ \A m \in DOMAIN q : q[m].field = "right_link" /\ q[m].to = q[j].to => j < m
        /\ q[j].field = "right_link" =>
              \A m \in DOMAIN q : q[m].field = "right_link" /\ q[m].to = q[j].to => m = j

\* The high keys and links of two halves, at the end of a queue.
LEMMA LinksLast ==
    ASSUME NEW S, NEW P \in Seq(S), NEW a, NEW b, NEW c, NEW d, NEW q, q = P \o <<a, b, c, d>>,
           \A j \in DOMAIN P : P[j].field \notin {"high_key", "right_link"},
           a \in S, b \in S, c \in S, d \in S,
           a.field = "high_key", b.field = "right_link", c.field = "high_key", d.field = "right_link",
           a.to = b.to, c.to = d.to, a.to # c.to
    PROVE  HighFirst(q)
<1>0. PICK R : R = <<a, b, c, d>>
  OBVIOUS
<1>1. /\ R = <<a, b, c, d>> /\ R \in Seq(S) /\ Len(R) = 4
      /\ R[1] = a /\ R[2] = b /\ R[3] = c /\ R[4] = d
  BY <1>0
<1>2. PICK l \in Nat : /\ l = Len(P) /\ DOMAIN P = 1 .. l /\ DOMAIN q = 1 .. l + 4
                       /\ \A j \in 1 .. l : q[j] = P[j]
                       /\ \A j \in 1 .. 4 : q[l + j] = R[j]
  <2>1. /\ q \in Seq(S) /\ Len(q) = Len(P) + Len(R)
        /\ \A j \in 1 .. Len(P) : q[j] = P[j]
        /\ \A j \in 1 .. Len(R) : q[Len(P) + j] = R[j]
    BY <1>1, ConcatIs
  <2>2. Len(P) \in Nat /\ DOMAIN P = 1 .. Len(P) /\ DOMAIN q = 1 .. Len(q)
    BY <2>1
  <2> QED BY <1>1, <2>1, <2>2
<1>3. q[l + 1] = a /\ q[l + 2] = b /\ q[l + 3] = c /\ q[l + 4] = d
  BY <1>1, <1>2
<1>4. ASSUME NEW j \in DOMAIN q, q[j].field = "high_key"
      PROVE  j = l + 1 \/ j = l + 3
  <2>1. j \in 1 .. l \/ j = l + 1 \/ j = l + 2 \/ j = l + 3 \/ j = l + 4
    BY <1>2
  <2> QED BY <1>2, <1>3, <1>4, <2>1
<1>5. ASSUME NEW j \in DOMAIN q, q[j].field = "right_link"
      PROVE  j = l + 2 \/ j = l + 4
  <2>1. j \in 1 .. l \/ j = l + 1 \/ j = l + 2 \/ j = l + 3 \/ j = l + 4
    BY <1>2
  <2> QED BY <1>2, <1>3, <1>5, <2>1
<1>6. l + 2 \in DOMAIN q /\ l + 4 \in DOMAIN q
  BY <1>2
<1>7. ASSUME NEW j \in DOMAIN q, q[j].field = "high_key"
      PROVE  /\ \E m \in DOMAIN q : q[m].field = "right_link" /\ q[m].to = q[j].to
             /\ \A m \in DOMAIN q : q[m].field = "right_link" /\ q[m].to = q[j].to => j < m
  <2>1. CASE j = l + 1
    <3>1. q[j].to = a.to
      BY <1>3, <2>1
    <3>2. ASSUME NEW m \in DOMAIN q, q[m].field = "right_link", q[m].to = q[j].to PROVE j < m
      <4>1. m = l + 2 \/ m = l + 4
        BY <1>5, <3>2
      <4> QED BY <2>1, <4>1
    <3> QED BY <1>3, <1>6, <3>1, <3>2
  <2>2. CASE j = l + 3
    <3>1. q[j].to = c.to
      BY <1>3, <2>2
    <3>2. ASSUME NEW m \in DOMAIN q, q[m].field = "right_link", q[m].to = q[j].to PROVE j < m
      <4>1. m # l + 2
        BY <1>3, <3>1, <3>2
      <4>2. m = l + 4
        BY <1>5, <3>2, <4>1
      <4> QED BY <2>2, <4>2
    <3> QED BY <1>3, <1>6, <3>1, <3>2
  <2> QED BY <1>4, <1>7, <2>1, <2>2
<1>8. ASSUME NEW j \in DOMAIN q, q[j].field = "right_link",
             NEW m \in DOMAIN q, q[m].field = "right_link", q[m].to = q[j].to
      PROVE  m = j
  <2>1. /\ j = l + 2 \/ j = l + 4
        /\ m = l + 2 \/ m = l + 4
    BY <1>5, <1>8
  <2>2. q[l + 2].to # q[l + 4].to
    BY <1>3
  <2>3. ~(j = l + 2 /\ m = l + 4) /\ ~(j = l + 4 /\ m = l + 2)
    BY <1>8, <2>2
  <2> QED BY <2>1, <2>3, Zenon
<1>9. ASSUME NEW j \in DOMAIN q
      PROVE  /\ q[j].field = "high_key" =>
                   /\ \E m \in DOMAIN q : q[m].field = "right_link" /\ q[m].to = q[j].to
                   /\ \A m \in DOMAIN q : q[m].field = "right_link" /\ q[m].to = q[j].to => j < m
             /\ q[j].field = "right_link" =>
                   \A m \in DOMAIN q : q[m].field = "right_link" /\ q[m].to = q[j].to => m = j
  <2>1. CASE q[j].field = "high_key"
    BY <1>7, <2>1
  <2>2. CASE q[j].field = "right_link"
    BY <1>8, <2>2
  <2> QED BY <2>1, <2>2, Zenon
<1> QED BY <1>9, Zenon DEF HighFirst

\* What the queue of the split leads to, for p and for the right half.
SplitsInOrder(q, p, right, chi, key, h, r) ==
    /\ \A j \in DOMAIN q : q[j] \in SplitStores(p, right, chi, key, h, r)
    /\ \A a \in 0 .. H - 2 : Has(q, PutAt(p, "key", a, key[a]))
    /\ \A a \in 0 .. H - 1 : Has(q, PutAt(p, "chi", a, chi[a]))
    /\ Has(q, Put(p, "nkey", H - 1))
    /\ Has(q, Put(right, "high_key", h)) /\ Has(q, Put(right, "right_link", r))
    /\ Has(q, Put(p, "high_key", key[H - 1])) /\ Has(q, Put(p, "right_link", right))
    /\ InOrder(q) /\ HighFirst(q)

LEMMA SplitInOrder ==
    ASSUME NEW p, NEW c, NEW k, NEW right, right # p, NEW x, x = node[p]
    PROVE  SplitsInOrder(SplitParent(p, c, k, right), p, right, TempChi(x, k, c),
                         TempKey(x, k), x.high_key, x.right_link)
<1>1. PICK chi, key, h, r :
          /\ chi = TempChi(x, k, c) /\ key = TempKey(x, k)
          /\ h = x.high_key /\ r = x.right_link
  OBVIOUS
<1>2. PICK S : S = SplitStores(p, right, chi, key, h, r)
  OBVIOUS
<1>3. PICK A, B, C, D, F, G, g1, g2, g3, g4 :
          /\ A = [s \in 1 .. (N - H + 1) |-> Adopt(right, s - 1)]
          /\ B = <<Put(p, "nkey", H - 1)>>
          /\ C = CopyDown(p, H - 2, 0, chi, key)
          /\ D = <<PutAt(p, "chi", 0, chi[0])>>
          /\ F = [s \in 1 .. H |-> Adopt(p, s - 1)]
          /\ g1 = Put(right, "high_key", h) /\ g2 = Put(right, "right_link", r)
          /\ g3 = Put(p, "high_key", key[H - 1]) /\ g4 = Put(p, "right_link", right)
          /\ G = <<g1, g2, g3, g4>>
  OBVIOUS
<1>4. SplitParent(p, c, k, right) = A \o B \o C \o D \o F \o G
  BY <1>1, <1>3 DEF SplitParent
<1>5. A \in Seq(S) /\ (\A j \in DOMAIN A : A[j].field = "parent")
  <2>1. PICK n \in Nat : n = N - H + 1
    BY Halves
  <2>2. ASSUME NEW s \in 1 .. n PROVE Adopt(right, s - 1) \in S
    <3>1. s - 1 \in 0 .. N - H
      BY <2>1, Halves
    <3> QED BY <1>2, <3>1 DEF SplitStores
  <2>3. A = [s \in 1 .. n |-> Adopt(right, s - 1)]
    BY <1>3, <2>1
  <2> QED BY <2>2, <2>3 DEF Adopt
<1>6. /\ B \in Seq(S) /\ D \in Seq(S) /\ g1 \in S /\ g2 \in S /\ g3 \in S /\ g4 \in S
      /\ DOMAIN B = {1} /\ B[1] = Put(p, "nkey", H - 1)
      /\ DOMAIN D = {1} /\ D[1] = PutAt(p, "chi", 0, chi[0])
  <2>1. /\ Put(p, "nkey", H - 1) \in S /\ PutAt(p, "chi", 0, chi[0]) \in S
        /\ g1 \in S /\ g2 \in S /\ g3 \in S /\ g4 \in S
    BY <1>2, <1>3 DEF SplitStores
  <2> QED BY <1>3, <2>1
<1>7. /\ G \in Seq(S) /\ DOMAIN G = 1 .. 4
      /\ G[1] = g1 /\ G[2] = g2 /\ G[3] = g3 /\ G[4] = g4
      /\ g1.field = "high_key" /\ g2.field = "right_link" /\ g3.field = "high_key" /\ g4.field = "right_link"
      /\ g1.to = right /\ g2.to = right /\ g3.to = p /\ g4.to = p
  <2>1. /\ g1.field = "high_key" /\ g2.field = "right_link" /\ g3.field = "high_key" /\ g4.field = "right_link"
        /\ g1.to = right /\ g2.to = right /\ g3.to = p /\ g4.to = p
    BY <1>3 DEF Put
  <2> QED BY <1>3, <1>6, <2>1
<1>8. /\ C \in Seq(S) /\ InOrder(C)
      /\ \A a \in 0 .. H - 2 : /\ Has(C, PutAt(p, "chi", a + 1, chi[a + 1]))
                               /\ Has(C, PutAt(p, "key", a, key[a]))
      /\ \A j \in DOMAIN C : \E a \in 0 .. H - 2 :
            \/ C[j] = PutAt(p, "chi", a + 1, chi[a + 1])
            \/ C[j] = PutAt(p, "key", a, key[a])
  <2>1. PICK top \in Int, low \in Nat : top = H - 2 /\ low = 0 /\ low <= top + 1
    BY Halves
  <2>2. IsShift(C, p, top, low, chi, key)
    <3>1. IsShift(CopyDown(p, top, low, chi, key), p, top, low, chi, key)
      BY <2>1, CopyDownShifts
    <3> QED BY <1>3, <2>1, <3>1
  <2>3. C \in Seq(Copies(p, H - 2, 0, chi, key))
    BY <2>1, <2>2 DEF IsShift
  <2>4. C \in Seq(S)
    BY <1>2, <2>3, SeqMonotonic DEF SplitStores
  <2>5. /\ InOrder(C)
        /\ \A a \in low .. top : /\ Has(C, PutAt(p, "chi", a + 1, chi[a + 1]))
                                 /\ Has(C, PutAt(p, "key", a, key[a]))
        /\ \A j \in DOMAIN C : \E a \in low .. top :
              \/ C[j] = PutAt(p, "chi", a + 1, chi[a + 1])
              \/ C[j] = PutAt(p, "key", a, key[a])
    <3>1. Shifts(C, p, top, low, chi, key)
      BY <2>1, <2>2, ShiftIs
    <3> QED BY <3>1 DEF Shifts
  <2> QED BY <2>1, <2>4, <2>5
<1>9. F \in Seq(S) /\ (\A j \in DOMAIN F : F[j].field = "parent")
  <2>1. H \in Nat
    BY Halves
  <2>2. ASSUME NEW s \in 1 .. H PROVE Adopt(p, s - 1) \in S
    <3>1. s - 1 \in 0 .. H - 1
      BY <2>1
    <3> QED BY <1>2, <3>1 DEF SplitStores
  <2> QED BY <1>3, <2>1, <2>2 DEF Adopt
<1>10. PICK q1, q2, q3, q4, q5 : /\ q1 = A \o B /\ q2 = q1 \o C /\ q3 = q2 \o D
                                 /\ q4 = q3 \o F /\ q5 = q4 \o G
  OBVIOUS
<1>11. PICK T, U : /\ T = {st \in S : st.field \in {"parent", "nkey"}}
                   /\ U = {st \in S : /\ st.field \notin {"high_key", "right_link"}
                                      /\ st.field = "key" => st.slot \in Nat}
  OBVIOUS
<1>12. A \in Seq(T) /\ B \in Seq(T) /\ F \in Seq(T) /\ A \in Seq(U) /\ B \in Seq(U) /\ F \in Seq(U)
  <2>1. \A j \in DOMAIN A : A[j] \in T /\ A[j] \in U
    BY <1>5, <1>11
  <2>2. \A j \in DOMAIN F : F[j] \in T /\ F[j] \in U
    BY <1>9, <1>11
  <2>3. \A j \in DOMAIN B : B[j] \in T /\ B[j] \in U
    <3>1. B[1] \in S /\ B[1].field = "nkey"
      BY <1>6 DEF Put
    <3> QED BY <1>6, <1>11, <3>1
  <2>4. A \in Seq(T) /\ A \in Seq(U)
    BY <1>5, <2>1, SeqIn
  <2>5. F \in Seq(T) /\ F \in Seq(U)
    BY <1>9, <2>2, SeqIn
  <2>6. B \in Seq(T) /\ B \in Seq(U)
    BY <1>6, <2>3, SeqIn
  <2> QED BY <2>4, <2>5, <2>6
<1>13. C \in Seq(U) /\ D \in Seq(U)
  <2>1. ASSUME NEW j \in DOMAIN C PROVE C[j] \in U
    <3>1. C[j] \in S
      BY <1>8
    <3>2. C[j].field = "chi" \/ (C[j].field = "key" /\ C[j].slot \in Nat)
      BY <1>8 DEF PutAt
    <3> QED BY <1>11, <3>1, <3>2
  <2>2. \A j \in DOMAIN D : D[j] \in U
    <3>1. D[1].field = "chi"
      BY <1>6 DEF PutAt
    <3>2. D[1] \in S
      BY <1>6
    <3> QED BY <1>6, <1>11, <3>1, <3>2
  <2>3. C \in Seq(U)
    BY <1>8, <2>1, SeqIn
  <2> QED BY <1>6, <2>2, <2>3, SeqIn
<1>14. q1 \in Seq(T) /\ q1 \in Seq(U) /\ q2 \in Seq(U) /\ q3 \in Seq(U) /\ q4 \in Seq(U)
  <2>1. q1 \in Seq(T)
    BY <1>10, <1>12, ConcatIs
  <2>2. q1 \in Seq(U)
    BY <1>10, <1>12, ConcatIs
  <2>3. q2 \in Seq(U)
    BY <1>10, <1>13, <2>2, ConcatIs
  <2>4. q3 \in Seq(U)
    BY <1>10, <1>13, <2>3, ConcatIs
  <2>5. q4 \in Seq(U)
    BY <1>10, <1>12, <2>4, ConcatIs
  <2> QED BY <2>1, <2>2, <2>3, <2>4, <2>5
<1>15. q4 \in Seq(S) /\ q5 \in Seq(S)
  <2>1. q4 \in Seq(S)
    <3>1. U \subseteq S
      BY <1>11
    <3> QED BY <1>14, <3>1, SeqMonotonic
  <2> QED BY <1>7, <1>10, <2>1, ConcatIs
<1>16. InOrder(q1)
  <2>1. \A j \in DOMAIN q1 : q1[j] \in T
    BY <1>14
  <2> QED BY <1>11, <2>1 DEF InOrder
<1>17. InOrder(q2)
  <2>1. \A j \in DOMAIN q1 : q1[j] \in T
    BY <1>14
  <2>2. \A j \in DOMAIN q1 : q1[j].field # "key"
    BY <1>11, <2>1
  <2> QED BY <1>8, <1>10, <1>13, <1>14, <1>16, <2>2, JoinInOrder
<1>18. InOrder(q3)
  <2>1. \A j \in DOMAIN q2 : q2[j] \in U
    BY <1>14
  <2>2. \A j \in DOMAIN q2 : q2[j].field = "key" => q2[j].slot + 1 # 0
    BY <1>11, <2>1
  <2>3. \A j \in DOMAIN D : D[j].field = "chi" /\ D[j].slot = 0
    BY <1>6 DEF PutAt
  <2>4. InOrder(D)
    BY <2>3 DEF InOrder
  <2>5. \A j \in DOMAIN q2, m \in DOMAIN D :
            ~(q2[j].field = "key" /\ D[m].field = "chi" /\ D[m].slot = q2[j].slot + 1)
    BY <2>2, <2>3
  <2>6. q3 = q2 \o D /\ q2 \in Seq(U) /\ D \in Seq(U)
    BY <1>10, <1>13, <1>14
  <2> QED BY <1>17, <2>4, <2>5, <2>6, JoinInOrder
<1>19. InOrder(q4)
  <2>1. InOrder(F)
    BY <1>9 DEF InOrder
  <2> QED BY <1>9, <1>10, <1>12, <1>14, <1>18, <2>1, JoinInOrder
<1>20. InOrder(q5)
  <2>1. \A j \in DOMAIN G : G[j].field \in {"high_key", "right_link"}
    BY <1>7
  <2>2. InOrder(G)
    BY <2>1 DEF InOrder
  <2> QED BY <1>7, <1>10, <1>15, <1>19, <2>1, <2>2, JoinInOrder
<1>21. HighFirst(q5)
  <2>1. \A j \in DOMAIN q4 : q4[j] \in U
    BY <1>14
  <2>2. \A j \in DOMAIN q4 : q4[j].field \notin {"high_key", "right_link"}
    BY <1>11, <2>1
  <2>3. q5 = q4 \o <<g1, g2, g3, g4>>
    BY <1>3, <1>10
  <2>4. g1.to = g2.to /\ g3.to = g4.to /\ g1.to # g3.to /\ q4 \in Seq(S)
    BY <1>7, <1>15
  <2>5. /\ g1.field = "high_key" /\ g2.field = "right_link"
        /\ g3.field = "high_key" /\ g4.field = "right_link"
        /\ g1 \in S /\ g2 \in S /\ g3 \in S /\ g4 \in S
    BY <1>6, <1>7
  <2>6. HighFirst(q4 \o <<g1, g2, g3, g4>>)
    BY <2>2, <2>4, <2>5, LinksLast
  <2> QED BY <2>3, <2>6
<1>22. ASSUME NEW st, Has(q3, st) PROVE Has(q5, st)
  <2>1. Has(q4, st)
    BY <1>10, <1>12, <1>14, <1>22, HasConcat
  <2> QED BY <1>7, <1>10, <1>15, <2>1, HasConcat
<1>23. ASSUME NEW st, Has(q2, st) PROVE Has(q5, st)
  <2>1. Has(q3, st)
    BY <1>10, <1>13, <1>14, <1>23, HasConcat
  <2> QED BY <1>22, <2>1
<1>24. ASSUME NEW st, Has(C, st) PROVE Has(q5, st)
  <2>1. Has(q2, st)
    BY <1>10, <1>13, <1>14, <1>24, HasConcat
  <2> QED BY <1>23, <2>1
<1>25. \A a \in 0 .. H - 2 : Has(q5, PutAt(p, "key", a, key[a]))
  BY <1>8, <1>24
<1>26. ASSUME NEW a \in 0 .. H - 1 PROVE Has(q5, PutAt(p, "chi", a, chi[a]))
  <2>1. CASE a = 0
    <3>1. Has(D, PutAt(p, "chi", 0, chi[0]))
      BY <1>6 DEF Has
    <3>2. Has(q3, PutAt(p, "chi", 0, chi[0]))
      BY <1>10, <1>13, <1>14, <3>1, HasConcat
    <3> QED BY <1>22, <2>1, <3>2
  <2>2. CASE a # 0
    <3>1. PICK b : b \in 0 .. H - 2 /\ a = b + 1
      <4>1. a - 1 \in 0 .. H - 2 /\ a = (a - 1) + 1
        BY <2>2, Halves
      <4> QED BY <4>1
    <3> QED BY <1>8, <1>24, <3>1
  <2> QED BY <2>1, <2>2
<1>27. Has(q5, Put(p, "nkey", H - 1))
  <2>1. Has(B, Put(p, "nkey", H - 1))
    BY <1>6 DEF Has
  <2>2. Has(q1, Put(p, "nkey", H - 1))
    BY <1>10, <1>12, <2>1, HasConcat
  <2>3. Has(q2, Put(p, "nkey", H - 1))
    <3>1. q2 = q1 \o C /\ q1 \in Seq(U) /\ C \in Seq(U)
      BY <1>10, <1>13, <1>14
    <3> QED BY <2>2, <3>1, HasConcat
  <2> QED BY <1>23, <2>3
<1>28. Has(q5, g1) /\ Has(q5, g2) /\ Has(q5, g3) /\ Has(q5, g4)
  <2>1. Has(G, g1) /\ Has(G, g2) /\ Has(G, g3) /\ Has(G, g4)
    <3>1. 1 \in DOMAIN G /\ 2 \in DOMAIN G /\ 3 \in DOMAIN G /\ 4 \in DOMAIN G
      BY <1>7
    <3> QED BY <1>7, <3>1 DEF Has
  <2>2. \A st : Has(G, st) => Has(q5, st)
    BY <1>7, <1>10, <1>15, HasConcat
  <2> QED BY <2>1, <2>2
<1>29. \A j \in DOMAIN q5 : q5[j] \in S
  BY <1>15
<1>30. SplitsInOrder(q5, p, right, chi, key, h, r)
  BY <1>2, <1>3, <1>20, <1>21, <1>25, <1>26, <1>27, <1>28, <1>29 DEF SplitsInOrder
<1>31. SplitParent(p, c, k, right) = q5
  BY <1>4, <1>10
<1> QED BY <1>1, <1>30, <1>31

\* Where the stores of a split go.
LEMMA SplitStoreIs ==
    ASSUME NEW p, NEW right, right # p, NEW chi, NEW key, NEW h, NEW r,
           NEW st, st \in SplitStores(p, right, chi, key, h, r)
    PROVE  /\ st.to \in {p, right}
           /\ st.field = "key" => st.to = p /\ st.slot \in 0 .. H - 2 /\ st.value = key[st.slot]
           /\ st.field = "chi" => st.to = p /\ st.slot \in 0 .. H - 1 /\ st.value = chi[st.slot]
           /\ st.field = "nkey" => st.to = p /\ st.value = H - 1
           /\ st.field = "high_key" => /\ st.to = p => st.value = key[H - 1]
                                       /\ st.to = right => st.value = h
           /\ st.field = "right_link" => /\ st.to = p => st.value = right
                                         /\ st.to = right => st.value = r
<1>1. CASE \E a \in 0 .. N - H : st = Adopt(right, a)
  BY <1>1 DEF Adopt
<1>2. CASE \E a \in 0 .. H - 1 : st = Adopt(p, a)
  BY <1>2 DEF Adopt
<1>3. CASE st \in Copies(p, H - 2, 0, chi, key)
  <2>1. PICK a \in 0 .. H - 2 : st = PutAt(p, "chi", a + 1, chi[a + 1]) \/ st = PutAt(p, "key", a, key[a])
    BY <1>3 DEF Copies
  <2>2. a + 1 \in 0 .. H - 1
    BY Halves
  <2> QED BY <2>1, <2>2 DEF PutAt
<1>4. CASE st \in {PutAt(p, "chi", 0, chi[0]), Put(p, "nkey", H - 1)}
  <2>1. 0 \in 0 .. H - 1
    BY Halves
  <2> QED BY <1>4, <2>1 DEF PutAt, Put
<1>5. CASE st \in {Put(right, "high_key", h), Put(right, "right_link", r),
                   Put(p, "high_key", key[H - 1]), Put(p, "right_link", right)}
  BY <1>5 DEF Put
<1> QED BY <1>1, <1>2, <1>3, <1>4, <1>5 DEF SplitStores

\* t splits p, full of the keys f and children g, into p and right, whose
\* fields are z, and is about to store q.
IsSplit(t, p, right, q, z, f, g) ==
    /\ Alone(t) /\ Proceeds(t) /\ Carries(t)
    /\ pc'[t] = "split" /\ cur'[t] = p /\ rc'[t] = right /\ stores'[t] = q /\ Root' = Root
    /\ p \in DOMAIN node /\ right \notin DOMAIN node /\ right # NULL
    /\ DOMAIN node' = DOMAIN node \cup {right} /\ node'[right] = z
    /\ \A a \in DOMAIN node : node'[a] = node[a]
    /\ node[p].nkey = N - 1
    /\ z.isLeaf = FALSE /\ z.nkey = N - H /\ z.right_link = NULL /\ z.parent = node[p].parent
    /\ z.key \in [Slots -> Nat]
    /\ \A s \in 0 .. N - H - 1 : z.key[s] = f[s + H]
    /\ \A s \in Slots : s >= N - H => z.key[s] = 0
    /\ \A s \in 0 .. N - H : z.chi[s] = g[s + H]
    /\ \A s \in ChiSlots : s > N - H => z.chi[s] = NULL
    /\ SplitsInOrder(q, p, right, g, f, node[p].high_key, node[p].right_link)

LEMMA SplitIs ==
    ASSUME TreeInv, NEW t \in Threads, SplitInternal(t), NEW x, x = node[cur[t]],
           NEW f, f = TempKey(x, lm_key[t]), NEW g, g = TempChi(x, lm_key[t], rc[t])
    PROVE  \E right, q, z : IsSplit(t, cur[t], right, q, z, f, g)
<1>0. /\ pc[t] = "parent" /\ Internal(cur[t]) /\ cur[t] \in DOMAIN node
      /\ rc[t] \in DOMAIN node /\ stores[t] = <<>> /\ x.nkey = N - 1
      /\ stores' = [stores EXCEPT ![t] = SplitParent(cur[t], rc[t], lm_key[t], Len(node) + 1)]
      /\ rc' = [rc EXCEPT ![t] = Len(node) + 1]
      /\ pc' = [pc EXCEPT ![t] = "split"]
      /\ UNCHANGED <<Key_vector, Root, i, cur, nkey, kid, lc, lm_key>>
  BY DEF TreeInv, PlaceInv, SplitInternal, At, Goto, Climbing, Internal
<1>1. PICK p \in DOMAIN node, k \in Nat, c \in DOMAIN node :
          p = cur[t] /\ x = node[p] /\ x \in NodeType /\ k = lm_key[t] /\ c = rc[t]
  BY <1>0, NodeFields DEF TreeInv, TypeOK
<1>2. PICK right, q, z : /\ right = Len(node) + 1 /\ q = SplitParent(p, c, k, right)
                         /\ z = RightInternal(x, k, c)
  OBVIOUS
<1>3. /\ \A s \in 0 .. x.nkey : x.chi[s] # NULL
      /\ TypeOK
  BY <1>0, <1>1 DEF TreeInv, NodeInv, NodeOK, Internal
<1>4. PICK key, chi : /\ key \in [Slots -> Nat] /\ chi \in [ChiSlots -> Pointers]
                      /\ key = [s \in Slots |-> IF s < N - H THEN f[s + H] ELSE 0]
                      /\ chi = [s \in ChiSlots |-> IF s <= N - H THEN g[s + H] ELSE NULL]
                      /\ z = [isLeaf |-> FALSE, nkey |-> N - H, key |-> key, chi |-> chi,
                              high_key |-> 0, right_link |-> NULL, parent |-> x.parent]
  <2>1. TypeOK /\ x \in NodeType /\ k \in Nat /\ c \in DOMAIN node /\ x.nkey = N - 1
    BY <1>0, <1>1, <1>3
  <2>2. PICK key, chi : IsRightHalf(RightInternal(x, k, c), x, k, c, key, chi)
    BY <1>3, <2>1, RightInternalIs
  <2> QED BY <1>1, <1>2, <2>2 DEF IsRightHalf
<1>5. /\ z.isLeaf = FALSE /\ z.nkey = N - H /\ z.right_link = NULL /\ z.parent = x.parent
      /\ z.key = key /\ z.chi = chi
  <2>1. PICK no, n : no = FALSE /\ n = N - H
    OBVIOUS
  <2>2. z = [isLeaf |-> no, nkey |-> n, key |-> key, chi |-> chi,
             high_key |-> 0, right_link |-> NULL, parent |-> x.parent]
    BY <1>4, <2>1, Zenon
  <2> QED BY <2>1, <2>2
<1>6. /\ \A s \in 0 .. N - H - 1 : z.key[s] = f[s + H]
      /\ \A s \in Slots : s >= N - H => z.key[s] = 0
      /\ \A s \in 0 .. N - H : z.chi[s] = g[s + H]
      /\ \A s \in ChiSlots : s > N - H => z.chi[s] = NULL
  <2>1. \A s \in 0 .. N - H - 1 : s \in Slots /\ s < N - H
    BY Halves
  <2>2. \A s \in 0 .. N - H : s \in ChiSlots /\ s <= N - H
    BY Halves
  <2>3. /\ \A s \in Slots : s >= N - H => ~(s < N - H)
        /\ \A s \in ChiSlots : s > N - H => ~(s <= N - H)
    BY Halves
  <2>4. /\ \A s \in 0 .. N - H - 1 : key[s] = f[s + H]
        /\ \A s \in Slots : s >= N - H => key[s] = 0
    BY <1>4, <2>1, <2>3
  <2>5. /\ \A s \in 0 .. N - H : chi[s] = g[s + H]
        /\ \A s \in ChiSlots : s > N - H => chi[s] = NULL
    BY <1>4, <2>2, <2>3
  <2> QED BY <1>5, <2>4, <2>5
<1>7. /\ DOMAIN node' = DOMAIN node \cup {right} /\ right \notin DOMAIN node /\ node'[right] = z
      /\ \A a \in DOMAIN node : node'[a] = node[a]
      /\ right # NULL /\ right # p
  <2>1. node' = Append(node, z)
    BY <1>1, <1>2 DEF SplitInternal
  <2>2. node \in Seq(NodeType)
    BY <1>3 DEF TypeOK
  <2>3. /\ DOMAIN node' = 1 .. Len(node) + 1 /\ DOMAIN node = 1 .. Len(node) /\ Len(node) \in Nat
        /\ node'[Len(node) + 1] = z
        /\ \A a \in 1 .. Len(node) : node'[a] = node[a]
    BY <2>1, <2>2
  <2>4. right # NULL
    BY <1>2, <1>3, <2>3, Addresses, Halves
  <2> QED BY <1>2, <2>3, <2>4
<1>8. SplitsInOrder(q, p, right, g, f, x.high_key, x.right_link)
  <2>1. SplitsInOrder(SplitParent(p, c, k, right), p, right, TempChi(x, k, c),
                      TempKey(x, k), x.high_key, x.right_link)
    BY <1>1, <1>7, SplitInOrder
  <2> QED BY <1>1, <1>2, <2>1
<1>9. pc'[t] = "split" /\ cur'[t] = p /\ rc'[t] = right /\ stores'[t] = q /\ Root' = Root /\ Alone(t)
  <2>1. pc'[t] = "split" /\ cur'[t] = p /\ rc'[t] = right /\ stores'[t] = q /\ Root' = Root
    BY <1>0, <1>1, <1>2, <1>3 DEF TypeOK
  <2>2. Alone(t)
    BY <1>0, <1>3 DEF Alone, TypeOK, Locals
  <2> QED BY <2>1, <2>2
<1>10. Proceeds(t) /\ Carries(t)
  BY <1>0, <1>7, <1>9 DEF Proceeds, Carries, Climbing
<1>11. IsSplit(t, p, right, q, z, f, g)
  BY <1>0, <1>1, <1>5, <1>4, <1>6, <1>7, <1>8, <1>9, <1>10 DEF IsSplit
<1> QED BY <1>1, <1>11

\* What the two halves of a full node p will hold is within the bounds of p.
LEMMA SplitWidens ==
    ASSUME TreeInv, NEW low, NEW lev, Ranges(low, lev), NEW t \in Threads, SplitInternal(t),
           NEW p, p = cur[t], NEW f, f = TempKey(node[p], lm_key[t]),
           NEW g, g = TempChi(node[p], lm_key[t], rc[t])
    PROVE  /\ Widened(low, lev, p, t, f, g, N)
           /\ Holds(t, p) /\ ~node[p].isLeaf
           /\ \A u \in Threads : \A j \in DOMAIN stores[u] :
                 stores[u][j].to = p => stores[u][j].field \notin {"key", "chi", "nkey"}
<1>0. /\ pc[t] = "parent" /\ stores[t] = <<>> /\ ~MustGoRight(cur[t], lm_key[t])
      /\ node[p].nkey = N - 1
  BY DEF SplitInternal, At
<1>1. PICK k, c : k = lm_key[t] /\ c = rc[t]
  OBVIOUS
<1>2. /\ p \in DOMAIN node /\ ~node[p].isLeaf /\ Holds(t, p) /\ k \in Nat /\ low[p] < k
      /\ c \in DOMAIN node /\ low[c] = k /\ Under(low, lev, p, c)
      /\ Below(low, lev, p, k)
      /\ \A u \in Threads : \A j \in DOMAIN stores[u] :
            stores[u][j].to = p => stores[u][j].field \notin {"key", "chi", "nkey"}
      /\ Separators(low, lev, p, node[p].key, node[p].chi, node[p].nkey)
      /\ Larger(low, lev, p, node[p].key, node[p].nkey)
      /\ \A s \in 0 .. node[p].nkey - 1 : node[p].key[s] # k
  BY <1>0, <1>1, ParentTakes
<1>3. PICK x, n, s : x \in NodeType /\ x = node[p] /\ n = x.nkey /\ n \in Nat /\ n = N - 1 /\ n + 1 = N
                     /\ s = SlotOf(x, k) /\ s \in 0 .. n
  <2>1. PICK x : x \in NodeType /\ x = node[p]
    BY <1>2, NodeFields, RangesGive
  <2>2. x.nkey \in Nat /\ SlotOf(x, k) \in 0 .. x.nkey
    BY <1>2, <2>1, NodeTypeIs, SlotOfType, RangesGive
  <2>3. x.nkey = N - 1 /\ (N - 1) + 1 = N
    BY <1>0, <2>1, Halves
  <2> QED BY <2>1, <2>2, <2>3
<1>4. Inserts(TempKey(x, k), x.key, n, s, k)
  <2>1. Rising(x.key, x.nkey)
    BY <1>2, <1>3 DEF Separators, Rising
  <2>2. \A a \in 0 .. x.nkey - 1 : x.key[a] # k
    BY <1>2, <1>3
  <2> QED BY <1>2, <1>3, <2>1, <2>2, NewKeysRise, RangesGive
<1>5. InsertsBehind(TempChi(x, k, c), x.chi, n, s, c)
  BY <1>3, ChildrenInserted
<1>6. InTransit(t)
  BY <1>0 DEF InTransit
<1>7. f = TempKey(x, k) /\ g = TempChi(x, k, c)
  BY <1>1, <1>3
<1>8. Inserts(f, x.key, n, s, k) /\ InsertsBehind(g, x.chi, n, s, c)
  BY <1>4, <1>5, <1>7
<1>9. Widened(low, lev, p, t, f, g, n + 1)
  BY <1>1, <1>2, <1>3, <1>6, <1>8, Widens
<1> QED BY <1>2, <1>3, <1>9

\* The separator of the halves, and their bounds.
LEMMA SplitBounds ==
    ASSUME TreeInv, NEW low, NEW lev, Ranges(low, lev), NEW t, NEW p \in DOMAIN node,
           NEW f, NEW g, Widened(low, lev, p, t, f, g, N), NEW right, right \notin DOMAIN node, right # NULL
    PROVE  /\ f[H - 1] \in Nat /\ Below(low, lev, p, f[H - 1]) /\ low[p] < f[H - 1]
           /\ SplitOff(low, lev, WithNew(low, right, f[H - 1]), WithNew(lev, right, lev[p]),
                       DOMAIN node, p, right, f[H - 1])
<1>1. H - 1 \in 0 .. N - 1
  BY Halves
<1>2. PICK k : k = f[H - 1] /\ k \in Nat /\ low[p] < k /\ Below(low, lev, p, k)
  BY <1>1 DEF Widened
<1>3. Bounds(low, lev, DOMAIN node)
  BY RangesGive
<1>4. SplitOff(low, lev, WithNew(low, right, k), WithNew(lev, right, lev[p]), DOMAIN node, p, right, k)
  BY <1>2, <1>3, SplitRefines
<1> QED BY <1>2, <1>4

\* The left half of an internal node.
LEMMA LeftSeparated ==
    ASSUME TreeInv, NEW low, NEW lev, Ranges(low, lev), NEW t \in Threads,
           NEW p, NEW right, NEW q, NEW z, NEW f, NEW g, IsSplit(t, p, right, q, z, f, g),
           Widened(low, lev, p, t, f, g, N),
           \A u \in Threads : \A j \in DOMAIN stores[u] :
                 stores[u][j].to = p => stores[u][j].field \notin {"key", "chi", "nkey"},
           NEW low2, NEW lev2, SplitOff(low, lev, low2, lev2, DOMAIN node, p, right, f[H - 1])
    PROVE  Separated(low2, lev2, p)'
<1>0. /\ Alone(t) /\ p \in DOMAIN node /\ right \notin DOMAIN node /\ right # p /\ TypeOK
      /\ node'[p] = node[p] /\ stores'[t] = q /\ rc'[t] = right /\ node[p].nkey = N - 1
      /\ SplitsInOrder(q, p, right, g, f, node[p].high_key, node[p].right_link)
  BY RangesGive DEF IsSplit
<1>1. /\ \A s \in 0 .. N - 1 :
            /\ f[s] \in Nat /\ low[p] < f[s] /\ Below(low, lev, p, f[s]) /\ low[g[s + 1]] = f[s]
            /\ s \in Slots /\ node[p].key[s] # 0 => f[s] <= node[p].key[s]
      /\ \A a, b \in 0 .. N - 1 : a < b => f[a] < f[b]
      /\ low[g[0]] = low[p]
      /\ \A s \in 0 .. N : Under(low, lev, p, g[s])
      /\ \A u \in Threads \ {t} : InTransit(u) => \A s \in 0 .. N : g[s] # rc[u]
  BY DEF Widened, Rising
<1>2. PICK k, m : /\ k = f[H - 1] /\ k \in Nat /\ m = H - 1 /\ m \in 0 .. N - 1 /\ m \in Nat
                  /\ \A a \in 0 .. m : a \in 0 .. N /\ a \in 0 .. H - 1
                  /\ \A a \in 0 .. m - 1 : a \in 0 .. N - 1 /\ a < m /\ a + 1 \in 0 .. N /\ a \in Slots
                                           /\ a \in 0 .. H - 2
                  /\ \A a \in 0 .. H - 2 : a \in 0 .. m - 1
                  /\ \A a \in 0 .. H - 1 : a \in 0 .. m
  <2>1. H - 1 \in 0 .. N - 1 /\ H - 1 \in Nat
    BY Halves
  <2>2. \A a \in 0 .. H - 1 : a \in 0 .. N
    BY Halves
  <2>3. \A a \in 0 .. (H - 1) - 1 : a \in 0 .. N - 1 /\ a < H - 1 /\ a + 1 \in 0 .. N /\ a \in Slots
                                    /\ a \in 0 .. H - 2
    BY Halves
  <2>4. \A a \in 0 .. H - 2 : a \in 0 .. (H - 1) - 1
    BY Halves
  <2> QED BY <1>1, <2>1, <2>2, <2>3, <2>4
<1>3. /\ DOMAIN low = DOMAIN node /\ Refines(low, lev, low2, lev2, p)
      /\ \A a \in DOMAIN node : low2[a] = low[a] /\ lev2[a] = lev[a]
      /\ \A b \in Int : b < k /\ Below(low, lev, p, b) => Below(low2, lev2, p, b)
      /\ \A b \in Int : k <= b => ~Below(low2, lev2, p, b)
  BY <1>2, RangesGive DEF SplitOff
<1>4. PICK F : F = [s \in Slots |-> IF s < m THEN f[s] ELSE 0]
  OBVIOUS
<1>5. F \in [Slots -> Nat] /\ \A s \in 0 .. m - 1 : F[s] = f[s]
  <2>1. ASSUME NEW s \in Slots, s < m PROVE f[s] \in Nat
    <3>1. s \in 0 .. N - 1
      BY <1>2, <2>1, Halves
    <3> QED BY <1>1, <3>1
  <2> QED BY <1>2, <1>4, <2>1
<1>6. \A s \in 0 .. N : g[s] \in DOMAIN node
  BY <1>1, <1>3 DEF Under
<1>7. Separators(low2, lev2, p, F, g, m)'
  <2>1. ASSUME NEW s \in 0 .. m - 1
        PROVE  low2[p] < F[s] /\ Below(low2, lev2, p, F[s]) /\ low2[g[s + 1]] = F[s]
    <3>1. PICK b \in Nat : b = f[s] /\ low[p] < b /\ Below(low, lev, p, b) /\ low[g[s + 1]] = b
      BY <1>1, <1>2
    <3>2. b < k
      BY <1>1, <1>2, <3>1
    <3>3. low2[g[s + 1]] = b
      BY <1>2, <1>3, <1>6, <3>1
    <3> QED BY <1>0, <1>3, <1>5, <3>1, <3>2, <3>3
  <2>2. \A a, b \in 0 .. m - 1 : a < b => F[a] < F[b]
    BY <1>1, <1>2, <1>5
  <2>3. low2[g[0]] = low2[p]
    <3>1. 0 \in 0 .. N
      BY Halves
    <3> QED BY <1>0, <1>1, <1>3, <1>6, <3>1
  <2>4. ASSUME NEW s \in 0 .. m PROVE Under(low2, lev2, p, g[s])
    <3>1. Under(low, lev, p, g[s])
      BY <1>1, <1>2
    <3> QED BY <1>0, <1>3, <3>1, RefinesPointers
  <2>5. ASSUME NEW u \in Threads, InTransit(u)', NEW s \in 0 .. m PROVE g[s] # rc'[u]
    <3>1. s \in 0 .. N
      BY <1>2
    <3>2. CASE u = t
      BY <1>0, <1>6, <3>1, <3>2
    <3>3. CASE u # t
      <4>1. InTransit(u) /\ rc'[u] = rc[u]
        BY <1>0, <2>5, <3>3, OthersSame DEF InTransit
      <4> QED BY <1>1, <3>1, <3>3, <4>1
    <3> QED BY <3>2, <3>3
  <2> QED BY <1>2, <1>5, <2>1, <2>2, <2>3, <2>4, <2>5 DEF Separators
<1>8. Larger(low2, lev2, p, F, m)'
  <2>1. ASSUME NEW s \in Slots, node[p].key[s] # 0
        PROVE  /\ s < m => F[s] <= node[p].key[s]
               /\ s >= m => ~Below(low2, lev2, p, node[p].key[s])
    <3>1. PICK b \in Nat : b = node[p].key[s]
      BY <1>0, NodeFields
    <3>2. s \in 0 .. N - 1 /\ (s < m => s \in 0 .. m - 1)
      <4>1. s \in 0 .. N - 1 /\ s \in Nat
        BY Halves
      <4>2. m \in Nat
        BY <1>2
      <4> QED BY <4>1, <4>2
    <3>3. f[s] <= b
      BY <1>1, <2>1, <3>1, <3>2
    <3>4. s >= m => k <= b
      <4>1. s = m => f[s] = k
        BY <1>2
      <4>2. s > m => k < f[s]
        BY <1>1, <1>2, <3>2
      <4>3. s \in Int /\ f[s] \in Nat
        BY <1>1, <3>2
      <4> QED BY <1>2, <3>1, <3>3, <4>1, <4>2, <4>3
    <3>5. s >= m => ~Below(low2, lev2, p, b)
      BY <1>3, <3>4
    <3> QED BY <1>5, <3>1, <3>2, <3>3, <3>5
  <2> QED BY <1>0, <2>1 DEF Larger
<1>9. Reaches(p, F, g, m)'
  <2>1. \A a \in 0 .. m - 1 : Has(q, PutAt(p, "key", a, F[a]))
    BY <1>0, <1>2, <1>5 DEF SplitsInOrder
  <2>2. \A a \in 0 .. m : Has(q, PutAt(p, "chi", a, g[a]))
    BY <1>0, <1>2 DEF SplitsInOrder
  <2>3. Has(q, Put(p, "nkey", m))
    BY <1>0, <1>2 DEF SplitsInOrder
  <2>4. ASSUME NEW j \in DOMAIN q PROVE Sets(p, F, g, m, q, j)'
    <3>1. PICK st : st = q[j] /\ st \in SplitStores(p, right, g, f, node[p].high_key, node[p].right_link)
      BY <1>0 DEF SplitsInOrder
    <3>2. /\ st.field = "key" => st.to = p /\ st.slot \in 0 .. H - 2 /\ st.value = f[st.slot]
          /\ st.field = "chi" => st.to = p /\ st.slot \in 0 .. H - 1 /\ st.value = g[st.slot]
          /\ st.field = "nkey" => st.to = p /\ st.value = H - 1
      BY <1>0, <3>1, SplitStoreIs
    <3>3. st.field = "key" => /\ st.slot \in 0 .. m - 1 /\ st.value = F[st.slot]
                              /\ \A l \in DOMAIN q : q[l].field = "chi" /\ q[l].slot = st.slot + 1 => l < j
      BY <1>0, <1>2, <1>5, <3>1, <3>2 DEF SplitsInOrder, InOrder
    <3>4. m <= node'[p].nkey
      BY <1>0, <1>2
    <3> QED BY <1>2, <3>1, <3>2, <3>3, <3>4 DEF Sets
  <2>5. ASSUME NEW u \in Threads \ {t}, NEW j \in DOMAIN stores'[u] PROVE Sets(p, F, g, m, stores[u], j)'
    <3>1. stores'[u] = stores[u]
      BY <1>0, OthersSame
    <3> QED BY <2>5, <3>1 DEF Sets
  <2>6. \A u \in Threads : \A j \in DOMAIN stores'[u] : Sets(p, F, g, m, stores[u], j)'
    <3>1. ASSUME NEW j \in DOMAIN stores'[t] PROVE Sets(p, F, g, m, stores[t], j)'
      BY <1>0, <2>4, <3>1 DEF Sets
    <3> QED BY <2>5, <3>1
  <2>7. (\A a \in 0 .. m - 1 :
          \/ node[p].key[a] = F[a]
          \/ \E u \in Threads : Has(stores[u], PutAt(p, "key", a, F[a])))'
    BY <1>0, <2>1 DEF Has, PutAt
  <2>8. (\A a \in 0 .. m :
          \/ node[p].chi[a] = g[a]
          \/ \E u \in Threads : Has(stores[u], PutAt(p, "chi", a, g[a])))'
    BY <1>0, <2>2 DEF Has, PutAt
  <2>9. (\/ node[p].nkey = m
         \/ \E u \in Threads : Has(stores[u], Put(p, "nkey", m)))'
    BY <1>0, <2>3 DEF Has, Put
  <2> QED BY <2>6, <2>7, <2>8, <2>9 DEF Reaches
<1> QED BY <1>7, <1>8, <1>9 DEF Separated

\* The right half of an internal node.
LEMMA RightRange ==
    ASSUME TreeInv, NEW low, NEW lev, Ranges(low, lev), NEW t \in Threads,
           NEW p, NEW right, NEW q, NEW z, NEW f, NEW g, IsSplit(t, p, right, q, z, f, g),
           Widened(low, lev, p, t, f, g, N), ~node[p].isLeaf,
           NEW low2, NEW lev2, SplitOff(low, lev, low2, lev2, DOMAIN node, p, right, f[H - 1])
    PROVE  /\ NodeRange(low2, lev2, right)'
           /\ \A s \in ChiSlots : z.chi[s] # NULL => Below(low2, lev2, right, low2[z.chi[s]])
           /\ z.parent # NULL => Under(low2, lev2, z.parent, right)
<1>0. /\ Alone(t) /\ p \in DOMAIN node /\ right \notin DOMAIN node /\ right # p /\ TypeOK
      /\ node'[right] = z /\ stores'[t] = q /\ rc'[t] = right
      /\ SplitsInOrder(q, p, right, g, f, node[p].high_key, node[p].right_link)
  BY RangesGive DEF IsSplit
<1>1. PICK n, key, chi :
      /\ n = N - H /\ n \in Nat /\ key = z.key /\ chi = z.chi
      /\ z.isLeaf = FALSE /\ z.nkey = n /\ z.right_link = NULL /\ z.parent = node[p].parent
      /\ key \in [Slots -> Nat]
      /\ \A s \in 0 .. n - 1 : key[s] = f[s + H]
      /\ \A s \in Slots : s >= n => key[s] = 0
      /\ \A s \in 0 .. n : chi[s] = g[s + H]
      /\ \A s \in ChiSlots : s > n => chi[s] = NULL
  <2>1. N - H \in Nat
    BY Halves
  <2> QED BY <2>1 DEF IsSplit
<1>2. /\ \A s \in 0 .. N - 1 :
            /\ f[s] \in Nat /\ low[p] < f[s] /\ Below(low, lev, p, f[s]) /\ low[g[s + 1]] = f[s]
      /\ \A a, b \in 0 .. N - 1 : a < b => f[a] < f[b]
      /\ \A s \in 0 .. N : Under(low, lev, p, g[s])
      /\ \A u \in Threads \ {t} : InTransit(u) => \A s \in 0 .. N : g[s] # rc[u]
  BY DEF Widened, Rising
<1>3. /\ H - 1 \in 0 .. N - 1 /\ n \in 0 .. N - 1
      /\ \A s \in 0 .. n - 1 : /\ s + H \in 0 .. N - 1 /\ H - 1 < s + H /\ s \in Slots /\ s \in Nat
                               /\ (s + 1) + H = (s + H) + 1 /\ s + 1 \in 0 .. n
      /\ \A s \in 0 .. n : /\ (s + H) - 1 \in 0 .. N - 1 /\ s + H \in 0 .. N /\ s \in ChiSlots
                           /\ ((s + H) - 1) + 1 = s + H
                           /\ (s + H) - 1 = H - 1 \/ H - 1 < (s + H) - 1
      /\ \A s \in ChiSlots : s \in 0 .. n \/ s > n
      /\ \A s \in Slots : s \in 0 .. n - 1 \/ s >= n
      /\ 0 \in 0 .. n /\ (0 + H) - 1 = H - 1
  <2>1. /\ \A s \in 0 .. (N - H) - 1 : /\ s + H \in 0 .. N - 1 /\ H - 1 < s + H /\ s \in Slots /\ s \in Nat
                                       /\ (s + 1) + H = (s + H) + 1 /\ s + 1 \in 0 .. N - H
    BY Halves
  <2>2. \A s \in 0 .. N - H : /\ (s + H) - 1 \in 0 .. N - 1 /\ s + H \in 0 .. N /\ s \in ChiSlots
                              /\ ((s + H) - 1) + 1 = s + H
                              /\ (s + H) - 1 = H - 1 \/ H - 1 < (s + H) - 1
    BY Halves
  <2>3. H - 1 \in 0 .. N - 1 /\ N - H \in 0 .. N - 1 /\ 0 \in 0 .. N - H /\ (0 + H) - 1 = H - 1
    BY Halves
  <2>4. \A s \in ChiSlots : s \in Nat
    BY Halves
  <2>5. \A s \in Slots : s \in Nat
    BY Halves
  <2>6. /\ \A s \in ChiSlots : s \in 0 .. n \/ s > n
        /\ \A s \in Slots : s \in 0 .. n - 1 \/ s >= n
    BY <1>1, <2>4, <2>5
  <2> QED BY <1>1, <2>1, <2>2, <2>3, <2>6
<1>4. PICK k : k = f[H - 1] /\ k \in Nat /\ low[p] < k
  BY <1>2, <1>3
<1>5. /\ DOMAIN low = DOMAIN node /\ Bounds(low2, lev2, DOMAIN node \cup {right})
      /\ low2 \in [DOMAIN node \cup {right} -> Nat]
      /\ low2[right] = k /\ lev2[right] = lev[p]
      /\ \A a \in DOMAIN node : low2[a] = low[a] /\ lev2[a] = lev[a] /\ low[a] \in Nat
      /\ \A b \in Int : Below(low, lev, p, b) => Below(low2, lev2, right, b)
  <2>1. SplitOff(low, lev, low2, lev2, DOMAIN node, p, right, k)
    BY <1>4
  <2> QED BY <2>1, RangesGive DEF SplitOff, Bounds
<1>6. \A s \in 0 .. N : g[s] \in DOMAIN node
  BY <1>2, <1>5 DEF Under
<1>7. ASSUME NEW s \in 0 .. n
      PROVE  /\ chi[s] \in DOMAIN node /\ chi[s] # NULL
             /\ k <= low2[chi[s]] /\ Below(low2, lev2, right, low2[chi[s]])
             /\ Under(low2, lev2, right, chi[s])
  <2>1. PICK a, c : a = (s + H) - 1 /\ a \in 0 .. N - 1 /\ c = chi[s] /\ c = g[a + 1] /\ a + 1 \in 0 .. N
                    /\ (a = H - 1 \/ H - 1 < a)
    BY <1>1, <1>3
  <2>2. c \in DOMAIN node /\ low[c] = f[a] /\ f[a] \in Nat /\ Below(low, lev, p, f[a]) /\ Under(low, lev, p, c)
    BY <1>2, <1>6, <2>1
  <2>3. k <= f[a]
    BY <1>2, <1>3, <1>4, <2>1
  <2>4. NULL \notin DOMAIN node
    BY RangesGive
  <2>5. Below(low2, lev2, right, f[a]) /\ low2[c] = f[a]
    BY <1>5, <2>2
  <2>6. Under(low2, lev2, right, c)
    <3>1. DOMAIN low2 = DOMAIN node \cup {right}
      BY <1>5 DEF Bounds
    <3>2. lev[p] = lev[c] + 1
      BY <2>2 DEF Under
    <3> QED BY <1>5, <2>2, <2>3, <3>1, <3>2 DEF Under
  <2> QED BY <2>1, <2>2, <2>3, <2>4, <2>5, <2>6
<1>8. low2[chi[0]] = k
  <2>1. chi[0] = g[(H - 1) + 1] /\ H - 1 \in 0 .. N - 1 /\ (H - 1) + 1 \in 0 .. N
    <3>1. chi[0] = g[0 + H] /\ (H - 1) + 1 = 0 + H /\ (H - 1) + 1 \in 0 .. N
      BY <1>1, <1>3, Halves
    <3> QED BY <1>3, <3>1
  <2>2. low[chi[0]] = k /\ chi[0] \in DOMAIN node
    BY <1>2, <1>4, <1>6, <2>1
  <2> QED BY <1>5, <2>2
<1>9. ASSUME NEW s \in 0 .. n - 1
      PROVE  /\ key[s] \in Nat /\ k < key[s] /\ Below(low2, lev2, right, key[s])
             /\ low2[chi[s + 1]] = key[s] /\ s \in Slots
  <2>1. PICK a : a = s + H /\ a \in 0 .. N - 1 /\ key[s] = f[a] /\ chi[s + 1] = g[a + 1] /\ H - 1 < a
                 /\ a + 1 \in 0 .. N
    BY <1>1, <1>3
  <2>2. f[a] \in Nat /\ Below(low, lev, p, f[a]) /\ low[g[a + 1]] = f[a] /\ k < f[a] /\ g[a + 1] \in DOMAIN node
    BY <1>2, <1>3, <1>4, <1>6, <2>1
  <2> QED BY <1>3, <1>5, <2>1, <2>2
<1>10. z.parent # NULL => Under(low2, lev2, z.parent, right)
  <2>1. SUFFICES ASSUME z.parent # NULL PROVE Under(low2, lev2, z.parent, right)
    OBVIOUS
  <2>2. Under(low, lev, z.parent, p)
    BY <1>0, <1>1, <2>1, RangesGive DEF NodeRange, Pointing
  <2>3. PICK r : r = z.parent /\ r \in DOMAIN node /\ low[r] <= low[p] /\ lev[r] = lev[p] + 1
    BY <1>5, <2>2 DEF Under
  <2>4. low[r] <= k /\ DOMAIN low2 = DOMAIN node \cup {right}
    BY <1>0, <1>4, <1>5, <2>3 DEF Bounds
  <2> QED BY <1>5, <2>3, <2>4 DEF Under
<1>11. Pointing(low2, lev2, right)'
  <2>1. lev2[right] # 0
    BY <1>0, <1>5, RangesGive DEF NodeRange, Pointing
  <2>2. \A s \in ChiSlots : z.chi[s] # NULL => Under(low2, lev2, right, z.chi[s])
    BY <1>1, <1>3, <1>7
  <2> QED BY <1>0, <1>1, <1>10, <2>1, <2>2 DEF Pointing
<1>12. Linked(low2, lev2, right)'
  <2>1. PICK h, r : Has(q, Put(right, "high_key", h)) /\ Has(q, Put(right, "right_link", r))
    BY <1>0 DEF SplitsInOrder
  <2>2. Pending(right, "right_link")' /\ Pending(right, "high_key")'
    BY <1>0, <2>1 DEF Pending, Has, Put
  <2> QED BY <2>2 DEF Linked
<1>13. LeafKeys(low2, lev2, right)'
  BY <1>0, <1>1 DEF LeafKeys
<1>14. Separators(low2, lev2, right, key, chi, n)'
  <2>1. ASSUME NEW u \in Threads, InTransit(u)', NEW s \in 0 .. n PROVE chi[s] # rc'[u]
    <3>1. chi[s] \in DOMAIN node /\ s + H \in 0 .. N /\ chi[s] = g[s + H]
      BY <1>1, <1>3, <1>7
    <3>2. CASE u = t
      BY <1>0, <3>1, <3>2
    <3>3. CASE u # t
      <4>1. InTransit(u) /\ rc'[u] = rc[u]
        BY <1>0, <2>1, <3>3, OthersSame DEF InTransit
      <4> QED BY <1>2, <3>1, <3>3, <4>1
    <3> QED BY <3>2, <3>3
  <2>2. \A a, b \in 0 .. n - 1 : a < b => key[a] < key[b]
    <3>1. ASSUME NEW a \in 0 .. n - 1, NEW b \in 0 .. n - 1, a < b PROVE key[a] < key[b]
      <4>1. a + H \in 0 .. N - 1 /\ b + H \in 0 .. N - 1
        BY <1>3
      <4>2. a + H < b + H
        BY <3>1, Halves
      <4> QED BY <1>1, <1>2, <4>1, <4>2
    <3> QED BY <3>1
  <2>3. \A s \in 0 .. n - 1 :
            low2[right] < key[s] /\ Below(low2, lev2, right, key[s]) /\ low2[chi[s + 1]] = key[s]
    BY <1>5, <1>9
  <2>4. low2[chi[0]] = low2[right]
    BY <1>5, <1>8
  <2>5. \A s \in 0 .. n : Under(low2, lev2, right, chi[s])
    BY <1>7
  <2> QED BY <1>1, <1>3, <2>1, <2>2, <2>3, <2>4, <2>5 DEF Separators
<1>15. Larger(low2, lev2, right, key, n)'
  <2>1. \A s \in Slots : z.key[s] # 0 => s \in 0 .. n - 1
    BY <1>1, <1>3
  <2>2. \A s \in 0 .. n - 1 : s < n /\ ~(s >= n) /\ key[s] <= z.key[s]
    BY <1>1, <1>9
  <2> QED BY <1>0, <1>1, <2>1, <2>2 DEF Larger
<1>16. Reaches(right, key, chi, n)'
  <2>1. ASSUME NEW u \in Threads, NEW j \in DOMAIN stores'[u] PROVE Sets(right, key, chi, n, stores[u], j)'
    <3>1. CASE u = t
      <4>1. PICK st : st = q[j] /\ st \in SplitStores(p, right, g, f, node[p].high_key, node[p].right_link)
        BY <1>0, <2>1, <3>1 DEF SplitsInOrder
      <4>2. /\ st.field = "key" => st.to = p
            /\ st.field = "chi" => st.to = p
            /\ st.field = "nkey" => st.to = p
        BY <1>0, <4>1, SplitStoreIs
      <4> QED BY <1>0, <3>1, <4>1, <4>2 DEF Sets
    <3>2. CASE u # t
      <4>1. stores'[u] = stores[u]
        BY <1>0, <3>2, OthersSame
      <4>2. stores[u][j].to \in DOMAIN node
        <5>1. GoodStore(u, stores[u][j]) /\ pc[u] \in {"added", "split"}
          BY <2>1, <4>1, RangesGive DEF StoreInv, PlaceInv
        <5> QED BY <2>1, <4>1, <5>1, StoreTargets, RangesGive
      <4> QED BY <1>0, <4>1, <4>2 DEF Sets
    <3> QED BY <3>1, <3>2
  <2> QED BY <1>0, <1>1, <2>1 DEF Reaches
<1>17. Readable(low2, lev2, right)'
  <2>1. \A s \in Slots : key[s] # 0 => s \in 0 .. n - 1
    BY <1>1, <1>3
  <2>2. \A s \in 0 .. n - 1 : chi[s + 1] # NULL /\ low2[chi[s + 1]] <= key[s] /\ key[s] # 0
    <3>1. ASSUME NEW s \in 0 .. n - 1 PROVE chi[s + 1] # NULL /\ low2[chi[s + 1]] <= key[s] /\ key[s] # 0
      <4>1. s + 1 \in 0 .. n
        BY <1>3
      <4> QED BY <1>4, <1>7, <1>9, <4>1
    <3> QED BY <3>1
  <2> QED BY <1>0, <1>1, <1>3, <1>5, <1>7, <1>8, <2>1, <2>2 DEF Readable
<1>18. Separated(low2, lev2, right)'
  BY <1>14, <1>15, <1>16 DEF Separated
<1>19. NodeRange(low2, lev2, right)'
  BY <1>11, <1>12, <1>13, <1>17, <1>18 DEF NodeRange
<1>20. \A s \in ChiSlots : z.chi[s] # NULL => Below(low2, lev2, right, low2[z.chi[s]])
  BY <1>1, <1>3, <1>7
<1> QED BY <1>10, <1>19, <1>20

LEMMA SplitInternalRanges ==
    ASSUME TreeInv, ParentInv, ~early, NEW low, NEW lev, Ranges(low, lev), NEW t \in Threads, SplitInternal(t),
           ~NotLinked(cur[t])
    PROVE  \E low2, lev2 : Ranges(low2, lev2)'
<1>0. stores[t] = <<>> /\ pc[t] = "parent"
  BY DEF SplitInternal, At
<1>1. PICK p, f, g : /\ p = cur[t] /\ f = TempKey(node[p], lm_key[t])
                     /\ g = TempChi(node[p], lm_key[t], rc[t])
  OBVIOUS
<1>2. /\ Widened(low, lev, p, t, f, g, N) /\ Holds(t, p) /\ ~node[p].isLeaf
      /\ \A u \in Threads : \A j \in DOMAIN stores[u] :
            stores[u][j].to = p => stores[u][j].field \notin {"key", "chi", "nkey"}
  BY <1>1, SplitWidens
<1>3. PICK right, q, z : IsSplit(t, p, right, q, z, f, g)
  BY <1>1, SplitIs
<1>4. /\ Alone(t) /\ Proceeds(t) /\ Carries(t)
      /\ pc'[t] = "split" /\ cur'[t] = p /\ rc'[t] = right /\ stores'[t] = q /\ Root' = Root
      /\ p \in DOMAIN node /\ right \notin DOMAIN node /\ right # NULL /\ right # p
      /\ DOMAIN node' = DOMAIN node \cup {right} /\ node'[right] = z
      /\ \A a \in DOMAIN node : node'[a] = node[a]
      /\ z.right_link = NULL /\ z.parent = node[p].parent
      /\ SplitsInOrder(q, p, right, g, f, node[p].high_key, node[p].right_link)
  BY <1>3 DEF IsSplit
<1>5. PICK k, low2, lev2 :
          /\ k = f[H - 1] /\ k \in Nat /\ Below(low, lev, p, k) /\ low[p] < k
          /\ low2 = WithNew(low, right, k) /\ lev2 = WithNew(lev, right, lev[p])
          /\ SplitOff(low, lev, low2, lev2, DOMAIN node, p, right, k)
  BY <1>2, <1>4, SplitBounds
<1>6. \A u \in Threads \ {t} : Splitting(u) => rc[u] # p
  BY <1>1 DEF NotLinked, Splitting
<1>7. IsNext(low, lev, p, node[p].right_link) /\ IsHigh(low, lev, p, node[p].high_key)
  BY <1>0, <1>2, <1>4, <1>6, HeldLinked
<1>8. /\ Bounds(low2, lev2, DOMAIN node')
      /\ Refines(low, lev, low2, lev2, p)
      /\ low2[right] = k /\ lev2[right] = lev[p] /\ DOMAIN low2 = DOMAIN node \cup {right}
      /\ DOMAIN low = DOMAIN node /\ Bounds(low, lev, DOMAIN node)
      /\ \A a \in DOMAIN node : low2[a] = low[a] /\ lev2[a] = lev[a]
      /\ IsNext(low2, lev2, p, right)
      /\ IsNext(low2, lev2, right, node[p].right_link)
      /\ IsHigh(low2, lev2, right, node[p].high_key)
      /\ IsHigh(low2, lev2, p, k)
  <2>1. node[p].right_link \in DOMAIN node \cup {NULL}
    BY <1>4, NodeFields, Addresses, RangesGive
  <2>2. DOMAIN low2 = DOMAIN node \cup {right} /\ DOMAIN low = DOMAIN node /\ Bounds(low, lev, DOMAIN node)
    BY <1>5, RangesGive DEF SplitOff, Bounds
  <2> QED BY <1>4, <1>5, <1>7, <2>1, <2>2 DEF SplitOff
<1>9. /\ NodeRange(low2, lev2, right)'
      /\ \A s \in ChiSlots : z.chi[s] # NULL => Below(low2, lev2, right, low2[z.chi[s]])
      /\ z.parent # NULL => Under(low2, lev2, z.parent, right)
  BY <1>2, <1>3, <1>5, RightRange
<1>10. NodeRange(low2, lev2, p)'
  <2>1. NodeRange(low, lev, p) /\ TypeOK
    BY <1>4, RangesGive
  <2>2. Pointing(low2, lev2, p)'
    BY <1>4, <1>8, <2>1, PointingKept DEF NodeRange
  <2>3. Linked(low2, lev2, p)'
    <3>1. PICK h : Has(q, Put(p, "high_key", h)) /\ Has(q, Put(p, "right_link", right))
      BY <1>4 DEF SplitsInOrder
    <3>2. Pending(p, "right_link")' /\ Pending(p, "high_key")'
      BY <1>4, <3>1 DEF Pending, Has, Put
    <3> QED BY <3>2 DEF Linked
  <2>4. LeafKeys(low2, lev2, p)'
    BY <1>2, <1>4 DEF LeafKeys
  <2>5. Separated(low2, lev2, p)'
    BY <1>2, <1>3, <1>5, LeftSeparated
  <2>6. Readable(low2, lev2, p)'
    BY <1>2, <1>4, <1>8, <2>1, ReadableKept DEF NodeRange
  <2> QED BY <2>2, <2>3, <2>4, <2>5, <2>6 DEF NodeRange
<1>11. Placed(low2, lev2)'
  <2>1. Placed(low, lev) /\ Root \in DOMAIN node
    BY RootIsNode, RangesGive DEF Ranges
  <2>2. ASSUME NEW u \in Threads, pc[u] = "publish" PROVE pc'[u] = "publish"
    <3>1. u # t
      BY <1>0, <2>2
    <3> QED BY <1>4, <2>2, <3>1, OthersSame
  <2>3. NewRoot' = NewRoot
    BY <1>4, <2>1 DEF NewRoot
  <2>4. lev2[right] <= lev2[Root]
    <3>1. ASSUME NEW u \in Threads, pc[u] = "publish", p = NewRoot PROVE FALSE
      <4>1. node[NewRoot].parent = NULL /\ NewRoot # Root
        BY <3>1 DEF ParentInv, Publishing
      <4> QED BY <1>1, <3>1, <4>1 DEF NotLinked
    <3>2. lev[p] <= lev[Root]
      BY <1>4, <2>1, <3>1 DEF Placed
    <3> QED BY <1>8, <2>1, <3>2
  <2>5. ASSUME NEW a \in DOMAIN node'
        PROVE  lev2[a] <= lev2[Root] \/ \E u \in Threads : pc'[u] = "publish" /\ a = NewRoot
    <3>1. CASE a = right
      BY <2>4, <3>1
    <3>2. CASE a \in DOMAIN node
      BY <1>8, <2>1, <2>2, <3>2 DEF Placed
    <3> QED BY <1>4, <3>1, <3>2
  <2>6. low2[Root] = 0
    BY <1>8, <2>1 DEF Placed
  <2> QED BY <1>4, <1>8, <2>3, <2>5, <2>6 DEF Placed
<1>12. ASSUME NEW j \in DOMAIN q PROVE LinkStore(low2, lev2, t, j)'
  <2>1. PICK st : st = q[j] /\ st \in SplitStores(p, right, g, f, node[p].high_key, node[p].right_link)
    BY <1>4 DEF SplitsInOrder
  <2>2. /\ st.to \in {p, right}
        /\ st.field = "high_key" => /\ st.to = p => st.value = k
                                    /\ st.to = right => st.value = node[p].high_key
        /\ st.field = "right_link" => /\ st.to = p => st.value = right
                                      /\ st.to = right => st.value = node[p].right_link
    BY <1>4, <1>5, <2>1, SplitStoreIs
  <2>3. st.field = "right_link" => IsNext(low2, lev2, st.to, st.value)
    BY <1>8, <2>2
  <2>4. st.field = "high_key" => IsHigh(low2, lev2, st.to, st.value)
    BY <1>8, <2>2
  <2>5. st.field = "high_key" =>
            /\ \E m \in DOMAIN q : q[m].field = "right_link" /\ q[m].to = st.to
            /\ \A m \in DOMAIN q : q[m].field = "right_link" /\ q[m].to = st.to => j < m
    BY <1>4, <2>1 DEF SplitsInOrder, HighFirst
  <2>6. st.field = "right_link" =>
            \A m \in DOMAIN q : q[m].field = "right_link" /\ q[m].to = st.to => m = j
    BY <1>4, <2>1 DEF SplitsInOrder, HighFirst
  <2> QED BY <1>4, <2>1, <2>3, <2>4, <2>5, <2>6 DEF LinkStore
<1>13. Linking(low2, lev2, t)'
  BY <1>4, <1>12 DEF Linking
<1>14. Way(low2, lev2, t)'
  <2>1. Half(t)' = p
    BY <1>4 DEF Half
  <2>2. (InTransit(t) => IsNext(low2, lev2, Half(t), rc[t]))'
    BY <1>4, <1>8, <2>1
  <2> QED BY <1>4, <2>2 DEF Way
<1>15. Unlinked(low2, lev2, t)'
  <2>1. \A a \in DOMAIN node' : node'[a].parent # right
    <3>1. \A a \in DOMAIN node : node[a].parent \in DOMAIN node \cup {NULL}
      BY NodeFields, Addresses, RangesGive
    <3> QED BY <1>4, <3>1
  <2>2. ASSUME NEW u \in Threads, pc'[u] \in {"lockparent", "parent"}, cur'[u] = right PROVE FALSE
    <3>1. u # t
      BY <1>4, <2>2
    <3>2. cur[u] = right
      BY <1>4, <2>2, <3>1, OthersSame
    <3>3. cur[u] \in DOMAIN node \cup {NULL}
      BY Addresses, RangesGive DEF TypeOK
    <3> QED BY <1>4, <3>2, <3>3
  <2> QED BY <1>4, <1>9, <2>1, <2>2 DEF Unlinked
<1>16. ThreadRange(low2, lev2, t)'
  BY <1>13, <1>14, <1>15 DEF ThreadRange
<1>17. ASSUME NEW u \in Threads \ {t}, Splitting(u), NEW a \in DOMAIN node', node'[a].parent = rc[u]
       PROVE  (a \in DOMAIN node /\ node[a].parent = rc[u]) \/ Below(low2, lev2, rc[u], low2[a])
  <2>1. CASE a # right
    BY <1>4, <1>17, <2>1
  <2>2. CASE a = right
    <3>1. PICK r : r = rc[u] /\ r = node[p].parent /\ r # NULL /\ r \in DOMAIN node /\ r # p
      BY <1>4, <1>6, <1>17, <2>2, RangesGive, Addresses DEF Splitting, PlaceInv, Internal
    <3>2. Unlinked(low, lev, u) /\ Pointing(low, lev, p)
      BY <1>4, RangesGive DEF ThreadRange, NodeRange
    <3>3. Below(low, lev, r, low[p]) /\ Under(low, lev, r, p)
      BY <1>4, <1>17, <3>1, <3>2 DEF Unlinked, Pointing
    <3>4. Below(low, lev, r, k)
      BY <1>4, <1>5, <3>3, BelowAbove
    <3>5. Below(low2, lev2, r, k)
      BY <1>5, <1>8, <3>1, <3>4 DEF Refines
    <3> QED BY <1>8, <2>2, <3>1, <3>5
  <2> QED BY <2>1, <2>2
<1>18. \A u \in Threads \ {t} :
               /\ InTransit(u) => Half(u) # p
               /\ \A j \in DOMAIN stores[u] : stores[u][j].to # p
               /\ Splitting(u) => rc[u] # p
  BY <1>2, <1>6, HeldIsOwn
<1>19. PICK S : S = {p, right}
  OBVIOUS
<1>20. \A a \in DOMAIN node' : a \in S => NodeRange(low2, lev2, a)'
  BY <1>9, <1>10, <1>19
<1>21. Spares(t, S, p, low2, lev2)
  <2>1. \A j \in DOMAIN q : q[j].to \in {p, right}
    BY <1>4, SplitStoreIs DEF SplitsInOrder
  <2> QED BY <1>4, <1>19, <2>1 DEF Spares
<1>22. \A a \in DOMAIN node : ~node[a].isLeaf =>
               /\ node'[a].key = node[a].key /\ node'[a].chi = node[a].chi
               /\ node'[a].right_link = node[a].right_link
  BY <1>4
<1>23. \A u \in Threads \ {t} : Splitting(u) =>
               \A a \in DOMAIN node' : node'[a].parent = rc[u] =>
                   (a \in DOMAIN node /\ node[a].parent = rc[u]) \/ Below(low2, lev2, rc[u], low2[a])
  BY <1>17
<1>24. pc'[t] \notin {"lockparent", "parent"} /\ DOMAIN node \subseteq DOMAIN node'
  BY <1>4
<1>25. pc'[t] = "split" =>
               /\ rc'[t] \notin DOMAIN node /\ cur'[t] \in DOMAIN node
               /\ \A u \in Threads \ {t} : Splitting(u) => rc[u] # cur'[t]
  BY <1>4, <1>6
<1>26. Ranges(low2, lev2)'
  BY <1>4, <1>8, <1>11, <1>16, <1>18, <1>20, <1>21, <1>22, <1>23, <1>24, <1>25, ChangeRanges
<1> QED BY <1>26

-----------------------------------------------------------------------------
(* The steps that perform a store: the nodes and their bounds stay. *)

\* t performs st, the first of its stores q, and then has rest; x is the node
\* that st changes.
Storing(t, q, st, rest, x) ==
    /\ t \in Threads /\ pc[t] \in {"added", "split"}
    /\ q = stores[t] /\ st = q[1] /\ 1 \in DOMAIN q /\ GoodStore(t, st)
    /\ st.to \in DOMAIN node /\ ~node[st.to].isLeaf /\ st.slot \in ChiSlots /\ st.value \in Nat
    /\ x \in DOMAIN node
    /\ st.field = "parent" => x = node[st.to].chi[st.slot]
    /\ DOMAIN node' = DOMAIN node
    /\ \A p \in DOMAIN node :
          /\ node'[p].isLeaf = node[p].isLeaf
          /\ p # st.to => node'[p].key = node[p].key
          /\ \A s \in Slots : node'[p].key[s] =
                IF st.field = "key" /\ p = st.to /\ s = st.slot THEN st.value ELSE node[p].key[s]
          /\ \A s \in ChiSlots : node'[p].chi[s] =
                IF st.field = "chi" /\ p = st.to /\ s = st.slot THEN st.value ELSE node[p].chi[s]
          /\ node'[p].nkey = IF st.field = "nkey" /\ p = st.to THEN st.value ELSE node[p].nkey
          /\ node'[p].right_link =
                IF st.field = "right_link" /\ p = st.to THEN st.value ELSE node[p].right_link
          /\ node'[p].high_key =
                IF st.field = "high_key" /\ p = st.to THEN st.value ELSE node[p].high_key
          /\ node'[p].parent = IF st.field = "parent" /\ p = x THEN st.to ELSE node[p].parent
    /\ rest = stores'[t]
    /\ \A j \in DOMAIN rest : j \in Nat \ {0} /\ j + 1 \in DOMAIN q /\ rest[j] = q[j + 1]
    /\ \A j \in DOMAIN q : j \in Nat /\ (j # 1 => j - 1 \in DOMAIN rest /\ q[j] = rest[j - 1])
    /\ \A u \in Threads \ {t} : stores'[u] = stores[u]
    /\ UNCHANGED <<Key_vector, Root, locked, ended, pc, i, cur, nkey, kid, lc,
                   rc, lm_key, early>>

LEMMA StoringIs ==
    ASSUME TreeInv, NEW t \in Threads, Store(t)
    PROVE  \E q, st, rest, x : Storing(t, q, st, rest, x)
<1>0. PICK q, st, rest, x, y : StoreStep(t, q, st, rest, x, y)
  BY StoreStepIs
<1>1. /\ pc[t] \in {"added", "split"}
      /\ q = stores[t] /\ st = q[1] /\ q \in Seq(StoreType) /\ Len(q) >= 1
      /\ st \in StoreType /\ GoodStore(t, st)
      /\ st.to \in DOMAIN node /\ ~node[st.to].isLeaf
      /\ x = Target(st) /\ IsStored(x, y, st)
      /\ DOMAIN node' = DOMAIN node
      /\ \A p \in DOMAIN node : node'[p] = IF p = x THEN y ELSE node[p]
      /\ rest = stores'[t] /\ rest \in Seq(StoreType) /\ Len(rest) = Len(q) - 1
      /\ \A j \in 1 .. Len(rest) : rest[j] = q[j + 1]
      /\ stores' = [stores EXCEPT ![t] = rest]
      /\ UNCHANGED <<Key_vector, Root, locked, ended, pc, i, cur, nkey, kid, lc,
                     rc, lm_key, early>>
  BY <1>0 DEF StoreStep
<1>2. st.slot \in ChiSlots /\ st.value \in Nat
  BY <1>1 DEF StoreType
<1>3. /\ x \in DOMAIN node
      /\ st.field = "parent" => x = node[st.to].chi[st.slot]
      /\ st.field # "parent" => x = st.to
      /\ y.isLeaf = node[x].isLeaf
      /\ y.key = IF st.field = "key" THEN [node[x].key EXCEPT ![st.slot] = st.value]
                                     ELSE node[x].key
      /\ y.chi = IF st.field = "chi" THEN [node[x].chi EXCEPT ![st.slot] = st.value]
                                     ELSE node[x].chi
      /\ y.nkey = IF st.field = "nkey" THEN st.value ELSE node[x].nkey
      /\ y.right_link = IF st.field = "right_link" THEN st.value ELSE node[x].right_link
      /\ y.high_key = IF st.field = "high_key" THEN st.value ELSE node[x].high_key
      /\ y.parent = IF st.field = "parent" THEN st.to ELSE node[x].parent
  BY <1>1 DEF IsStored, Target
<1>4. node[x].key \in [Slots -> Nat] /\ node[x].chi \in [ChiSlots -> Pointers]
  BY <1>3, NodeFields DEF TreeInv
<1>5. ASSUME NEW p \in DOMAIN node
      PROVE  /\ node'[p].isLeaf = node[p].isLeaf
             /\ p # st.to => node'[p].key = node[p].key
             /\ \A s \in Slots : node'[p].key[s] =
                   IF st.field = "key" /\ p = st.to /\ s = st.slot THEN st.value ELSE node[p].key[s]
             /\ \A s \in ChiSlots : node'[p].chi[s] =
                   IF st.field = "chi" /\ p = st.to /\ s = st.slot THEN st.value ELSE node[p].chi[s]
             /\ node'[p].nkey = IF st.field = "nkey" /\ p = st.to THEN st.value ELSE node[p].nkey
             /\ node'[p].right_link =
                   IF st.field = "right_link" /\ p = st.to THEN st.value ELSE node[p].right_link
             /\ node'[p].high_key =
                   IF st.field = "high_key" /\ p = st.to THEN st.value ELSE node[p].high_key
             /\ node'[p].parent = IF st.field = "parent" /\ p = x THEN st.to ELSE node[p].parent
  <2>1. CASE p # x
    <3>1. node'[p] = node[p]
      BY <1>1, <2>1
    <3> QED BY <1>3, <2>1, <3>1
  <2>2. CASE p = x
    <3>1. node'[p] = y
      BY <1>1, <2>2
    <3>2. /\ \A s \in Slots : y.key[s] =
                IF st.field = "key" /\ s = st.slot THEN st.value ELSE node[x].key[s]
          /\ \A s \in ChiSlots : y.chi[s] =
                IF st.field = "chi" /\ s = st.slot THEN st.value ELSE node[x].chi[s]
      BY <1>3, <1>4
    <3> QED BY <1>3, <2>2, <3>1, <3>2
  <2> QED BY <2>1, <2>2
<1>6. /\ 1 \in DOMAIN q
      /\ \A j \in DOMAIN rest : j \in Nat \ {0} /\ j + 1 \in DOMAIN q /\ rest[j] = q[j + 1]
      /\ \A j \in DOMAIN q : j \in Nat /\ (j # 1 => j - 1 \in DOMAIN rest /\ q[j] = rest[j - 1])
  <2>1. PICK m \in Nat : /\ m = Len(q) /\ m >= 1 /\ DOMAIN q = 1 .. m /\ DOMAIN rest = 1 .. m - 1
                         /\ \A j \in 1 .. m - 1 : rest[j] = q[j + 1]
    <3>1. DOMAIN q = 1 .. Len(q) /\ DOMAIN rest = 1 .. Len(rest) /\ Len(q) \in Nat
      BY <1>1
    <3> QED BY <1>1, <3>1
  <2>2. ASSUME NEW j \in DOMAIN q, j # 1 PROVE j - 1 \in DOMAIN rest /\ q[j] = rest[j - 1]
    <3>1. j - 1 \in 1 .. m - 1 /\ (j - 1) + 1 = j
      BY <2>1, <2>2
    <3> QED BY <2>1, <3>1
  <2> QED BY <2>1, <2>2
<1>7. \A u \in Threads \ {t} : stores'[u] = stores[u]
  BY <1>1 DEF TreeInv, TypeOK
<1>8. Storing(t, q, st, rest, x)
  BY <1>1, <1>2, <1>3, <1>5, <1>6, <1>7 DEF Storing
<1> QED BY <1>8

\* The links of a node are stored by one thread, and so are its entries.
LEMMA OneStorer ==
    ASSUME TreeInv, NEW low, NEW lev, Ranges(low, lev), NEW t \in Threads, NEW u \in Threads, NEW j \in DOMAIN stores[t],
           NEW m \in DOMAIN stores[u], stores[t][j].to = stores[u][m].to,
           \/ /\ stores[t][j].field \in {"right_link", "high_key"}
              /\ stores[u][m].field \in {"right_link", "high_key"}
           \/ /\ stores[t][j].field \in {"key", "chi", "nkey"}
              /\ stores[u][m].field \in {"key", "chi", "nkey"}
    PROVE  t = u
<1>1. PICK a, b : a = stores[t][j] /\ b = stores[u][m]
  OBVIOUS
<1>2. /\ GoodStore(t, a) /\ GoodStore(u, b) /\ stores[t] # <<>> /\ stores[u] # <<>>
      /\ pc[t] \in {"added", "split"} /\ pc[u] \in {"added", "split"}
      /\ LinkStore(low, lev, t, j) /\ LinkStore(low, lev, u, m)
  <2>1. StoreInv(t) /\ StoreInv(u) /\ PlaceInv(t) /\ PlaceInv(u)
    BY DEF TreeInv
  <2>2. GoodStore(t, a) /\ GoodStore(u, b)
    BY <1>1, <2>1 DEF StoreInv
  <2>3. stores[t] # <<>> /\ stores[u] # <<>>
    BY StoresAre DEF TreeInv
  <2>4. Linking(low, lev, t) /\ Linking(low, lev, u)
    BY DEF Ranges, ThreadRange
  <2> QED BY <2>1, <2>2, <2>3, <2>4 DEF PlaceInv, Linking
<1>3. Holds(t, cur[t]) /\ Holds(u, cur[u])
  BY <1>2 DEF Holds
<1>4. CASE a.field \in {"key", "chi", "nkey"} /\ b.field \in {"key", "chi", "nkey"}
  <2>1. a.to = cur[t] /\ b.to = cur[u]
    BY <1>2, <1>4 DEF GoodStore
  <2> QED BY <1>1, <1>3, <2>1, OneHolder
<1>5. CASE a.field \in {"right_link", "high_key"} /\ b.field \in {"right_link", "high_key"}
  <2>1. /\ pc[t] = "split" /\ pc[u] = "split"
        /\ a.to \in {cur[t], rc[t]} /\ b.to \in {cur[u], rc[u]}
    BY <1>1, <1>2, <1>5 DEF GoodStore, LinkStore
  <2>2. SUFFICES ASSUME t # u PROVE FALSE
    OBVIOUS
  <2>3. cur[t] # cur[u]
    BY <1>3, <2>2, OneHolder
  <2>4. cur[t] # rc[u] /\ cur[u] # rc[t] /\ rc[t] # rc[u]
    BY <1>2, <2>1, <2>2 DEF Ranges, Apart, Splitting, InTransit
  <2> QED BY <1>1, <2>1, <2>3, <2>4
<1> QED BY <1>1, <1>4, <1>5

\* What is stored and what waits: after the step, less is pending.
LEMMA PendingStored ==
    ASSUME NEW t, NEW q, NEW st, NEW rest, NEW x, Storing(t, q, st, rest, x), NEW p, NEW field,
           Pending(p, field)
    PROVE  Pending(p, field)' \/ (st.to = p /\ st.field = field)
<1>1. PICK u \in Threads : \E j \in DOMAIN stores[u] : stores[u][j].to = p /\ stores[u][j].field = field
  BY DEF Pending
<1>2. PICK j \in DOMAIN stores[u] : stores[u][j].to = p /\ stores[u][j].field = field
  BY <1>1
<1>3. CASE u # t
  <2>1. stores'[u] = stores[u]
    BY <1>3 DEF Storing
  <2> QED BY <1>2, <2>1 DEF Pending
<1>4. CASE u = t /\ j # 1
  <2>1. j - 1 \in DOMAIN stores'[t] /\ stores'[t][j - 1] = stores[t][j]
    BY <1>4 DEF Storing
  <2> QED BY <1>2, <1>4, <2>1 DEF Pending
<1>5. CASE u = t /\ j = 1
  BY <1>2, <1>5 DEF Storing
<1> QED BY <1>3, <1>4, <1>5

LEMMA LinkedStored ==
    ASSUME NEW low, NEW lev, Ranges(low, lev), NEW t, NEW q, NEW st, NEW rest, NEW x,
           Storing(t, q, st, rest, x), NEW p \in DOMAIN node
    PROVE  Linked(low, lev, p)'
<1>1. Linked(low, lev, p) /\ LinkStore(low, lev, t, 1) /\ stores[t][1] = st
  BY DEF Ranges, NodeRange, ThreadRange, Linking, Storing
<1>2. /\ node'[p].right_link =
            IF st.field = "right_link" /\ p = st.to THEN st.value ELSE node[p].right_link
      /\ node'[p].high_key =
            IF st.field = "high_key" /\ p = st.to THEN st.value ELSE node[p].high_key
  BY DEF Storing
<1>3. ASSUME ~Pending(p, "right_link")' PROVE IsNext(low, lev, p, node'[p].right_link)
  <2>1. ~Pending(p, "right_link") \/ (st.to = p /\ st.field = "right_link")
    BY <1>3, PendingStored
  <2> QED BY <1>1, <1>2, <2>1 DEF Linked, LinkStore
<1>4. ASSUME ~Pending(p, "high_key")' PROVE IsHigh(low, lev, p, node'[p].high_key)
  <2>1. ~Pending(p, "high_key") \/ (st.to = p /\ st.field = "high_key")
    BY <1>4, PendingStored
  <2> QED BY <1>1, <1>2, <2>1 DEF Linked, LinkStore
<1> QED BY <1>3, <1>4 DEF Linked

\* The first of the stores of a link or a high key.
LEMMA LinkingStored ==
    ASSUME TreeInv, NEW low, NEW lev, Ranges(low, lev), NEW t, NEW q, NEW st, NEW rest, NEW x,
           Storing(t, q, st, rest, x), NEW u \in Threads
    PROVE  Linking(low, lev, u)'
<1>1. pc' = pc /\ rc' = rc /\ stores[t][1] = st /\ 1 \in DOMAIN stores[t] /\ t \in Threads
  BY DEF Storing
<1>2. Linking(low, lev, u)
  BY DEF Ranges, ThreadRange
<1>3. CASE u # t
  <2>1. stores'[u] = stores[u]
    BY <1>3 DEF Storing
  <2>2. ASSUME NEW j \in DOMAIN stores[u], stores[u][j].field = "right_link", stores[u][j].to = rc[u],
               node[rc[u]].right_link = NULL
        PROVE  node'[rc[u]].right_link = NULL
    <3>1. stores[u][j].to \in DOMAIN node
      BY StoresGo
    <3>2. st.field = "right_link" => st.to # rc[u]
      BY <1>1, <1>3, <2>2, OneStorer
    <3> QED BY <2>2, <3>1, <3>2 DEF Storing
  <2>3. ASSUME NEW j \in DOMAIN stores[u] PROVE LinkStore(low, lev, u, j)'
    <3>1. LinkStore(low, lev, u, j)
      BY <1>2 DEF Linking
    <3> QED BY <1>1, <2>1, <2>2, <3>1 DEF LinkStore
  <2> QED BY <2>1, <2>3 DEF Linking
<1>4. CASE u = t
  <2>1. /\ q = stores[t] /\ rest = stores'[t]
        /\ \A j \in DOMAIN rest : j \in Nat \ {0} /\ j + 1 \in DOMAIN q /\ rest[j] = q[j + 1]
        /\ \A j \in DOMAIN q : j \in Nat /\ (j # 1 => j - 1 \in DOMAIN rest /\ q[j] = rest[j - 1])
    BY DEF Storing
  <2>2. ASSUME NEW j \in DOMAIN rest PROVE LinkStore(low, lev, t, j)'
    <3>1. PICK k : k = j + 1 /\ k \in DOMAIN q /\ rest[j] = q[k] /\ k \in Nat /\ k # 1 /\ j \in Nat
      BY <2>1
    <3>2. LinkStore(low, lev, t, k) /\ LinkStore(low, lev, t, 1)
      BY <1>1, <1>2, <1>4, <2>1, <3>1 DEF Linking
    <3>3. /\ rest[j].field \in {"right_link", "high_key"} => pc'[t] = "split"
          /\ rest[j].field = "right_link" => IsNext(low, lev, rest[j].to, rest[j].value)
          /\ rest[j].field = "high_key" => IsHigh(low, lev, rest[j].to, rest[j].value)
      BY <1>1, <2>1, <3>1, <3>2 DEF LinkStore
    <3>4. ASSUME rest[j].field = "right_link", rest[j].to = rc'[t] PROVE node'[rc[t]].right_link = NULL
      <4>1. q[k].to = rc[t] /\ q[k].field = "right_link" /\ node[rc[t]].right_link = NULL
        BY <1>1, <2>1, <3>1, <3>2, <3>4 DEF LinkStore
      <4>2. ~(st.field = "right_link" /\ st.to = rc[t])
        BY <1>1, <2>1, <3>1, <3>2, <4>1 DEF LinkStore
      <4>3. rc[t] \in DOMAIN node
        BY <2>1, <3>1, <4>1, StoresGo, <1>1
      <4> QED BY <4>1, <4>2, <4>3 DEF Storing
    <3>5. ASSUME NEW m \in DOMAIN rest, rest[m].field = "right_link", rest[m].to = rest[j].to
          PROVE  /\ rest[j].field = "right_link" => m = j
                 /\ rest[j].field = "high_key" => j < m
      <4>1. PICK l : l = m + 1 /\ l \in DOMAIN q /\ rest[m] = q[l] /\ m \in Nat
        BY <2>1
      <4>2. /\ q[j + 1].field = "right_link" => l = j + 1
            /\ q[j + 1].field = "high_key" => j + 1 < l
        BY <2>1, <3>1, <3>2, <3>5, <4>1 DEF LinkStore
      <4> QED BY <3>1, <4>1, <4>2
    <3>6. ASSUME rest[j].field = "high_key"
          PROVE  \E m \in DOMAIN rest : rest[m].field = "right_link" /\ rest[m].to = rest[j].to
      <4>1. PICK m \in DOMAIN q : q[m].field = "right_link" /\ q[m].to = q[k].to
        BY <2>1, <3>1, <3>2, <3>6 DEF LinkStore
      <4>2. k < m
        BY <2>1, <3>1, <3>2, <3>6, <4>1 DEF LinkStore
      <4>3. m # 1 /\ m \in Nat
        BY <2>1, <3>1, <4>2
      <4> QED BY <2>1, <3>1, <4>1, <4>3
    <3> QED BY <1>1, <2>1, <3>3, <3>4, <3>5, <3>6 DEF LinkStore
  <2> QED BY <1>4, <2>1, <2>2 DEF Linking
<1> QED BY <1>3, <1>4

\* The next node is there, and the high key is before its link.
LEMMA PointingStored ==
    ASSUME TreeInv, NEW low, NEW lev, Ranges(low, lev), NEW t, NEW q, NEW st, NEW rest, NEW x,
           Storing(t, q, st, rest, x), NEW p \in DOMAIN node
    PROVE  Pointing(low, lev, p)'
<1>1. /\ Pointing(low, lev, p) /\ Linked(low, lev, p) /\ Bounds(low, lev, DOMAIN node)
      /\ LinkStore(low, lev, t, 1) /\ stores[t][1] = st /\ stores[t] # <<>>
      /\ Way(low, lev, t) /\ t \in Threads /\ GoodStore(t, st) /\ 1 \in DOMAIN stores[t]
      /\ pc[t] \in {"added", "split"} /\ st.to \in DOMAIN node
  <2>1. stores[t] # <<>>
    BY DEF Storing
  <2> QED BY <2>1 DEF Ranges, Placed, NodeRange, ThreadRange, Linking, Storing
<1>2. /\ node'[p].isLeaf = node[p].isLeaf
      /\ \A s \in ChiSlots : node'[p].chi[s] =
            IF st.field = "chi" /\ p = st.to /\ s = st.slot THEN st.value ELSE node[p].chi[s]
      /\ node'[p].right_link =
            IF st.field = "right_link" /\ p = st.to THEN st.value ELSE node[p].right_link
      /\ node'[p].high_key =
            IF st.field = "high_key" /\ p = st.to THEN st.value ELSE node[p].high_key
      /\ node'[p].parent = IF st.field = "parent" /\ p = x THEN st.to ELSE node[p].parent
      /\ ~node[st.to].isLeaf
  BY DEF Storing
<1>3. node'[p].isLeaf <=> lev[p] = 0
  BY <1>1, <1>2 DEF Pointing
<1>4. ASSUME node'[p].parent # NULL PROVE Under(low, lev, node'[p].parent, p)
  <2>1. CASE st.field = "parent" /\ p = x
    <3>1. p = node[st.to].chi[st.slot] /\ p # NULL /\ st.slot \in ChiSlots
      BY <1>1, <2>1, Addresses DEF Storing, GoodStore
    <3>2. Pointing(low, lev, st.to) /\ ~node[st.to].isLeaf
      BY <1>1, <1>2 DEF Ranges, NodeRange
    <3> QED BY <1>2, <2>1, <3>1, <3>2 DEF Pointing
  <2>2. CASE ~(st.field = "parent" /\ p = x)
    BY <1>1, <1>2, <1>4, <2>2 DEF Pointing
  <2> QED BY <2>1, <2>2
<1>5. ASSUME ~node'[p].isLeaf, NEW s \in ChiSlots, node'[p].chi[s] # NULL
      PROVE  Under(low, lev, p, node'[p].chi[s])
  <2>1. CASE st.field = "chi" /\ p = st.to /\ s = st.slot
    <3>1. Separated(low, lev, p)
      BY <1>2, <1>5 DEF Ranges, NodeRange
    <3>2. PICK f, g, n : Separators(low, lev, p, f, g, n) /\ Reaches(p, f, g, n)
      BY <3>1 DEF Separated
    <3>3. Sets(p, f, g, n, stores[t], 1)
      BY <1>1, <3>2 DEF Reaches
    <3>4. s \in 0 .. n /\ st.value = g[s]
      BY <1>1, <2>1, <3>3 DEF Sets
    <3> QED BY <1>2, <2>1, <3>2, <3>4 DEF Separators
  <2>2. CASE ~(st.field = "chi" /\ p = st.to /\ s = st.slot)
    BY <1>1, <1>2, <1>5, <2>2 DEF Pointing
  <2> QED BY <2>1, <2>2
<1>6. ASSUME node'[p].right_link # NULL
      PROVE  Right(low, lev, p, node'[p].right_link) /\ node'[p].high_key <= low[node'[p].right_link]
  <2>1. CASE st.field = "right_link" /\ p = st.to
    <3>1. IsNext(low, lev, p, st.value)
      BY <1>1, <2>1 DEF LinkStore
    <3>2. Right(low, lev, p, st.value) /\ low[st.value] \in Nat
      BY <1>1, <1>2, <1>6, <2>1, <3>1 DEF IsNext, Right, Bounds
    <3>3. ASSUME Pending(p, "high_key") PROVE FALSE
      <4>1. PICK u \in Threads : \E j \in DOMAIN stores[u] : stores[u][j].to = p /\ stores[u][j].field = "high_key"
        BY <3>3 DEF Pending
      <4>2. PICK j \in DOMAIN stores[u] : stores[u][j].to = p /\ stores[u][j].field = "high_key"
        BY <4>1
      <4>3. u = t
        BY <1>1, <2>1, <4>2, OneStorer
      <4>4. LinkStore(low, lev, t, j)
        BY <4>2, <4>3 DEF Ranges, ThreadRange, Linking
      <4>5. j < 1 /\ j \in Nat /\ j # 0
        BY <1>1, <2>1, <4>2, <4>3, <4>4, StoresAre DEF LinkStore, TreeInv
      <4> QED BY <4>5
    <3>4. node[p].high_key = low[st.value]
      BY <1>1, <3>1, <3>2, <3>3 DEF Linked, IsHigh, Right
    <3> QED BY <1>2, <2>1, <3>2, <3>4
  <2>2. CASE st.field = "high_key" /\ p = st.to
    <3>1. PICK l : l = node[p].right_link /\ l # NULL /\ Right(low, lev, p, l)
      BY <1>1, <1>2, <1>6, <2>2 DEF Pointing
    <3>2. pc[t] = "split" /\ IsHigh(low, lev, p, st.value)
      BY <1>1, <2>2 DEF LinkStore
    <3>3. p = cur[t]
      <4>1. SUFFICES ASSUME p = rc[t] PROVE FALSE
        BY <1>1, <2>2 DEF GoodStore
      <4>2. PICK m \in DOMAIN stores[t] : stores[t][m].field = "right_link" /\ stores[t][m].to = p
        BY <1>1, <2>2 DEF LinkStore
      <4>3. LinkStore(low, lev, t, m)
        BY <1>1 DEF Ranges, ThreadRange, Linking
      <4> QED BY <3>1, <4>1, <4>2, <4>3 DEF LinkStore
    <3>4. IsNext(low, lev, p, rc[t])
      BY <1>1, <3>2, <3>3 DEF Way, InTransit, Half
    <3>5. rc[t] \in DOMAIN low /\ l \in DOMAIN low /\ low[rc[t]] <= low[l]
      BY <3>1, <3>4 DEF IsNext, Right
    <3>6. st.value = low[rc[t]]
      BY <3>2, <3>4, <3>5 DEF IsHigh
    <3> QED BY <1>2, <2>2, <3>1, <3>5, <3>6
  <2>3. CASE ~(st.field \in {"right_link", "high_key"} /\ p = st.to)
    BY <1>1, <1>2, <1>6, <2>3 DEF Pointing
  <2> QED BY <2>1, <2>2, <2>3
<1> QED BY <1>3, <1>4, <1>5, <1>6 DEF Pointing

LEMMA HasStored ==
    ASSUME NEW t, NEW q, NEW st, NEW rest, NEW x, Storing(t, q, st, rest, x),
           NEW u \in Threads, NEW c, Has(stores[u], c)
    PROVE  Has(stores[u], c)' \/ (c = st /\ u = t)
<1>1. PICK j \in DOMAIN stores[u] : stores[u][j] = c
  BY DEF Has
<1>2. CASE u # t
  BY <1>1, <1>2 DEF Storing, Has
<1>3. CASE u = t /\ j # 1
  <2>1. j - 1 \in DOMAIN stores'[t] /\ stores'[t][j - 1] = stores[t][j]
    BY <1>3 DEF Storing
  <2> QED BY <1>1, <1>3, <2>1 DEF Has
<1>4. CASE u = t /\ j = 1
  BY <1>1, <1>4 DEF Storing
<1> QED BY <1>2, <1>3, <1>4

\* The store brings p nearer to its keys and children.
Nears(p, st, f, g, n) ==
    st.to = p =>
        /\ st.field = "key" => st.slot \in 0 .. n - 1 /\ st.value = f[st.slot]
        /\ st.field = "chi" => st.slot \in 0 .. n /\ st.value = g[st.slot]
        /\ st.field = "nkey" => st.value = n

LEMMA ReachesStored ==
    ASSUME TreeInv, NEW t, NEW q, NEW st, NEW rest, NEW x, Storing(t, q, st, rest, x),
           NEW p \in DOMAIN node, NEW f, NEW g, NEW n \in 0 .. N - 1, Reaches(p, f, g, n)
    PROVE  Reaches(p, f, g, n)' /\ Nears(p, st, f, g, n)
<1>1. /\ \A s \in Slots : node'[p].key[s] =
            IF st.field = "key" /\ p = st.to /\ s = st.slot THEN st.value ELSE node[p].key[s]
      /\ \A s \in ChiSlots : node'[p].chi[s] =
            IF st.field = "chi" /\ p = st.to /\ s = st.slot THEN st.value ELSE node[p].chi[s]
      /\ node'[p].nkey = IF st.field = "nkey" /\ p = st.to THEN st.value ELSE node[p].nkey
      /\ t \in Threads /\ 1 \in DOMAIN stores[t] /\ stores[t][1] = st
  BY DEF Storing
<1>2. Nears(p, st, f, g, n)
  <2>1. Sets(p, f, g, n, stores[t], 1)
    BY <1>1 DEF Reaches
  <2> QED BY <1>1, <2>1 DEF Sets, Nears
<1>3. ASSUME NEW s \in 0 .. n - 1
      PROVE  \/ node'[p].key[s] = f[s]
             \/ \E u \in Threads : Has(stores[u], PutAt(p, "key", s, f[s]))'
  <2>1. s \in Slots
    BY Halves DEF Slots
  <2>2. CASE node[p].key[s] = f[s]
    BY <1>1, <1>2, <2>1, <2>2 DEF Nears
  <2>3. ASSUME NEW u \in Threads, Has(stores[u], PutAt(p, "key", s, f[s]))
        PROVE  node'[p].key[s] = f[s] \/ Has(stores[u], PutAt(p, "key", s, f[s]))'
    <3>1. PICK c : c = PutAt(p, "key", s, f[s])
      OBVIOUS
    <3>2. Has(stores[u], c)' \/ c = st
      BY <2>3, <3>1, HasStored
    <3>3. c = st => node'[p].key[s] = f[s]
      BY <1>1, <2>1, <3>1 DEF PutAt
    <3> QED BY <3>1, <3>2, <3>3
  <2> QED BY <2>2, <2>3 DEF Reaches
<1>4. ASSUME NEW s \in 0 .. n
      PROVE  \/ node'[p].chi[s] = g[s]
             \/ \E u \in Threads : Has(stores[u], PutAt(p, "chi", s, g[s]))'
  <2>1. s \in ChiSlots
    BY Halves DEF ChiSlots
  <2>2. CASE node[p].chi[s] = g[s]
    BY <1>1, <1>2, <2>1, <2>2 DEF Nears
  <2>3. ASSUME NEW u \in Threads, Has(stores[u], PutAt(p, "chi", s, g[s]))
        PROVE  node'[p].chi[s] = g[s] \/ Has(stores[u], PutAt(p, "chi", s, g[s]))'
    <3>1. PICK c : c = PutAt(p, "chi", s, g[s])
      OBVIOUS
    <3>2. Has(stores[u], c)' \/ c = st
      BY <2>3, <3>1, HasStored
    <3>3. c = st => node'[p].chi[s] = g[s]
      BY <1>1, <2>1, <3>1 DEF PutAt
    <3> QED BY <3>1, <3>2, <3>3
  <2> QED BY <2>2, <2>3 DEF Reaches
<1>5. node'[p].nkey = n \/ \E u \in Threads : Has(stores[u], Put(p, "nkey", n))'
  <2>1. CASE node[p].nkey = n
    BY <1>1, <1>2, <2>1 DEF Nears
  <2>2. ASSUME NEW u \in Threads, Has(stores[u], Put(p, "nkey", n))
        PROVE  node'[p].nkey = n \/ Has(stores[u], Put(p, "nkey", n))'
    <3>1. PICK c : c = Put(p, "nkey", n)
      OBVIOUS
    <3>2. Has(stores[u], c)' \/ c = st
      BY <2>2, <3>1, HasStored
    <3>3. c = st => node'[p].nkey = n
      BY <1>1, <3>1 DEF Put
    <3> QED BY <3>1, <3>2, <3>3
  <2> QED BY <2>1, <2>2 DEF Reaches
<1>6. n <= node[p].nkey => n <= node'[p].nkey
  BY <1>1, <1>2 DEF Nears
<1>7. ASSUME NEW u \in Threads, NEW j \in DOMAIN stores'[u] PROVE Sets(p, f, g, n, stores[u], j)'
  <2>1. CASE u # t
    <3>1. stores'[u] = stores[u]
      BY <2>1 DEF Storing
    <3>2. Sets(p, f, g, n, stores[u], j)
      BY <1>7, <3>1 DEF Reaches
    <3> QED BY <1>6, <3>1, <3>2 DEF Sets
  <2>2. CASE u = t
    <3>1. /\ q = stores[t] /\ rest = stores'[t]
          /\ \A m \in DOMAIN rest : m \in Nat \ {0} /\ m + 1 \in DOMAIN q /\ rest[m] = q[m + 1]
      BY DEF Storing
    <3>2. PICK k \in Nat : k = j + 1 /\ k \in DOMAIN q /\ rest[j] = q[k] /\ j \in Nat
      BY <1>7, <2>2, <3>1
    <3>3. Sets(p, f, g, n, q, k)
      BY <1>1, <3>1, <3>2 DEF Reaches
    <3>4. ASSUME NEW m \in DOMAIN rest, m + 1 < k PROVE m < j
      BY <3>1, <3>2, <3>4
    <3> QED BY <1>6, <2>2, <3>1, <3>2, <3>3, <3>4 DEF Sets
  <2> QED BY <2>1, <2>2
<1> QED BY <1>2, <1>3, <1>4, <1>5, <1>7 DEF Reaches

\* The separators are the same, and Larger holds of the stored key.
LEMMA SeparatedStored ==
    ASSUME TreeInv, NEW low, NEW lev, Ranges(low, lev), NEW t, NEW q, NEW st, NEW rest, NEW x,
           Storing(t, q, st, rest, x), NEW p \in DOMAIN node, ~node[p].isLeaf
    PROVE  Separated(low, lev, p)'
<1>1. PICK f, g, n : /\ Separators(low, lev, p, f, g, n)
                     /\ Larger(low, lev, p, f, n)
                     /\ Reaches(p, f, g, n)
  BY DEF Ranges, NodeRange, Separated
<1>2. n \in 0 .. N - 1 /\ f \in [Slots -> Nat]
  BY <1>1 DEF Separators
<1>3. Reaches(p, f, g, n)' /\ Nears(p, st, f, g, n)
  BY <1>1, <1>2, ReachesStored
<1>4. Separators(low, lev, p, f, g, n)'
  <2>1. pc' = pc /\ rc' = rc
    BY DEF Storing
  <2> QED BY <1>1, <2>1 DEF Separators, InTransit
<1>5. Larger(low, lev, p, f, n)'
  <2>1. ASSUME NEW s \in Slots, node'[p].key[s] # 0
        PROVE  /\ s < n => f[s] <= node'[p].key[s]
               /\ s >= n => ~Below(low, lev, p, node'[p].key[s])
    <3>1. node'[p].key[s] =
              IF st.field = "key" /\ p = st.to /\ s = st.slot THEN st.value ELSE node[p].key[s]
      BY DEF Storing
    <3>2. CASE st.field = "key" /\ p = st.to /\ s = st.slot
      <4>1. node'[p].key[s] = f[s] /\ s \in 0 .. n - 1 /\ f[s] \in Nat
        BY <1>2, <1>3, <3>1, <3>2 DEF Nears
      <4> QED BY <1>2, <4>1
    <3>3. CASE ~(st.field = "key" /\ p = st.to /\ s = st.slot)
      BY <1>1, <2>1, <3>1, <3>3 DEF Larger
    <3> QED BY <3>2, <3>3
  <2> QED BY <2>1 DEF Larger
<1> QED BY <1>3, <1>4, <1>5 DEF Separated

\* A child is there before the key in front of it.
LEMMA ReadableStored ==
    ASSUME TreeInv, NEW low, NEW lev, Ranges(low, lev), NEW t, NEW q, NEW st, NEW rest, NEW x,
           Storing(t, q, st, rest, x), NEW p \in DOMAIN node, ~node[p].isLeaf
    PROVE  Readable(low, lev, p)'
<1>1. PICK f, g, n : /\ Separators(low, lev, p, f, g, n)
                     /\ Larger(low, lev, p, f, n)
                     /\ Reaches(p, f, g, n)
  BY DEF Ranges, NodeRange, Separated
<1>2. n \in 0 .. N - 1 /\ f \in [Slots -> Nat]
  BY <1>1 DEF Separators
<1>3. Nears(p, st, f, g, n)
  BY <1>1, <1>2, ReachesStored
<1>4. /\ \A s \in Slots : node'[p].key[s] =
            IF st.field = "key" /\ p = st.to /\ s = st.slot THEN st.value ELSE node[p].key[s]
      /\ \A s \in ChiSlots : node'[p].chi[s] =
            IF st.field = "chi" /\ p = st.to /\ s = st.slot THEN st.value ELSE node[p].chi[s]
      /\ node'[p].nkey = IF st.field = "nkey" /\ p = st.to THEN st.value ELSE node[p].nkey
      /\ t \in Threads /\ 1 \in DOMAIN stores[t] /\ stores[t][1] = st
  BY DEF Storing
<1>5. Readable(low, lev, p) /\ Bounds(low, lev, DOMAIN node) /\ TypeOK
  BY RangesGive DEF Ranges, NodeRange
<1>6. low[p] \in Nat /\ \A s \in 0 .. n : g[s] \in DOMAIN node /\ g[s] # NULL /\ low[g[s]] \in Nat
  BY <1>1, <1>5, Addresses DEF Separators, Under, Bounds
<1>7. \A s \in 0 .. n - 1 : f[s] # 0 /\ s \in Slots /\ s + 1 \in 0 .. n
  <2>1. \A s \in 0 .. n - 1 : s \in Slots /\ s + 1 \in 0 .. n
    BY <1>2, Halves DEF Slots
  <2> QED BY <1>1, <1>2, <1>6, <2>1 DEF Separators
<1>8. Sets(p, f, g, n, stores[t], 1)
  BY <1>1, <1>4 DEF Reaches
<1>9. ASSUME NEW u \in Threads, NEW c, Has(stores[u], c), c.to = p, c.field \in {"key", "chi", "nkey"},
             st.to = p, st.field \in {"key", "chi", "nkey"}
      PROVE  \E j \in DOMAIN stores[t] : stores[t][j] = c /\ ~(j < 1)
  <2>1. PICK j \in DOMAIN stores[u] : stores[u][j] = c
    BY <1>9 DEF Has
  <2>2. u = t
    BY <1>4, <1>9, <2>1, OneStorer
  <2>3. j \in Nat \ {0}
    BY <2>1, StoresAre, <1>5
  <2> QED BY <2>1, <2>2, <2>3
<1>10. node'[p].chi[0] # NULL /\ low[node'[p].chi[0]] = low[p]
  <2>1. 0 \in ChiSlots /\ 0 \in 0 .. n
    BY <1>2, Halves DEF ChiSlots
  <2> QED BY <1>1, <1>3, <1>4, <1>5, <1>6, <2>1 DEF Nears, Separators, Readable
<1>11. ASSUME NEW s \in Slots, node'[p].key[s] # 0
       PROVE  node'[p].chi[s + 1] # NULL /\ low[node'[p].chi[s + 1]] <= node'[p].key[s]
  <2>1. s \in Nat /\ s + 1 \in ChiSlots
    BY Halves DEF Slots, ChiSlots
  <2>2. CASE st.field = "key" /\ p = st.to /\ s = st.slot
    <3>1. s \in 0 .. n - 1 /\ node'[p].key[s] = f[s] /\ s + 1 \in 0 .. n
      BY <1>3, <1>4, <1>7, <2>2 DEF Nears
    <3>2. node[p].chi[s + 1] = g[s + 1]
      <4>1. SUFFICES ASSUME NEW u \in Threads, Has(stores[u], PutAt(p, "chi", s + 1, g[s + 1]))
                     PROVE  FALSE
        BY <1>1, <3>1 DEF Reaches
      <4>2. PICK c : c = PutAt(p, "chi", s + 1, g[s + 1])
        OBVIOUS
      <4>3. c.to = p /\ c.field = "chi" /\ c.slot = s + 1
        BY <4>2 DEF PutAt
      <4>4. PICK j \in DOMAIN stores[t] : stores[t][j] = c /\ ~(j < 1)
        BY <1>9, <2>2, <4>1, <4>2, <4>3
      <4> QED BY <1>4, <1>8, <2>2, <4>3, <4>4 DEF Sets
    <3>3. node'[p].chi[s + 1] = g[s + 1]
      BY <1>4, <2>1, <2>2, <3>2
    <3>4. low[g[s + 1]] = f[s] /\ f[s] \in Nat
      BY <1>1, <1>2, <1>7, <3>1 DEF Separators
    <3> QED BY <1>6, <3>1, <3>3, <3>4
  <2>3. CASE st.field = "chi" /\ p = st.to /\ s + 1 = st.slot
    <3>1. node'[p].chi[s + 1] = g[s + 1] /\ node'[p].key[s] = node[p].key[s]
      BY <1>3, <1>4, <2>1, <2>3 DEF Nears
    <3>2. s \in 0 .. n - 1 /\ s < n /\ s + 1 \in 0 .. n
      BY <1>2, <1>3, <2>1, <2>3 DEF Nears
    <3>3. low[g[s + 1]] = f[s] /\ f[s] <= node[p].key[s]
      BY <1>1, <1>11, <3>1, <3>2 DEF Separators, Larger
    <3> QED BY <1>6, <3>1, <3>2, <3>3
  <2>4. CASE /\ ~(st.field = "key" /\ p = st.to /\ s = st.slot)
             /\ ~(st.field = "chi" /\ p = st.to /\ s + 1 = st.slot)
    BY <1>4, <1>5, <1>11, <2>1, <2>4 DEF Readable
  <2> QED BY <2>2, <2>3, <2>4
<1>12. ASSUME NEW s \in 0 .. node'[p].nkey - 1 PROVE node'[p].key[s] # 0
  <2>0. node[p].nkey \in 0 .. N - 1
    BY <1>5, NodeFields
  <2>1. s \in Slots /\ s \in Nat
    BY <1>2, <1>3, <1>4, <2>0, Halves DEF Slots, Nears
  <2>2. node[p].key[s] # 0 => node'[p].key[s] # 0
    BY <1>3, <1>4, <1>7, <2>1 DEF Nears
  <2>3. CASE s \in 0 .. node[p].nkey - 1
    BY <1>5, <2>2, <2>3 DEF Readable
  <2>4. CASE s \notin 0 .. node[p].nkey - 1
    <3>1. st.field = "nkey" /\ p = st.to /\ s \in 0 .. n - 1 /\ ~(n <= node[p].nkey)
      BY <1>2, <1>3, <1>4, <2>0, <2>1, <2>4 DEF Nears
    <3>2. node[p].key[s] = f[s]
      <4>1. SUFFICES ASSUME NEW u \in Threads, Has(stores[u], PutAt(p, "key", s, f[s]))
                     PROVE  FALSE
        BY <1>1, <3>1 DEF Reaches
      <4>2. PICK c : c = PutAt(p, "key", s, f[s])
        OBVIOUS
      <4>3. c.to = p /\ c.field = "key"
        BY <4>2 DEF PutAt
      <4>4. PICK j \in DOMAIN stores[t] : stores[t][j] = c /\ ~(j < 1)
        BY <1>9, <3>1, <4>1, <4>2, <4>3
      <4> QED BY <1>4, <1>8, <3>1, <4>3, <4>4 DEF Sets
    <3> QED BY <1>7, <2>2, <3>1, <3>2
  <2> QED BY <2>3, <2>4
<1> QED BY <1>10, <1>11, <1>12 DEF Readable

LEMMA KeysFallStored ==
    ASSUME TreeInv, NEW low, NEW lev, Ranges(low, lev), NEW t, NEW q, NEW st, NEW rest, NEW x,
           Storing(t, q, st, rest, x)
    PROVE  KeysFall
<1>1. ASSUME NEW p \in DOMAIN node, ~node[p].isLeaf, NEW s \in Slots, node[p].key[s] # 0
      PROVE  node'[p].key[s] \in 1 .. node[p].key[s]
  <2>1. PICK f, g, n : /\ Separators(low, lev, p, f, g, n)
                       /\ Larger(low, lev, p, f, n)
                       /\ Reaches(p, f, g, n)
    BY <1>1 DEF Ranges, NodeRange, Separated
  <2>2. n \in 0 .. N - 1 /\ f \in [Slots -> Nat] /\ node[p].key[s] \in Nat /\ low[p] \in Nat
    <3>1. n \in 0 .. N - 1 /\ f \in [Slots -> Nat]
      BY <2>1 DEF Separators
    <3>2. node[p].key[s] \in Nat /\ low[p] \in Nat
      BY NodeFields, RangesGive
    <3> QED BY <3>1, <3>2
  <2>3. Nears(p, st, f, g, n)
    BY <2>1, <2>2, ReachesStored
  <2>4. node'[p].key[s] =
            IF st.field = "key" /\ p = st.to /\ s = st.slot THEN st.value ELSE node[p].key[s]
    BY DEF Storing
  <2>5. CASE st.field = "key" /\ p = st.to /\ s = st.slot
    <3>1. s \in 0 .. n - 1 /\ node'[p].key[s] = f[s] /\ f[s] \in Nat
      BY <2>2, <2>3, <2>4, <2>5 DEF Nears
    <3>2. low[p] < f[s] /\ f[s] <= node[p].key[s]
      BY <1>1, <2>1, <2>2, <3>1 DEF Separators, Larger
    <3> QED BY <2>2, <3>1, <3>2
  <2>6. CASE ~(st.field = "key" /\ p = st.to /\ s = st.slot)
    BY <1>1, <2>2, <2>4, <2>6
  <2> QED BY <2>5, <2>6
<1> QED BY <1>1 DEF KeysFall

LEMMA WayStored ==
    ASSUME TreeInv, NEW low, NEW lev, Ranges(low, lev), NEW t, NEW q, NEW st, NEW rest, NEW x,
           Storing(t, q, st, rest, x), NEW u \in Threads
    PROVE  Way(low, lev, u)'
<1>1. /\ Way(low, lev, u) /\ PlaceInv(u) /\ TypeOK /\ KeysFall
      /\ Key_vector' = Key_vector /\ pc' = pc /\ i' = i /\ cur' = cur /\ nkey' = nkey
      /\ kid' = kid /\ lc' = lc /\ rc' = rc /\ lm_key' = lm_key
  <2>1. Way(low, lev, u) /\ PlaceInv(u) /\ TypeOK
    BY RangesGive DEF ThreadRange
  <2>2. KeysFall
    BY KeysFallStored
  <2> QED BY <2>1, <2>2 DEF Storing
<1>2. Key(u)' = Key(u) /\ Half(u)' = Half(u) /\ (InTransit(u)' <=> InTransit(u))
  BY <1>1 DEF Key, KeyOf, Half, InTransit, range
<1>3. pc[u] \in {"scan", "child"} =>
          /\ cur[u] \in DOMAIN node /\ ~node[cur[u]].isLeaf
          /\ kid[u] <= nkey[u] /\ kid[u] \in Nat /\ nkey[u] \in Nat /\ nkey[u] <= N - 1
          /\ \A s \in Slots : node[cur[u]].key[s] \in Nat
          /\ Key(u) \in Nat
  <2>1. ASSUME pc[u] \in {"scan", "child"}
        PROVE  /\ cur[u] \in DOMAIN node /\ ~node[cur[u]].isLeaf /\ kid[u] <= nkey[u]
    BY <1>1, <2>1 DEF PlaceInv, Internal
  <2>2. kid[u] \in 0 .. N - 1 /\ nkey[u] \in 0 .. N - 1
    BY <1>1 DEF TypeOK
  <2>3. kid[u] \in Nat /\ nkey[u] \in Nat /\ nkey[u] <= N - 1
    BY <2>2, Halves
  <2>4. ASSUME pc[u] \in {"scan", "child"} PROVE \A s \in Slots : node[cur[u]].key[s] \in Nat
    BY <1>1, <2>1, <2>4, NodeFields
  <2>5. pc[u] \in {"scan", "child"} => Key(u) \in Nat
    BY <1>1, InsertsAKey
  <2> QED BY <2>1, <2>3, <2>4, <2>5
<1>4. ASSUME pc[u] \in {"scan", "child"}, NEW s \in 0 .. kid[u] - 1
      PROVE  node'[cur[u]].key[s] # 0 /\ node'[cur[u]].key[s] < Key(u)
  <2>0. kid[u] \in Nat /\ kid[u] <= N - 1 /\ cur[u] \in DOMAIN node /\ ~node[cur[u]].isLeaf
    BY <1>3, <1>4, Halves
  <2>1. s \in Slots /\ cur[u] \in DOMAIN node /\ ~node[cur[u]].isLeaf
    <3>1. s \in Int /\ 0 <= s /\ s <= N - 2 /\ N \in Nat
      BY <1>4, <2>0, Halves
    <3> QED BY <2>0, <3>1 DEF Slots
  <2>2. node[cur[u]].key[s] # 0 /\ node[cur[u]].key[s] < Key(u)
    BY <1>1, <1>4 DEF Way
  <2>3. node'[cur[u]].key[s] \in 1 .. node[cur[u]].key[s]
    BY <1>1, <2>1, <2>2 DEF KeysFall
  <2> QED BY <1>3, <1>4, <2>1, <2>2, <2>3
<1>5. ASSUME pc[u] = "scan", NEW s \in 0 .. nkey[u] - 1
      PROVE  node'[cur[u]].key[s] # 0
  <2>1. s \in Slots /\ cur[u] \in DOMAIN node /\ ~node[cur[u]].isLeaf
    BY <1>3, <1>5, Halves
  <2>2. node[cur[u]].key[s] # 0
    BY <1>1, <1>5 DEF Way
  <2>3. node'[cur[u]].key[s] \in 1 .. node[cur[u]].key[s]
    BY <1>1, <2>1, <2>2 DEF KeysFall
  <2> QED BY <1>3, <1>5, <2>1, <2>3
<1> QED BY <1>1, <1>2, <1>4, <1>5 DEF Way

\* The right half that u splits off is not changed by another, and a node that
\* takes it for its parent was its child.
LEMMA UnlinkedStored ==
    ASSUME TreeInv, NEW low, NEW lev, Ranges(low, lev), NEW t, NEW q, NEW st, NEW rest, NEW x,
           Storing(t, q, st, rest, x), NEW u \in Threads
    PROVE  Unlinked(low, lev, u)'
<1>1. UNCHANGED <<pc, cur, lc, rc>>
  BY DEF Storing
<1>2. SUFFICES ASSUME Splitting(u)'
               PROVE  /\ \A s \in ChiSlots : node'[rc[u]].chi[s] # NULL =>
                            Below(low, lev, rc[u], low[node'[rc[u]].chi[s]])
                      /\ \A p \in DOMAIN node' : node'[p].parent = rc[u] => Below(low, lev, rc[u], low[p])
                      /\ \A v \in Threads : pc[v] \in {"lockparent", "parent"} /\ cur[v] = rc[u] =>
                            Below(low, lev, rc[u], low[lc[v]])
  BY <1>1 DEF Unlinked
<1>3. /\ t \in Threads /\ stores[t] # <<>> /\ GoodStore(t, st) /\ Splitting(u) /\ pc[u] = "split"
      /\ st.to \in DOMAIN node /\ st.slot \in ChiSlots /\ DOMAIN node' = DOMAIN node
      /\ pc[t] \in {"added", "split"} /\ x \in DOMAIN node
  <2>1. stores[t] # <<>> /\ t \in Threads
    BY DEF Storing
  <2>2. Splitting(u)
    <3>1. CASE u = t
      BY <1>1, <1>2, <2>1, <3>1 DEF Splitting
    <3>2. CASE u # t
      <4>1. stores'[u] = stores[u]
        BY <3>2 DEF Storing
      <4> QED BY <1>1, <1>2, <4>1 DEF Splitting
    <3> QED BY <3>1, <3>2
  <2> QED BY <2>1, <2>2 DEF Storing, Splitting
<1>4. /\ Unlinked(low, lev, u) /\ rc[u] \in DOMAIN node
  BY <1>3, RangesGive DEF ThreadRange, PlaceInv, Internal
<1>5. ASSUME st.field = "chi", st.to = rc[u] PROVE Below(low, lev, rc[u], low[st.value])
  <2>0. ~node[rc[u]].isLeaf /\ NodeRange(low, lev, rc[u])
    BY <1>4, <1>5, RangesGive DEF Storing
  <2>1. PICK f, g, n : Separators(low, lev, rc[u], f, g, n) /\ Reaches(rc[u], f, g, n)
    BY <2>0 DEF NodeRange, Separated
  <2>2. n \in 0 .. N - 1
    BY <2>1 DEF Separators
  <2>3. Nears(rc[u], st, f, g, n)
    BY <1>4, <2>1, <2>2, ReachesStored
  <2>4. st.slot \in 0 .. n /\ st.value = g[st.slot]
    BY <1>5, <2>3 DEF Nears
  <2>5. CASE st.slot = 0
    BY <2>1, <2>4, <2>5 DEF Separators, Below, Right
  <2>6. CASE st.slot # 0
    <3>1. PICK s \in 0 .. n - 1 : st.slot = s + 1
      <4>1. st.slot - 1 \in 0 .. n - 1 /\ st.slot = (st.slot - 1) + 1
        BY <2>2, <2>4, <2>6
      <4> QED BY <4>1
    <3> QED BY <2>1, <2>4, <3>1 DEF Separators
  <2> QED BY <2>5, <2>6
<1>6. ASSUME NEW s \in ChiSlots, node'[rc[u]].chi[s] # NULL
      PROVE  Below(low, lev, rc[u], low[node'[rc[u]].chi[s]])
  <2>1. node'[rc[u]].chi[s] =
            IF st.field = "chi" /\ rc[u] = st.to /\ s = st.slot THEN st.value ELSE node[rc[u]].chi[s]
    BY <1>4 DEF Storing
  <2> QED BY <1>3, <1>4, <1>5, <1>6, <2>1 DEF Unlinked
<1>7. ASSUME NEW p \in DOMAIN node', node'[p].parent = rc[u] PROVE Below(low, lev, rc[u], low[p])
  <2>1. p \in DOMAIN node
    BY <1>3
  <2>2. CASE st.field = "parent" /\ p = x
    <3>1. st.to = rc[u] /\ p = node[st.to].chi[st.slot]
      BY <1>7, <2>1, <2>2 DEF Storing
    <3>2. node[rc[u]].chi[st.slot] # NULL
      BY <2>2, <3>1, <1>3 DEF GoodStore
    <3> QED BY <1>3, <1>4, <3>1, <3>2 DEF Unlinked
  <2>3. CASE ~(st.field = "parent" /\ p = x)
    <3>1. node'[p].parent = node[p].parent
      BY <2>1, <2>3 DEF Storing
    <3> QED BY <1>3, <1>4, <1>7, <2>1, <3>1 DEF Unlinked
  <2> QED BY <2>2, <2>3
<1> QED BY <1>3, <1>4, <1>6, <1>7 DEF Unlinked

LEMMA PlacedStored ==
    ASSUME TreeInv, ParentInv, ~early, NEW low, NEW lev, Ranges(low, lev), NEW t, NEW q, NEW st, NEW rest,
           NEW x, Storing(t, q, st, rest, x)
    PROVE  Placed(low, lev)'
<1>1. /\ pc' = pc /\ Root' = Root /\ DOMAIN node' = DOMAIN node /\ Placed(low, lev)
      /\ Root \in DOMAIN node
  <2>1. Root \in DOMAIN node
    BY RootIsNode, RangesGive
  <2> QED BY <2>1 DEF Ranges, Storing
<1>2. NewRoot' = NewRoot
  <2>1. node'[Root].parent = IF st.field = "parent" /\ Root = x THEN st.to ELSE node[Root].parent
    BY <1>1 DEF Storing
  <2>2. ASSUME st.field = "parent", Root = x PROVE st.to = NewRoot
    <3>1. node[st.to].chi[st.slot] = Root /\ st.to \in DOMAIN node /\ st.slot \in ChiSlots
      BY <2>2 DEF Storing
    <3> QED BY <3>1 DEF ParentInv, RootIsNoChild
  <2> QED BY <1>1, <2>1, <2>2 DEF NewRoot
<1> QED BY <1>1, <1>2 DEF Placed

LEMMA LeafKeysStored ==
    ASSUME TreeInv, NEW low, NEW lev, Ranges(low, lev), NEW t, NEW q, NEW st, NEW rest,
           NEW x, Storing(t, q, st, rest, x), NEW p \in DOMAIN node
    PROVE  LeafKeys(low, lev, p)'
<1>1. SUFFICES ASSUME node[p].isLeaf
               PROVE  /\ \A s \in 0 .. node[p].nkey - 1 :
                            /\ low[p] < node[p].key[s]
                            /\ AtMost(low, lev, p, node[p].key[s])
                            /\ Inserted(node[p].key[s])'
                      /\ \A a, b \in 0 .. node[p].nkey - 1 : a < b => node[p].key[a] < node[p].key[b]
  <2>1. /\ node'[p].isLeaf = node[p].isLeaf
        /\ node[p].isLeaf => node'[p].key = node[p].key /\ node'[p].nkey = node[p].nkey
    BY DEF Storing
  <2> QED BY <2>1 DEF LeafKeys, Inserted, KeyOf, range
<1>2. LeafKeys(low, lev, p)
  BY RangesGive DEF NodeRange
<1>3. ASSUME NEW k, Inserted(k) PROVE Inserted(k)'
  <2>1. pc' = pc /\ i' = i /\ Key_vector' = Key_vector
    BY DEF Storing
  <2> QED BY <1>3, <2>1 DEF Inserted, KeyOf, range
<1>4. ASSUME NEW s \in 0 .. node[p].nkey - 1
      PROVE  /\ low[p] < node[p].key[s]
             /\ AtMost(low, lev, p, node[p].key[s])
             /\ Inserted(node[p].key[s])'
  <2>1. PICK k : k = node[p].key[s]
    OBVIOUS
  <2>2. low[p] < k /\ AtMost(low, lev, p, k) /\ Inserted(k)
    BY <1>1, <1>2, <2>1 DEF LeafKeys
  <2>3. Inserted(k)'
    BY <1>3, <2>2
  <2>4. node'[p].key = node[p].key
    BY <1>1 DEF Storing
  <2> QED BY <2>1, <2>2, <2>3, <2>4
<1> QED BY <1>1, <1>2, <1>4 DEF LeafKeys

LEMMA StoreRanges ==
    ASSUME TreeInv, ParentInv, ~early, NEW low, NEW lev, Ranges(low, lev), NEW t \in Threads, Store(t)
    PROVE  Ranges(low, lev)'
<1>1. PICK q, st, rest, x : Storing(t, q, st, rest, x)
  BY StoringIs
<1>2. Placed(low, lev)'
  BY <1>1, PlacedStored
<1>3. ASSUME NEW p \in DOMAIN node' PROVE NodeRange(low, lev, p)'
  <2>1. p \in DOMAIN node /\ node'[p].isLeaf = node[p].isLeaf
    BY <1>1 DEF Storing
  <2>2. Pointing(low, lev, p)' /\ Linked(low, lev, p)' /\ LeafKeys(low, lev, p)'
    BY <1>1, <2>1, PointingStored, LinkedStored, LeafKeysStored
  <2>3. ASSUME ~node[p].isLeaf PROVE Separated(low, lev, p)' /\ Readable(low, lev, p)'
    BY <1>1, <2>1, <2>3, SeparatedStored, ReadableStored
  <2> QED BY <2>1, <2>2, <2>3 DEF NodeRange
<1>4. ASSUME NEW u \in Threads PROVE ThreadRange(low, lev, u)'
  <2>1. Linking(low, lev, u)' /\ Way(low, lev, u)' /\ Unlinked(low, lev, u)'
    BY <1>1, LinkingStored, WayStored, UnlinkedStored
  <2> QED BY <2>1 DEF ThreadRange
<1>5. Apart'
  <2>1. pc' = pc /\ cur' = cur /\ rc' = rc
    BY <1>1 DEF Storing
  <2>2. ASSUME NEW u \in Threads, Splitting(u)' PROVE Splitting(u)
    <3>1. CASE u = t
      BY <1>1, <2>2, <3>1 DEF Splitting, Storing
    <3>2. CASE u # t
      <4>1. stores'[u] = stores[u]
        BY <1>1, <3>2 DEF Storing
      <4> QED BY <2>1, <2>2, <4>1 DEF Splitting
    <3> QED BY <3>1, <3>2
  <2>3. Apart
    BY DEF Ranges
  <2> QED BY <2>1, <2>2, <2>3 DEF Apart, InTransit
<1> QED BY <1>2, <1>3, <1>4, <1>5 DEF Ranges

-----------------------------------------------------------------------------
(* The invariant and the theorem *)

LEMMA InitRanges == Init => \E low, lev : Ranges(low, lev)
<1> SUFFICES ASSUME Init PROVE \E low, lev : Ranges(low, lev)
  OBVIOUS
<1>1. /\ Root = 1 /\ DOMAIN node = {1} /\ node[1].parent = NULL /\ node[1].right_link = NULL
      /\ node[1].isLeaf /\ node[1].nkey = 0
      /\ \A t \in Threads : /\ pc[t] = "insert" /\ cur[t] = NULL /\ lc[t] = NULL /\ rc[t] = NULL
                            /\ stores[t] = <<>>
  BY DEF Init, Alloc
<1>2. PICK low, lev : /\ low = [p \in {1} |-> 0] /\ lev = [p \in {1} |-> 0]
  OBVIOUS
<1>3. /\ DOMAIN low = {1} /\ low[1] = 0 /\ lev[1] = 0 /\ NULL # 1
      /\ low \in [{1} -> Nat] /\ lev \in [{1} -> Nat]
  BY <1>2, Halves
<1>4. ASSUME NEW q PROVE ~Right(low, lev, 1, q)
  BY <1>3 DEF Right
<1>5. Placed(low, lev)
  <2>1. Bounds(low, lev, DOMAIN node)
    BY <1>1, <1>3 DEF Bounds, Differ
  <2> QED BY <1>1, <1>3, <2>1 DEF Placed
<1>6. Linked(low, lev, 1)
  <2>1. IsNext(low, lev, 1, NULL)
    BY <1>4 DEF IsNext
  <2>2. IsHigh(low, lev, 1, node[1].high_key)
    BY <1>3, <1>4 DEF IsHigh, IsNext
  <2> QED BY <1>1, <2>1, <2>2 DEF Linked
<1>7. NodeRange(low, lev, 1)
  <2>1. Pointing(low, lev, 1)
    BY <1>1, <1>3 DEF Pointing
  <2>2. LeafKeys(low, lev, 1)
    BY <1>1 DEF LeafKeys
  <2> QED BY <1>1, <1>6, <2>1, <2>2 DEF NodeRange
<1>8. ASSUME NEW u \in Threads PROVE ThreadRange(low, lev, u)
  BY <1>1 DEF ThreadRange, Linking, Way, Unlinked, InTransit, Splitting
<1>9. Apart
  BY <1>1 DEF Apart, InTransit
<1> QED BY <1>1, <1>5, <1>7, <1>8, <1>9 DEF Ranges

LEMMA NextKeepsRanges == TreeInv /\ ParentInv /\ RangeInv /\ [Next]_vars => RangeInv'
<1> SUFFICES ASSUME TreeInv, ParentInv, RangeInv, [Next]_vars, ~early' PROVE \E low, lev : Ranges(low, lev)'
  BY DEF RangeInv
<1>1. ~early
  <2>1. ASSUME NEW t \in Threads, Step(t) PROVE early' = early \/ (early' <=> early \/ NotLinked(cur[t]))
    BY <2>1 DEF Step, ReadRoot, ReadNkey, ReadKey, ReadChild, LockLeaf, MoveRight, AddToLeaf, SplitLeaf,
                GrowRoot, PublishRoot, ReadParent, LockParent, LockNull, AddToParent, SplitInternal,
                Store, UnlockBoth, Ascend, SearchCore
  <2>2. StartSearch \/ UNCHANGED vars => early' = early
    BY DEF StartSearch, vars
  <2> QED BY <2>1, <2>2 DEF Next, Terminated
<1>2. PICK low, lev : Ranges(low, lev)
  BY <1>1 DEF RangeInv
<1>3. ASSUME NEW t \in Threads, Step(t) PROVE \E low2, lev2 : Ranges(low2, lev2)'
  <2>1. CASE ReadRoot(t) \/ ReadNkey(t) \/ ReadKey(t) \/ ReadChild(t) \/ LockLeaf(t)
    BY <1>2, <2>1, ReadRootRanges, ReadNkeyRanges, ReadKeyRanges, ReadChildRanges, LockLeafRanges
  <2>2. CASE MoveRight(t)
    BY <1>2, <2>2, MoveRightRanges
  <2>3. CASE AddToLeaf(t)
    BY <1>2, <2>3, AddToLeafRanges
  <2>4. CASE SplitLeaf(t)
    BY <1>2, <2>4, SplitLeafRanges
  <2>5. CASE GrowRoot(t)
    BY <1>1, <1>2, <2>5, GrowRootRanges
  <2>6. CASE PublishRoot(t)
    BY <1>1, <1>2, <2>6, PublishRootRanges
  <2>7. CASE ReadParent(t)
    BY <1>2, <2>7, ReadParentRanges
  <2>8. CASE LockParent(t) \/ LockNull(t)
    BY <1>2, <2>8, LockParentRanges
  <2>9. CASE AddToParent(t)
    BY <1>2, <2>9, AddToParentRanges
  <2>10. CASE SplitInternal(t)
    <3>1. ~NotLinked(cur[t])
      BY <2>10 DEF SplitInternal
    <3> QED BY <1>1, <1>2, <2>10, <3>1, SplitInternalRanges
  <2>11. CASE Store(t)
    BY <1>1, <1>2, <2>11, StoreRanges
  <2>12. CASE UnlockBoth(t)
    BY <1>2, <2>12, UnlockBothRanges
  <2>13. CASE Ascend(t)
    BY <1>2, <2>13, AscendRanges
  <2>14. CASE SearchCore(t)
    BY <1>2, <2>14, SearchCoreRanges
  <2> QED BY <1>3, <2>1, <2>2, <2>3, <2>4, <2>5, <2>6, <2>7, <2>8, <2>9, <2>10, <2>11,
             <2>12, <2>13, <2>14 DEF Step
<1>4. CASE StartSearch \/ UNCHANGED vars
  BY <1>2, <1>4, StartSearchRanges
<1> QED BY <1>3, <1>4 DEF Next, Terminated

LEMMA NotBeyond == TreeInv /\ RangeInv => NeverTooFarRight
<1> SUFFICES ASSUME TreeInv, RangeInv, ~early, NEW t \in Threads,
                    pc[t] \in {"descend", "scan", "child", "leaf", "lockparent", "parent"},
                    NEW p \in DOMAIN node, node[p].right_link = cur[t], cur[t] # NULL
             PROVE  node[p].high_key < Sought(t)
  BY DEF NeverTooFarRight
<1>1. PICK low, lev : Ranges(low, lev)
  BY DEF RangeInv
<1>2. /\ low \in [DOMAIN node -> Nat] /\ TypeOK /\ PlaceInv(t)
      /\ Way(low, lev, t) /\ Pointing(low, lev, p)
  BY <1>1, RangesGive DEF ThreadRange, NodeRange
<1>3. /\ node[p].high_key <= low[cur[t]] /\ cur[t] \in DOMAIN node
      /\ low[cur[t]] \in Nat /\ node[p].high_key \in Nat
  BY <1>2, NodeFields DEF Pointing, Right
<1>4. CASE pc[t] \in {"descend", "scan", "child", "leaf"}
  <2>1. low[cur[t]] < Key(t) /\ Sought(t) = Key(t)
    BY <1>2, <1>4 DEF Way, Sought
  <2>2. Key(t) \in Nat
    BY <1>2, <1>4, InsertsAKey
  <2> QED BY <1>3, <2>1, <2>2
<1>5. CASE pc[t] \in {"lockparent", "parent"}
  <2>1. /\ Sought(t) = lm_key[t] /\ lm_key[t] = low[rc[t]] /\ rc[t] \in DOMAIN node /\ rc[t] # NULL
        /\ lc[t] \in DOMAIN node
        /\ IsNext(low, lev, lc[t], rc[t]) /\ Under(low, lev, cur[t], lc[t])
    BY <1>2, <1>5, Addresses DEF Way, Sought, InTransit, Half, PlaceInv, Climbing
  <2>2. low[lc[t]] < low[rc[t]] /\ low[cur[t]] <= low[lc[t]]
    BY <2>1 DEF IsNext, Right, Under
  <2>3. low[lc[t]] \in Nat /\ low[rc[t]] \in Nat
    BY <1>2, <2>1
  <2> QED BY <1>3, <2>1, <2>2, <2>3
<1> QED BY <1>4, <1>5

\* On its way down without locks, and up by parent pointers out of date, a
\* thread is never to the right of the node for its key: move_right
\* (bltree.cc:200) finds that node.
THEOREM NotTooFarRight == Spec => []NeverTooFarRight
<1>1. Init => RangeInv
  BY InitRanges DEF RangeInv
<1> QED BY <1>1, TreeInvariant, InitParents, NextKeepsParents, NextKeepsRanges, NotBeyond, PTL DEF Spec

=============================================================================
