-------------------------- MODULE BTreeOrderViews --------------------------
(***************************************************************************)
(* What Ordered of BTreeOrderInv shows of a map: the leaves in the order   *)
(* of their links, their keys, lookups, and what validate() looks at; and  *)
(* which of it a step on another map leaves.                               *)
(***************************************************************************)
EXTENDS BTreeOrderCalls

-----------------------------------------------------------------------------
(***************************************************************************)
(* The nodes of a tree at any moment, the right half of a split, which is  *)
(* in no parent, among them.                                               *)
(***************************************************************************)

\* No set of nodes has for each of them one a level higher: the slots are
\* finite.
LEMMA HigherEnds ==
    ASSUME NEW owner, Wiring(owner), NEW G \in SUBSET live,
           \A c \in G : \E d \in G : level[d] = level[c] + 1
    PROVE  G = {}
<1>1. SUFFICES ASSUME NEW s \in G PROVE FALSE
    OBVIOUS
<1>3. live \subseteq Slots /\ level \in [Slots -> Nat]
    BY DEF Wiring, Forest
<1>4. PICK N \in Nat, l \in Nat : N = Cardinality(Slots) /\ l = level[s]
    BY <1>3, FS_CardinalityType, SlotsAssumption
<1>5. PICK up : up = [c \in G |-> CHOOSE d \in G : level[d] = level[c] + 1]
    OBVIOUS
<1>6. PICK A : A = [n \in Nat |-> {c \in G : level[c] = l + n}]
    OBVIOUS
<1>7. s \in A[0]
    BY <1>1, <1>4, <1>6
<1>8. ASSUME NEW n \in Nat, NEW c \in A[n]
      PROVE  up[c] \in A[n + 1]
    <2>1. c \in G /\ level[c] = l + n
        BY <1>6
    <2>2. up[c] \in G /\ level[up[c]] = level[c] + 1
        BY <1>5, <2>1
    <2>3. level[up[c]] = l + (n + 1)
        BY <2>1, <2>2
    <2>5. QED
        BY <1>6, <2>2, <2>3
<1>9. \A n \in 0 .. N : Repeat(up, s)[n] \in A[n]
    <2>1. \A n \in Nat : n < N => \A c \in A[n] : up[c] \in A[n + 1]
        BY <1>8
    <2>2. QED
        BY ONLY N \in Nat, <1>7, <2>1, WalkStays
<1>10. \A n \in 0 .. N : Repeat(up, s)[n] \in Slots /\ level[Repeat(up, s)[n]] = l + n
    BY <1>3, <1>6, <1>9
<1>11. PICK f \in [0 .. N -> Slots] : \A n \in 0 .. N : level[f[n]] = l + n
    <2>1. [n \in 0 .. N |-> Repeat(up, s)[n]] \in [0 .. N -> Slots]
        BY <1>10
    <2>2. QED
        BY <1>10, <2>1
<1>12. IsFiniteSet(0 .. N) /\ Cardinality(0 .. N) = N + 1
    BY FS_Interval
<1>13. PICK x, y \in 0 .. N : x # y /\ f[x] = f[y]
    <2>1. Cardinality(Slots) < Cardinality(0 .. N)
        BY <1>4, <1>12
    <2>2. QED
        BY ONLY <1>12, <2>1, SlotsAssumption, f \in [0 .. N -> Slots], FS_PigeonHole
<1>14. QED
    BY <1>11, <1>13

\* The node s is in the tree of the map m, or will be: the right half of a
\* split.
Treed(owner, m, s) ==
    s \in live /\ owner[s] = m /\ (parent[s] # NULL \/ root[m] = s \/ ~InPlace(s))

\* A node with its right half
Whole(s) == IF InPlace(s) THEN s ELSE op.node

\* Both halves of a split
LEMMA Halves ==
    ASSUME NEW owner, NEW lo, NEW hi, OrderState(owner, lo, hi), op.pc = "overflow"
    PROVE  /\ op.node \in live /\ op.right \in live /\ op.node # op.right
           /\ op.node \in Slots /\ op.right \in Slots /\ op.map \in Maps
           /\ parent[op.right] = NULL /\ level[op.right] = level[op.node]
           /\ owner[op.right] = op.map /\ owner[op.node] = op.map
           /\ \A m \in Maps : root[m] # op.right
           /\ parent[op.node] # NULL \/ root[op.map] = op.node
           /\ hi[op.node] = lo[op.right]
           /\ hi[op.node] \subseteq lo[op.node] /\ hi[op.right] \subseteq hi[op.node]
<1>1. Local /\ Wiring(owner) /\ OpOwned(owner) /\ HalvesOrdered(lo, hi)
      /\ lo \in [Slots -> Cuts] /\ hi \in [Slots -> Cuts]
    BY DEF OrderState
<1>2. /\ op.node \in live /\ op.right \in live /\ op.node # op.right
      /\ op.node \in Slots /\ op.right \in Slots /\ op.map \in Maps /\ op.key \in Keys
      /\ parent[op.right] = NULL /\ level[op.right] = level[op.node]
      /\ owner[op.right] = op.map /\ owner[op.node] = op.map
      /\ \A m \in Maps : root[m] # op.right
      /\ parent[op.node] # NULL \/ root[op.map] = op.node
    BY <1>1, OverflowData
<1>3. PICK k \in Keys, e \in Slots, f \in Slots : k = op.key /\ e = op.node /\ f = op.right
    BY <1>2
<1>4. Separates(k, e, f, lo, hi)
    BY <1>1, <1>3 DEF HalvesOrdered
<1>5. /\ hi[e] = Up(k) /\ lo[f] = Up(k) /\ k \notin hi[f]
      /\ \E y \in lo[e] : y < k
    BY <1>4 DEF Separates, Above
<1>6. PICK L \in Cuts, H \in Cuts : L = lo[e] /\ H = hi[f]
    BY <1>1
<1>7. Up(k) \subseteq L
    <2>1. PICK y \in L : y < k
        BY <1>5, <1>6
    <2>2. ASSUME NEW z \in Up(k)
          PROVE  z \in L
        <3>1. z \in Keys /\ k <= z
            BY <2>2 DEF Up
        <3>2. y \in Keys
            BY CutIs
        <3>3. y \in Int /\ k \in Int /\ z \in Int
            BY <3>1, <3>2, KeysAssumption
        <3>4. y <= z
            BY <2>1, <3>1, <3>3
        <3>5. QED
            BY <3>1, <3>4, CutIs
    <2>3. QED
        BY <2>2
<1>8. H \subseteq Up(k)
    <2>1. ASSUME NEW y \in H
          PROVE  y \in Up(k)
        <3>1. k < y /\ y \in Keys
            BY <1>5, <1>6, CutsNest
        <3>2. k <= y
            BY <3>1, KeysAssumption
        <3>3. QED
            BY <3>1, <3>2 DEF Up
    <2>2. QED
        BY <2>1
<1>9. QED
    BY <1>2, <1>3, <1>5, <1>6, <1>7, <1>8

\* The step of find() at the parent of a node in whose interval the key is
LEMMA FarStep ==
    ASSUME NEW owner, NEW lo, NEW hi, OrderState(owner, lo, hi),
           NEW x \in Keys, NEW c \in Slots, parent[c] # NULL, Spans(lo, Far(hi), c, x)
    PROVE  Spans(lo, hi, parent[c], x) /\ FindStep(x)[parent[c]] = c
<1>1. PICK p : p = parent[c]
    OBVIOUS
<1>2. PICK n, i \in Nat :
          /\ i <= n /\ edges[p][i + 1] = c
          /\ Len(keys[p]) = n
          /\ Divided(n, keys[p], edges[p], lo[p], hi[p], lo, Far(hi))
    BY <1>1, PlaceInOrder
<1>3. PICK ks, es, L, H, fh : ks = keys[p] /\ es = edges[p] /\ L = lo[p] /\ H = hi[p] /\ fh = Far(hi)
    OBVIOUS
<1>4. Divided(n, ks, es, L, H, lo, fh)
    BY <1>2, <1>3
<1>5. PICK j \in 1 .. n + 1 : j = i + 1
    BY <1>2
<1>6. x \in lo[es[j]] /\ x \notin fh[es[j]] <=> x \in L /\ x \notin H /\ EdgeIndex(ks, x) = j - 1
    BY <1>4, ChildOf
<1>7. es[j] = c
    BY <1>2, <1>3, <1>5
<1>8. x \in L /\ x \notin H /\ EdgeIndex(ks, x) = j - 1
    BY <1>3, <1>6, <1>7 DEF Spans
<1>9. (j - 1) + 1 = j
    OBVIOUS
<1>10. p \in Slots
    BY <1>1, ParentOf DEF OrderState
<1>11. FindStep(x)[p] = c
    BY <1>3, <1>7, <1>8, <1>9, <1>10 DEF FindStep
<1>12. QED
    BY <1>1, <1>3, <1>8, <1>11 DEF Spans

\* The whole node of a half is in the tree, at the same level; a key of the half
\* is in its interval.
LEMMA WholeOf ==
    ASSUME NEW owner, NEW lo, NEW hi, OrderState(owner, lo, hi),
           NEW m \in Maps, NEW s, Treed(owner, m, s)
    PROVE  /\ Treed(owner, m, Whole(s)) /\ InPlace(Whole(s)) /\ Whole(s) \in Slots
           /\ level[Whole(s)] = level[s]
           /\ \A x \in Keys : Spans(lo, hi, s, x) => Spans(lo, Far(hi), Whole(s), x)
<1>1. s \in live /\ s \in Slots /\ owner[s] = m
      /\ hi \in [Slots -> Cuts]
    BY DEF OrderState, Wiring, Forest, Treed
<1>2. CASE op.pc # "overflow"
    <2>1. Whole(s) = s /\ Far(hi) = hi /\ InPlace(s)
        BY <1>2 DEF Whole, Far, InPlace
    <2>2. QED
        BY <1>1, <2>1
<1>3. CASE op.pc = "overflow"
    <2>1. /\ op.node \in live /\ op.right \in live /\ op.node # op.right
          /\ op.node \in Slots /\ op.right \in Slots
          /\ level[op.right] = level[op.node]
          /\ owner[op.right] = op.map /\ owner[op.node] = op.map
          /\ parent[op.node] # NULL \/ root[op.map] = op.node
          /\ hi[op.node] = lo[op.right]
          /\ hi[op.node] \subseteq lo[op.node] /\ hi[op.right] \subseteq hi[op.node]
        BY <1>3, Halves
    <2>2. /\ Far(hi)[op.node] = hi[op.right]
          /\ \A c \in Slots : c # op.node => Far(hi)[c] = hi[c]
        BY <1>1, <1>3, <2>1 DEF Far
    <2>3. CASE s = op.right
        <3>1. Whole(s) = op.node /\ InPlace(op.node) /\ op.map = m
            BY <1>1, <1>3, <2>1, <2>3 DEF Whole, InPlace
        <3>2. Treed(owner, m, op.node)
            BY <2>1, <3>1 DEF Treed
        <3>3. \A x \in Keys : Spans(lo, hi, s, x) => Spans(lo, Far(hi), op.node, x)
            BY <2>1, <2>2, <2>3 DEF Spans
        <3>4. QED
            BY <2>1, <2>3, <3>1, <3>2, <3>3
    <2>4. CASE s # op.right
        <3>1. Whole(s) = s /\ InPlace(s)
            BY <2>4 DEF Whole, InPlace
        <3>2. \A x \in Keys : Spans(lo, hi, s, x) => Spans(lo, Far(hi), s, x)
            BY <1>1, <2>1, <2>2 DEF Spans
        <3>3. QED
            BY <1>1, <3>1, <3>2
    <2>5. QED
        BY <2>3, <2>4
<1>4. QED
    BY <1>2, <1>3

\* So is the parent of a node.
LEMMA TreedUp ==
    ASSUME NEW owner, NEW lo, NEW hi, OrderState(owner, lo, hi),
           NEW m \in Maps, NEW c, Treed(owner, m, c), parent[c] # NULL
    PROVE  /\ c \in Slots /\ parent[c] \in Slots /\ Treed(owner, m, parent[c])
           /\ level[c] \in Nat /\ level[parent[c]] = level[c] + 1
<1>1. Local /\ Wiring(owner) /\ RootsOwned(owner)
    BY DEF OrderState
<1>2. c \in Slots /\ owner[c] = m
    BY <1>1 DEF Treed, Wiring, Forest
<1>3. PICK p : p = parent[c]
    OBVIOUS
<1>4. /\ p \in live /\ p \in Slots /\ level[c] = level[p] - 1 /\ owner[c] = owner[p]
      /\ level[c] \in Nat /\ level[p] \in Nat /\ level[p] # 0
    BY <1>1, <1>2, <1>3, ParentOf
<1>5. level[p] = level[c] + 1
    BY <1>4
<1>6. Treed(owner, m, p)
    <2>1. CASE parent[p] = NULL /\ InPlace(p)
        <3>1. root[owner[p]] = p
            BY <1>1, <1>4, <2>1, Climb DEF InPlace
        <3>2. QED
            BY <1>2, <1>4, <3>1 DEF Treed
    <2>2. CASE parent[p] # NULL \/ ~InPlace(p)
        BY <1>2, <1>4, <2>2 DEF Treed
    <2>3. QED
        BY <2>1, <2>2
<1>7. QED
    BY <1>2, <1>3, <1>4, <1>5, <1>6

\* No node of a tree is above the root.
LEMMA TreedLevel ==
    ASSUME NEW owner, NEW lo, NEW hi, OrderState(owner, lo, hi),
           NEW m \in Maps, NEW s, Treed(owner, m, s)
    PROVE  root[m] # NULL /\ level[s] \in Nat /\ height[m] \in Nat /\ level[s] <= height[m]
<1>1. Local /\ Wiring(owner) /\ RootsOwned(owner)
    BY DEF OrderState
<1>2. /\ live \subseteq Slots /\ level \in [Slots -> Nat]
      /\ height[m] \in Nat /\ RootsAgree /\ root[m] \in Slots \cup {NULL}
    BY <1>1 DEF Local, DataTypes, Wiring, Forest
<1>3. PICK h \in Nat : h = height[m]
    BY <1>2
<1>4. PICK G : G = {c \in live : Treed(owner, m, c) /\ InPlace(c)
                                   /\ ~(root[m] # NULL /\ level[c] <= h)}
    OBVIOUS
<1>5. ASSUME NEW c \in G
      PROVE  \E d \in G : level[d] = level[c] + 1
    <2>1. c \in live /\ c \in Slots /\ Treed(owner, m, c) /\ InPlace(c)
          /\ ~(root[m] # NULL /\ level[c] <= h)
        BY <1>2, <1>4
    <2>2. parent[c] # NULL
        <3>1. SUFFICES ASSUME parent[c] = NULL PROVE FALSE
            OBVIOUS
        <3>2. root[m] = c /\ c # NULL
            BY <2>1, <3>1, SlotsAssumption DEF Treed
        <3>3. level[c] = h
            BY <1>2, <1>3, <3>2 DEF RootsAgree
        <3>4. QED
            BY <2>1, <3>2, <3>3
    <2>3. PICK p : p = parent[c]
        OBVIOUS
    <2>4. Treed(owner, m, p) /\ level[c] \in Nat /\ level[p] = level[c] + 1
        BY <2>1, <2>2, <2>3, TreedUp
    <2>5. PICK d : d = Whole(p)
        OBVIOUS
    <2>6. Treed(owner, m, d) /\ InPlace(d) /\ level[d] = level[p]
        BY <2>4, <2>5, WholeOf
    <2>7. d \in live
        BY <2>6 DEF Treed
    <2>8. ~(root[m] # NULL /\ level[d] <= h)
        BY <2>1, <2>4, <2>6
    <2>9. QED
        BY <1>4, <2>4, <2>6, <2>7, <2>8
<1>6. G = {}
    <2>1. G \in SUBSET live
        BY <1>4
    <2>2. QED
        BY <1>1, <1>5, <2>1, HigherEnds
<1>7. PICK w : w = Whole(s)
    OBVIOUS
<1>8. Treed(owner, m, w) /\ InPlace(w) /\ level[w] = level[s]
    BY <1>7, WholeOf
<1>9. w \in live /\ s \in live
    BY <1>8 DEF Treed
<1>10. root[m] # NULL /\ level[w] <= h
    BY <1>4, <1>6, <1>8, <1>9
<1>11. QED
    BY <1>2, <1>3, <1>8, <1>9, <1>10

\* Two nodes in their places, at one level of a tree, with a key in common
\* are the same: were they not, neither would be their parents.
LEMMA PlacesApart ==
    ASSUME NEW owner, NEW lo, NEW hi, OrderState(owner, lo, hi),
           NEW m \in Maps, NEW x \in Keys,
           NEW s, Treed(owner, m, s), InPlace(s), Spans(lo, Far(hi), s, x),
           NEW t, Treed(owner, m, t), InPlace(t), Spans(lo, Far(hi), t, x),
           level[s] = level[t]
    PROVE  s = t
<1>1. Local /\ Wiring(owner) /\ RootsOwned(owner)
    BY DEF OrderState
<1>2. live \subseteq Slots /\ level \in [Slots -> Nat] /\ RootsAgree
    BY <1>1 DEF Local, Wiring, Forest
<1>3. PICK P : P = {c \in live : Treed(owner, m, c) /\ InPlace(c) /\ Spans(lo, Far(hi), c, x)}
    OBVIOUS
<1>4. PICK G : G = {c \in P : \E d \in P : d # c /\ level[d] = level[c]}
    OBVIOUS
<1>5. ASSUME NEW c \in P, NEW d \in P, level[d] = level[c], d # c
      PROVE  parent[c] # NULL
    <2>1. SUFFICES ASSUME parent[c] = NULL PROVE FALSE
        OBVIOUS
    <2>2. Treed(owner, m, c) /\ InPlace(c) /\ Treed(owner, m, d) /\ InPlace(d)
        BY <1>3
    <2>3. root[m] = c /\ c # NULL
        BY <1>2, <1>3, <2>1, <2>2, SlotsAssumption DEF Treed
    <2>4. level[c] = height[m]
        BY <1>2, <2>3 DEF RootsAgree
    <2>5. parent[d] # NULL
        BY <1>5, <2>2, <2>3 DEF Treed
    <2>6. Treed(owner, m, parent[d]) /\ level[d] \in Nat /\ level[parent[d]] = level[d] + 1
        BY <2>2, <2>5, TreedUp
    <2>7. PICK p : p = parent[d]
        OBVIOUS
    <2>8. level[p] <= height[m] /\ height[m] \in Nat
        BY <2>6, <2>7, TreedLevel
    <2>9. QED
        BY <1>5, <2>4, <2>6, <2>7, <2>8
<1>6. ASSUME NEW c \in P, parent[c] # NULL
      PROVE  /\ c \in Slots /\ parent[c] \in Slots /\ Treed(owner, m, parent[c])
             /\ level[parent[c]] = level[c] + 1
             /\ Spans(lo, hi, parent[c], x) /\ FindStep(x)[parent[c]] = c
             /\ Whole(parent[c]) \in P /\ level[Whole(parent[c])] = level[c] + 1
    <2>1. c \in Slots /\ Treed(owner, m, c) /\ InPlace(c) /\ Spans(lo, Far(hi), c, x)
        BY <1>2, <1>3
    <2>2. PICK p : p = parent[c]
        OBVIOUS
    <2>3. p \in Slots /\ Treed(owner, m, p) /\ level[p] = level[c] + 1
        BY <1>6, <2>1, <2>2, TreedUp
    <2>4. Spans(lo, hi, p, x) /\ FindStep(x)[p] = c
        BY <1>6, <2>1, <2>2, FarStep
    <2>5. /\ Treed(owner, m, Whole(p)) /\ InPlace(Whole(p))
          /\ level[Whole(p)] = level[p]
          /\ Spans(lo, Far(hi), Whole(p), x)
        BY <2>3, <2>4, WholeOf
    <2>6. Whole(p) \in P
        BY <1>3, <2>5 DEF Treed
    <2>7. QED
        BY <2>1, <2>2, <2>3, <2>4, <2>5, <2>6
<1>7. ASSUME NEW c \in G
      PROVE  \E d \in G : level[d] = level[c] + 1
    <2>1. PICK d \in P : c \in P /\ d # c /\ level[d] = level[c]
        BY <1>4
    <2>2. parent[c] # NULL /\ parent[d] # NULL
        BY <1>5, <2>1
    <2>3. PICK p, q : p = parent[c] /\ q = parent[d]
        OBVIOUS
    <2>4. /\ p \in Slots /\ Treed(owner, m, p) /\ Spans(lo, hi, p, x) /\ FindStep(x)[p] = c
          /\ Whole(p) \in P /\ level[Whole(p)] = level[c] + 1
        BY <1>6, <2>1, <2>2, <2>3
    <2>5. /\ q \in Slots /\ Treed(owner, m, q) /\ Spans(lo, hi, q, x) /\ FindStep(x)[q] = d
          /\ Whole(q) \in P /\ level[Whole(q)] = level[d] + 1
        BY <1>6, <2>1, <2>2, <2>3
    <2>6. p # q
        BY <2>1, <2>4, <2>5
    <2>7. Whole(p) # Whole(q)
        <3>1. SUFFICES ASSUME Whole(p) = Whole(q) PROVE FALSE
            OBVIOUS
        <3>2. /\ op.pc = "overflow"
              /\ (p = op.right /\ q = op.node) \/ (q = op.right /\ p = op.node)
            BY <2>6, <3>1 DEF Whole, InPlace
        <3>3. hi[op.node] = lo[op.right]
            BY <3>2, Halves
        <3>4. QED
            BY <2>4, <2>5, <3>2, <3>3 DEF Spans
    <2>8. Whole(p) \in G
        BY <1>4, <2>1, <2>4, <2>5, <2>7
    <2>9. QED
        BY <2>4, <2>8
<1>8. G = {}
    <2>1. G \in SUBSET live
        BY <1>3, <1>4
    <2>2. QED
        BY <1>1, <1>7, <2>1, HigherEnds
<1>9. s \in P /\ t \in P
    BY <1>3 DEF Treed
<1>10. QED
    BY <1>4, <1>8, <1>9

\* Two nodes at one level of a tree with a key in common are the same, the
\* halves of a split included.
LEMMA TreedApart ==
    ASSUME NEW owner, NEW lo, NEW hi, OrderState(owner, lo, hi),
           NEW m \in Maps, NEW x \in Keys,
           NEW s, Treed(owner, m, s), Spans(lo, hi, s, x),
           NEW t, Treed(owner, m, t), Spans(lo, hi, t, x), level[s] = level[t]
    PROVE  s = t
<1>1. PICK v, w : v = Whole(s) /\ w = Whole(t)
    OBVIOUS
<1>2. Treed(owner, m, v) /\ InPlace(v) /\ level[v] = level[s] /\ Spans(lo, Far(hi), v, x)
    BY <1>1, WholeOf
<1>3. Treed(owner, m, w) /\ InPlace(w) /\ level[w] = level[t] /\ Spans(lo, Far(hi), w, x)
    BY <1>1, WholeOf
<1>4. v = w
    BY <1>2, <1>3, PlacesApart
<1>5. SUFFICES ASSUME s # t PROVE FALSE
    OBVIOUS
<1>6. /\ op.pc = "overflow"
      /\ (s = op.right /\ t = op.node) \/ (t = op.right /\ s = op.node)
    BY <1>1, <1>4, <1>5 DEF Whole, InPlace
<1>7. hi[op.node] = lo[op.right]
    BY <1>6, Halves
<1>8. QED
    BY <1>6, <1>7 DEF Spans

\* No half is left out of the nodes of a tree but while a split is under way.
LEMMA TreedIsHeld ==
    ASSUME op.pc # "overflow"
    PROVE  \A owner, m, s : Treed(owner, m, s) <=> Held(owner, m, s)
BY DEF Treed, Held, InPlace

-----------------------------------------------------------------------------
(***************************************************************************)
(* The leaves of a map, one after the other.                               *)
(***************************************************************************)

\* A leaf and the one its link leads to
LEMMA LeafLinks ==
    ASSUME NEW owner, NEW lo, NEW hi, OrderState(owner, lo, hi),
           NEW m \in Maps, NEW s, Treed(owner, m, s), level[s] = 0
    PROVE  /\ keys[s] \in Seq(Keys) /\ Len(keys[s]) \in Nat
           /\ LeafOrdered(keys[s], lo[s], hi[s])
           /\ next[s] = NULL <=> hi[s] = {}
           /\ next[s] # NULL => /\ Treed(owner, m, next[s]) /\ level[next[s]] = 0
                                /\ prev[next[s]] = s
                                /\ lo[next[s]] = hi[s]
           /\ prev[s] = NULL <=> lo[s] = Keys
<1>1. /\ Local /\ Wiring(owner) /\ LinksOrdered(owner, lo, hi) /\ NodesOrdered(lo, hi)
    BY DEF OrderState
<1>2. s \in live /\ s \in Slots /\ owner[s] = m /\ live \subseteq Slots /\ s # NULL
    BY <1>1, SlotsAssumption DEF Treed, Wiring, Forest
<1>4. \A c \in live : /\ NodeOrdered(level[c], keys[c], edges[c], lo[c], hi[c], lo, Far(hi))
                      /\ parent[c] = NULL /\ InPlace(c) => lo[c] = Keys
    BY <1>1 DEF NodesOrdered
<1>5. keys[s] \in Seq(Keys) /\ LeafOrdered(keys[s], lo[s], hi[s])
    BY <1>1, <1>2, <1>4 DEF Local, DataTypes, NodeOrdered
<1>6. /\ next[s] = NULL <=> hi[s] = {}
      /\ next[s] # NULL => /\ next[s] \in live /\ level[next[s]] = 0
                           /\ prev[next[s]] = s
                           /\ lo[next[s]] = hi[s]
                           /\ owner[next[s]] = owner[s]
      /\ prev[s] = NULL <=> lo[s] = Keys
    BY <1>1, <1>2 DEF LinksOrdered
<1>7. ASSUME next[s] # NULL
      PROVE  parent[next[s]] # NULL \/ ~InPlace(next[s])
    <2>1. next[s] \in live /\ level[next[s]] = 0 /\ prev[next[s]] # NULL
        BY <1>2, <1>6, <1>7
    <2>2. lo[next[s]] # Keys
        BY <1>1, <2>1 DEF LinksOrdered
    <2>3. QED
        BY <1>4, <2>1, <2>2
<1>8. QED
    BY <1>2, <1>5, <1>6, <1>7 DEF Treed

\* The first leaf of a map is the one below all keys.
LEMMA FirstLeafLow ==
    ASSUME NEW owner, NEW lo, NEW hi, OrderState(owner, lo, hi),
           NEW m \in Maps, root[m] # NULL
    PROVE  /\ Treed(owner, m, first_leaf(m)) /\ first_leaf(m) \in Slots /\ level[first_leaf(m)] = 0
           /\ lo[first_leaf(m)] = Keys
<1>1. Local /\ Wiring(owner) /\ RootsOwned(owner)
    BY DEF OrderState
<1>2. /\ first_leaf(m) \in live /\ level[first_leaf(m)] = 0
      /\ owner[first_leaf(m)] = m
      /\ first_leaf(m) = root[m] \/ parent[first_leaf(m)] # NULL
    BY <1>1, FirstLeafEnds
<1>3. live \subseteq Slots /\ RootsAgree
    BY <1>1 DEF Local, Wiring, Forest
<1>4. PICK h \in Nat : h = height[m]
    BY <1>1 DEF Local, DataTypes
<1>5. root[m] \in live /\ parent[root[m]] = NULL /\ level[root[m]] = h
    BY <1>3, <1>4 DEF RootsAgree
<1>6. PICK step : step = [s \in Slots |-> edges[s][1]]
    OBVIOUS
<1>7. PICK G : G = [n \in Nat |-> {s \in live : level[s] = h - n /\ lo[s] = Keys}]
    OBVIOUS
<1>8. root[m] \in G[0]
    <2>1. InPlace(root[m])
        BY Halves DEF InPlace
    <2>2. lo[root[m]] = Keys
        BY <1>5, <2>1 DEF OrderState, NodesOrdered
    <2>3. QED
        BY <1>5, <1>7, <2>2
<1>9. ASSUME NEW n \in Nat, n < h, NEW s \in G[n]
      PROVE  step[s] \in G[n + 1]
    <2>1. s \in live /\ s \in Slots /\ level[s] = h - n /\ level[s] # 0 /\ lo[s] = Keys
        BY <1>3, <1>7, <1>9
    <2>2. PICK a \in Nat : /\ Len(keys[s]) = a
                           /\ Divided(a, keys[s], edges[s], lo[s], hi[s], lo, Far(hi))
        BY <2>1, NodeInOrder
    <2>3. PICK c : c = edges[s][1]
        OBVIOUS
    <2>4. step[s] = c
        BY <1>6, <2>1, <2>3
    <2>5. PICK i \in 1 .. a + 1 : i = 1
        OBVIOUS
    <2>6. c \in live /\ level[c] = level[s] - 1
        BY <1>1, <2>1, <2>2, <2>3, <2>5, StepDown
    <2>7. lo[c] = Keys
        BY <2>1, <2>2, <2>3 DEF Divided, Divides
    <2>8. level[c] = h - (n + 1)
        BY <2>1, <2>6
    <2>9. QED
        BY <1>7, <2>4, <2>6, <2>7, <2>8
<1>10. \A n \in 0 .. h : Repeat(step, root[m])[n] \in G[n]
    <2>1. \A n \in Nat : n < h => \A y \in G[n] : step[y] \in G[n + 1]
        BY <1>9
    <2>2. QED
        BY ONLY h \in Nat, <1>8, <2>1, WalkStays
<1>11. Repeat(step, root[m])[h] \in G[h]
    BY <1>10
<1>12. Repeat(step, root[m])[h] = first_leaf(m)
    BY <1>4, <1>6 DEF first_leaf, Descend
<1>13. QED
    BY <1>2, <1>3, <1>7, <1>11, <1>12 DEF Treed

\* n leaves of a map from the first along their links
Linked(owner, m, q, n) ==
    /\ n \in Nat /\ n >= 1
    /\ q \in Seq(Slots) /\ Len(q) = n
    /\ q[1] = first_leaf(m)
    /\ \A i \in 1 .. n : Treed(owner, m, q[i]) /\ level[q[i]] = 0
    /\ \A i \in 1 .. n : i < n => next[q[i]] = q[i + 1]

\* One more
LEMMA LinkedOneMore ==
    ASSUME NEW owner, NEW lo, NEW hi, OrderState(owner, lo, hi),
           NEW m \in Maps, NEW q, NEW n, Linked(owner, m, q, n), next[q[n]] # NULL
    PROVE  Linked(owner, m, Append(q, next[q[n]]), n + 1)
<1>1. /\ n \in Nat /\ n >= 1
      /\ q \in Seq(Slots) /\ Len(q) = n
      /\ q[1] = first_leaf(m)
      /\ \A i \in 1 .. n : Treed(owner, m, q[i]) /\ level[q[i]] = 0
      /\ \A i \in 1 .. n : i < n => next[q[i]] = q[i + 1]
    BY DEF Linked
<1>2. PICK u : u = next[q[n]]
    OBVIOUS
<1>3. n \in 1 .. n
    BY <1>1
<1>4. Treed(owner, m, u) /\ level[u] = 0
    BY <1>1, <1>2, <1>3, LeafLinks
<1>5. u \in Slots
    BY <1>4 DEF Treed, OrderState, Wiring, Forest
<1>6. PICK r : r = Append(q, u)
    OBVIOUS
<1>7. r \in Seq(Slots) /\ Len(r) = n + 1
    BY <1>1, <1>5, <1>6, AppendSeq
<1>8. r = [j \in 1 .. n + 1 |-> IF j <= n THEN q[j] ELSE u]
    BY <1>1, <1>5, <1>6, AppendDef
<1>9. /\ \A j \in 1 .. n : r[j] = q[j]
      /\ r[n + 1] = u
    <2>1. \A j \in 1 .. n : j \in 1 .. n + 1 /\ j <= n
        BY <1>1
    <2>2. n + 1 \in 1 .. n + 1 /\ ~(n + 1 <= n)
        BY <1>1
    <2>3. QED
        BY <1>8, <2>1, <2>2
<1>10. \A j \in 1 .. n + 1 : j \in 1 .. n \/ j = n + 1
    BY <1>1
<1>11. \A j \in 1 .. n + 1 : Treed(owner, m, r[j]) /\ level[r[j]] = 0
    BY <1>1, <1>4, <1>9, <1>10
<1>12. ASSUME NEW j \in 1 .. n + 1, j < n + 1
       PROVE  next[r[j]] = r[j + 1]
    <2>1. j \in 1 .. n
        BY <1>1, <1>12
    <2>2. CASE j = n
        BY <1>2, <1>9, <2>1, <2>2
    <2>3. CASE j # n
        <3>1. j < n /\ j + 1 \in 1 .. n
            BY <1>1, <2>1, <2>3
        <3>2. QED
            BY <1>1, <1>9, <2>1, <3>1
    <2>4. QED
        BY <2>2, <2>3
<1>13. r[1] = first_leaf(m)
    <2>1. 1 \in 1 .. n
        BY <1>1
    <2>2. QED
        BY <1>1, <1>9, <2>1
<1>14. n + 1 \in Nat /\ n + 1 >= 1
    BY <1>1
<1>15. Linked(owner, m, r, n + 1)
    BY <1>7, <1>11, <1>12, <1>13, <1>14 DEF Linked
<1>16. QED
    BY <1>2, <1>6, <1>15

\* Each leaf is met once: the way back along `prev` is the way that was come.
LEMMA LinkedOnce ==
    ASSUME NEW owner, NEW lo, NEW hi, OrderState(owner, lo, hi),
           NEW m \in Maps, root[m] # NULL, NEW q, NEW n, Linked(owner, m, q, n)
    PROVE  n <= Cardinality(Slots)
<1>1. /\ n \in Nat /\ n >= 1
      /\ q \in Seq(Slots) /\ Len(q) = n
      /\ q[1] = first_leaf(m)
      /\ \A i \in 1 .. n : Treed(owner, m, q[i]) /\ level[q[i]] = 0
      /\ \A i \in 1 .. n : i < n => next[q[i]] = q[i + 1]
    BY DEF Linked
<1>2. prev[q[1]] = NULL
    <2>1. Treed(owner, m, first_leaf(m)) /\ level[first_leaf(m)] = 0 /\ lo[first_leaf(m)] = Keys
        BY FirstLeafLow
    <2>2. QED
        BY <1>1, <2>1, LeafLinks
<1>3. ASSUME NEW i \in 1 .. n, i # 1
      PROVE  i - 1 \in 1 .. n /\ prev[q[i]] = q[i - 1] /\ q[i - 1] # NULL
    <2>1. PICK j \in 1 .. n : i = j + 1 /\ j < n /\ j = i - 1
        <3>1. i - 1 \in 1 .. n /\ i = (i - 1) + 1 /\ i - 1 < n
            BY <1>1, <1>3
        <3>2. QED
            BY <3>1
    <2>2. next[q[j]] = q[i] /\ Treed(owner, m, q[j]) /\ level[q[j]] = 0
        BY <1>1, <2>1
    <2>3. Treed(owner, m, q[i])
        BY <1>1
    <2>4. q[i] \in Slots /\ q[j] \in Slots
        BY <2>2, <2>3 DEF Treed, OrderState, Wiring, Forest
    <2>5. next[q[j]] # NULL /\ q[j] # NULL
        BY <2>2, <2>4, SlotsAssumption
    <2>6. prev[next[q[j]]] = q[j]
        BY <2>2, <2>5, LeafLinks
    <2>7. QED
        BY <2>1, <2>2, <2>5, <2>6
<1>4. PICK Bad : Bad = {i \in 1 .. n : \E j \in 1 .. n : i < j /\ q[i] = q[j]}
    OBVIOUS
<1>5. Bad = {}
    <2>1. SUFFICES ASSUME Bad # {} PROVE FALSE
        OBVIOUS
    <2>2. PICK i \in Bad : \A b \in Bad : i <= b
        <3>1. Bad \in SUBSET Nat
            BY <1>4
        <3>2. QED
            BY <2>1, <3>1, LeastNat
    <2>3. PICK j \in 1 .. n : i \in 1 .. n /\ i < j /\ q[i] = q[j]
        BY <1>4, <2>2
    <2>4. j # 1 /\ j - 1 \in 1 .. n /\ prev[q[j]] = q[j - 1] /\ q[j - 1] # NULL
        BY <1>1, <1>3, <2>3
    <2>5. i # 1
        BY <1>2, <2>3, <2>4
    <2>6. i - 1 \in 1 .. n /\ prev[q[i]] = q[i - 1]
        BY <1>3, <2>3, <2>5
    <2>7. i - 1 < j - 1
        BY <2>3
    <2>8. i - 1 \in Bad
        BY <1>4, <2>3, <2>4, <2>6, <2>7
    <2>9. i <= i - 1
        BY <2>2, <2>8
    <2>10. QED
        BY <2>3, <2>9
<1>6. \A i, j \in 1 .. n : q[i] = q[j] => i = j
    <2>1. ASSUME NEW i \in 1 .. n, NEW j \in 1 .. n, q[i] = q[j]
          PROVE  i = j
        <3>1. ~(i < j) /\ ~(j < i)
            BY <1>4, <1>5, <2>1
        <3>2. QED
            BY <3>1
    <2>2. QED
        BY <2>1
<1>7. IsFiniteSet(1 .. n) /\ Cardinality(1 .. n) = n
    BY <1>1, FS_Interval
<1>8. IsFiniteSet(Slots) /\ Cardinality(Slots) \in Nat
    BY SlotsAssumption, FS_CardinalityType
<1>9. q \in [1 .. n -> Slots]
    BY <1>1
<1>10. SUFFICES ASSUME Cardinality(Slots) < n PROVE FALSE
    BY <1>1, <1>8
<1>11. \E i, j \in 1 .. n : i # j /\ q[i] = q[j]
    BY <1>7, <1>8, <1>9, <1>10, FS_PigeonHole
<1>12. QED
    BY <1>6, <1>11

\* LeafChain is all of them: its last leaf has no link.
LEMMA ChainIs ==
    ASSUME NEW owner, NEW lo, NEW hi, OrderState(owner, lo, hi),
           NEW m \in Maps, root[m] # NULL
    PROVE  \E n : Linked(owner, m, LeafChain(m), n) /\ next[LeafChain(m)[n]] = NULL
<1>1. PICK follow : follow = [q \in Seq(Slots) |->
                                IF next[Last(q)] = NULL THEN q ELSE Append(q, next[Last(q)])]
    OBVIOUS
<1>2. PICK a : a = first_leaf(m)
    OBVIOUS
<1>3. Treed(owner, m, a) /\ level[a] = 0 /\ a \in Slots
    BY <1>2, FirstLeafLow
<1>4. PICK N \in Nat : N = Cardinality(Slots)
    BY SlotsAssumption, FS_CardinalityType
<1>5. LeafChain(m) = Repeat(follow, <<a>>)[N]
    BY <1>1, <1>2, <1>4 DEF LeafChain
<1>6. PICK G : G = [k \in Nat |-> {q \in Seq(Slots) :
                      \E n \in Nat : /\ Linked(owner, m, q, n)
                                     /\ n = k + 1 \/ next[q[n]] = NULL}]
    OBVIOUS
<1>7. <<a>> \in G[0]
    <2>1. PICK q : q = <<a>>
        OBVIOUS
    <2>2. q \in Seq(Slots) /\ Len(q) = 1 /\ q[1] = a
        BY <1>3, <2>1
    <2>3. \A i \in 1 .. 1 : q[i] = a /\ ~(i < 1)
        BY <2>2
    <2>4. Linked(owner, m, q, 1)
        BY <1>2, <1>3, <2>2, <2>3 DEF Linked
    <2>5. 1 \in Nat /\ 1 = 0 + 1 /\ 0 \in Nat
        OBVIOUS
    <2>6. QED
        BY <1>6, <2>1, <2>2, <2>4, <2>5
<1>8. ASSUME NEW k \in Nat, k < N, NEW q \in G[k]
      PROVE  follow[q] \in G[k + 1]
    <2>1. PICK n \in Nat : /\ q \in Seq(Slots) /\ Linked(owner, m, q, n)
                           /\ n = k + 1 \/ next[q[n]] = NULL
        BY <1>6, <1>8
    <2>2. n >= 1 /\ Len(q) = n
        BY <2>1 DEF Linked
    <2>3. Last(q) = q[n]
        BY <2>2 DEF Last
    <2>4. follow[q] = IF next[q[n]] = NULL THEN q ELSE Append(q, next[q[n]])
        BY <1>1, <2>1, <2>3
    <2>5. k + 1 \in Nat
        OBVIOUS
    <2>6. CASE next[q[n]] = NULL
        BY <1>6, <2>1, <2>4, <2>5, <2>6
    <2>7. CASE next[q[n]] # NULL
        <3>1. PICK r : r = Append(q, next[q[n]])
            OBVIOUS
        <3>2. Linked(owner, m, r, n + 1)
            BY <2>1, <2>7, <3>1, LinkedOneMore
        <3>3. r \in Seq(Slots)
            BY <3>2 DEF Linked
        <3>4. n + 1 \in Nat /\ n + 1 = (k + 1) + 1
            BY <2>1, <2>7
        <3>5. r \in G[k + 1]
            BY <1>6, <2>5, <3>2, <3>3, <3>4
        <3>6. QED
            BY <2>4, <2>7, <3>1, <3>5
    <2>8. QED
        BY <2>6, <2>7
<1>9. \A k \in 0 .. N : Repeat(follow, <<a>>)[k] \in G[k]
    <2>1. \A k \in Nat : k < N => \A y \in G[k] : follow[y] \in G[k + 1]
        BY <1>8
    <2>2. QED
        BY ONLY N \in Nat, <1>7, <2>1, WalkStays
<1>10. LeafChain(m) \in G[N]
    BY <1>5, <1>9
<1>11. PICK n \in Nat : /\ Linked(owner, m, LeafChain(m), n)
                        /\ n = N + 1 \/ next[LeafChain(m)[n]] = NULL
    BY <1>6, <1>10
<1>12. n <= N
    BY <1>4, <1>11, LinkedOnce
<1>13. QED
    BY <1>11, <1>12

\* Their intervals cover all keys.
LEMMA LinkedSpan ==
    ASSUME NEW owner, NEW lo, NEW hi, OrderState(owner, lo, hi),
           NEW m \in Maps, root[m] # NULL, NEW q, NEW n, Linked(owner, m, q, n),
           next[q[n]] = NULL, NEW x \in Keys
    PROVE  \E i \in 1 .. n : Spans(lo, hi, q[i], x)
<1>1. /\ n \in Nat /\ n >= 1
      /\ q[1] = first_leaf(m)
      /\ \A i \in 1 .. n : Treed(owner, m, q[i]) /\ level[q[i]] = 0
      /\ \A i \in 1 .. n : i < n => next[q[i]] = q[i + 1]
    BY DEF Linked
<1>2. PICK T : T = {i \in 1 .. n : x \notin hi[q[i]]}
    OBVIOUS
<1>3. n \in T
    <2>1. n \in 1 .. n
        BY <1>1
    <2>2. hi[q[n]] = {}
        BY <1>1, <2>1, LeafLinks
    <2>3. QED
        BY <1>2, <2>1, <2>2
<1>4. PICK i \in T : \A j \in T : i <= j
    <2>1. T \in SUBSET Nat
        BY <1>2
    <2>2. QED
        BY <1>3, <2>1, LeastNat
<1>5. i \in 1 .. n /\ x \notin hi[q[i]]
    BY <1>2, <1>4
<1>6. x \in lo[q[i]]
    <2>1. CASE i = 1
        BY <1>1, <2>1, FirstLeafLow
    <2>2. CASE i # 1
        <3>1. PICK j \in 1 .. n : i = j + 1 /\ j < n /\ j < i
            <4>1. i - 1 \in 1 .. n /\ i = (i - 1) + 1 /\ i - 1 < n /\ i - 1 < i
                BY <1>1, <1>5, <2>2
            <4>2. QED
                BY <4>1
        <3>2. x \in hi[q[j]]
            <4>1. j \notin T
                BY <1>4, <1>5, <3>1
            <4>2. QED
                BY <1>2, <4>1
        <3>3. next[q[j]] = q[i] /\ Treed(owner, m, q[j]) /\ level[q[j]] = 0
            BY <1>1, <3>1
        <3>4. next[q[j]] # NULL
            BY <3>2, <3>3, LeafLinks
        <3>5. lo[next[q[j]]] = hi[q[j]]
            BY <3>3, <3>4, LeafLinks
        <3>6. QED
            BY <3>2, <3>3, <3>5
    <2>3. QED
        BY <2>1, <2>2
<1>7. QED
    BY <1>5, <1>6 DEF Spans

\* So each entry of a map is in one of them.
LEMMA LinkedAll ==
    ASSUME NEW owner, NEW lo, NEW hi, OrderState(owner, lo, hi),
           NEW m \in Maps, root[m] # NULL, NEW q, NEW n, Linked(owner, m, q, n),
           next[q[n]] = NULL,
           NEW s, Treed(owner, m, s), level[s] = 0, keys[s] # <<>>
    PROVE  \E i \in 1 .. n : q[i] = s
<1>1. keys[s] \in Seq(Keys) /\ LeafOrdered(keys[s], lo[s], hi[s])
    BY LeafLinks
<1>2. PICK x \in Keys : x = keys[s][1] /\ 1 \in DOMAIN keys[s]
    BY <1>1
<1>3. Spans(lo, hi, s, x)
    BY <1>1, <1>2 DEF LeafOrdered, Spans
<1>4. PICK i \in 1 .. n : Spans(lo, hi, q[i], x)
    BY LinkedSpan
<1>5. Treed(owner, m, q[i]) /\ level[q[i]] = 0
    BY DEF Linked
<1>6. s = q[i]
    BY <1>3, <1>4, <1>5, TreedApart
<1>7. QED
    BY <1>6

-----------------------------------------------------------------------------
(***************************************************************************)
(* The leaves of a map between two calls.                                  *)
(***************************************************************************)

\* There is room for a key in the interval of a node of a map.
LEMMA HeldHasRoom ==
    ASSUME NEW owner, NEW lo, NEW hi, OrderState(owner, lo, hi), op = Idle,
           NEW m \in Maps, NEW s, Held(owner, m, s)
    PROVE  \E x \in Keys : Spans(lo, hi, s, x)
<1>1. /\ Local /\ Wiring(owner) /\ RootsOwned(owner)
    BY DEF OrderState
<1>i. op.pc # "overflow" /\ op.pc # "underflow"
    BY DEF Idle
<1>2. s \in live /\ s \in Slots /\ owner[s] = m /\ live \subseteq Slots /\ s # NULL
    BY <1>1, SlotsAssumption DEF Held, Wiring, Forest
<1>c. /\ Far(hi) = hi
      /\ \A c \in live : parent[c] = NULL => lo[c] = Keys /\ hi[c] = {}
    BY <1>i, CalmState
<1>o. \A c \in live : parent[c] = NULL /\ keys[c] = <<>> => \A q \in Maps : root[q] # c
    <2>1. Underfull(0)
        BY HalfOfM DEF Underfull
    <2>2. Len(<<>>) = 0
        OBVIOUS
    <2>3. QED
        BY <1>1, <1>i, <2>1, <2>2 DEF Local, Occupancy
<1>3. CASE parent[s] = NULL
    <2>1. root[m] = s /\ lo[s] = Keys /\ hi[s] = {}
        BY <1>2, <1>c, <1>3 DEF Held
    <2>2. keys[s] # <<>>
        BY <1>2, <1>3, <1>o, <2>1
    <2>3. keys[s] \in Seq(Keys)
        BY <1>1, <1>2 DEF Local, DataTypes
    <2>4. keys[s][1] \in Keys
        BY <2>2, <2>3
    <2>5. QED
        BY <2>1, <2>4 DEF Spans
<1>4. CASE parent[s] # NULL
    <2>1. PICK p : p = parent[s]
        OBVIOUS
    <2>2. p \in live /\ p \in Slots /\ p # NULL /\ level[p] # 0
        BY <1>1, <1>2, <1>4, <2>1, ParentOf, SlotsAssumption
    <2>3. PICK n, i \in Nat :
            /\ i <= n /\ edges[p][i + 1] = s /\ Len(keys[p]) = n
            /\ Divided(n, keys[p], edges[p], lo[p], hi[p], lo, Far(hi))
        BY <1>2, <2>1, <2>2, PlaceInOrder
    <2>4. n # 0
        <3>1. CASE parent[p] # NULL
            <4>1. ~Underfull(n)
                BY <1>1, <1>i, <2>2, <2>3, <3>1 DEF Local, Occupancy
            <4>2. QED
                BY <4>1, HalfOfM DEF Underfull
        <3>2. CASE parent[p] = NULL
            <4>1. p # op.right \/ op.pc # "overflow"
                BY <1>i
            <4>2. root[owner[p]] = p /\ owner[p] \in Maps
                BY <1>1, <1>i, <2>2, <3>2, Climb DEF Wiring, Forest
            <4>3. keys[p] # <<>>
                BY <1>o, <2>2, <3>2, <4>2
            <4>4. keys[p] \in Seq(Keys)
                BY <2>3 DEF Divided
            <4>5. QED
                BY <2>3, <4>3, <4>4
        <3>3. QED
            BY <3>1, <3>2
    <2>5. PICK ks, es, L, H : ks = keys[p] /\ es = edges[p] /\ L = lo[p] /\ H = hi[p]
        OBVIOUS
    <2>6. Divided(n, ks, es, L, H, lo, hi)
        BY <1>c, <2>3, <2>5
    <2>7. PICK j \in 1 .. n + 1 : j = i + 1
        BY <2>3
    <2>8. \E x \in Keys : x \in lo[es[j]] /\ x \notin hi[es[j]]
        BY <2>4, <2>6, ChildHasRoom
    <2>9. QED
        BY <2>3, <2>5, <2>7, <2>8 DEF Spans
<1>5. QED
    BY <1>3, <1>4

\* So the lower cut of a node is below its upper one.
LEMMA HeldCuts ==
    ASSUME NEW owner, NEW lo, NEW hi, OrderState(owner, lo, hi), op = Idle,
           NEW m \in Maps, NEW s, Held(owner, m, s)
    PROVE  /\ s \in Slots /\ lo[s] \in Cuts /\ hi[s] \in Cuts
           /\ lo[s] # {} /\ hi[s] \subseteq lo[s] /\ lo[s] \subseteq Keys
<1>1. s \in Slots /\ lo[s] \in Cuts /\ hi[s] \in Cuts
    BY DEF OrderState, Held, Wiring, Forest
<1>2. PICK x \in Keys : x \in lo[s] /\ x \notin hi[s]
    BY HeldHasRoom DEF Spans
<1>3. \A y \in hi[s] : y \in Keys /\ x < y
    BY <1>1, <1>2, CutsNest
<1>4. ASSUME NEW y \in hi[s]
      PROVE  x <= y
    <2>1. x \in Int /\ y \in Int /\ x < y
        BY <1>2, <1>3, KeysAssumption
    <2>2. QED
        BY <2>1
<1>5. hi[s] \subseteq lo[s]
    BY <1>1, <1>2, <1>3, <1>4, CutIs
<1>6. QED
    BY <1>1, <1>2, <1>5, CutIs

\* A leaf and the one its link leads to
LEMMA LeafFacts ==
    ASSUME NEW owner, NEW lo, NEW hi, OrderState(owner, lo, hi), op = Idle,
           NEW m \in Maps, NEW s, Held(owner, m, s), level[s] = 0
    PROVE  /\ keys[s] \in Seq(Keys) /\ Len(keys[s]) \in Nat
           /\ LeafOrdered(keys[s], lo[s], hi[s])
           /\ next[s] = NULL <=> hi[s] = {}
           /\ next[s] # NULL => /\ Held(owner, m, next[s]) /\ level[next[s]] = 0
                                /\ prev[next[s]] = s
                                /\ lo[next[s]] = hi[s]
           /\ prev[s] = NULL <=> lo[s] = Keys
<1>1. \A t : Treed(owner, m, t) <=> Held(owner, m, t)
    BY TreedIsHeld DEF Idle
<1>2. QED
    BY <1>1, LeafLinks

\* The interval of one of the leaves has the key, and find() ends there.
LEMMA LinkedCover ==
    ASSUME NEW owner, NEW lo, NEW hi, OrderState(owner, lo, hi), op = Idle,
           NEW m \in Maps, root[m] # NULL, NEW q, NEW n, Linked(owner, m, q, n),
           next[q[n]] = NULL, NEW x \in Keys
    PROVE  \E i \in 1 .. n : Spans(lo, hi, q[i], x) /\ q[i] = FindLeaf(m, x)
<1>1. PICK i \in 1 .. n : Spans(lo, hi, q[i], x)
    BY LinkedSpan
<1>2. Treed(owner, m, q[i]) /\ level[q[i]] = 0
    BY DEF Linked
<1>3. Held(owner, m, q[i]) /\ op.pc # "overflow"
    BY <1>2, TreedIsHeld DEF Idle
<1>4. q[i] = FindLeaf(m, x)
    BY <1>1, <1>2, <1>3, LeafReached
<1>5. QED
    BY <1>1, <1>4

-----------------------------------------------------------------------------
(***************************************************************************)
(* The entries along the leaves.                                           *)
(***************************************************************************)
LEMMA ChainKeysAre ==
    ASSUME NEW owner, NEW lo, NEW hi, OrderState(owner, lo, hi), op = Idle,
           NEW m \in Maps, root[m] # NULL
    PROVE  /\ ChainKeys(m) \in Seq(Keys)
           /\ LeafOrdered(ChainKeys(m), Keys, {})
           /\ ToSet(ChainKeys(m)) = KeysOf(owner, m)
<1>1. PICK n : Linked(owner, m, LeafChain(m), n) /\ next[LeafChain(m)[n]] = NULL
    BY ChainIs
<1>2. PICK q : q = LeafChain(m)
    OBVIOUS
<1>3. /\ n \in Nat /\ n >= 1 /\ Linked(owner, m, q, n) /\ next[q[n]] = NULL
      /\ q \in Seq(Slots) /\ Len(q) = n
      /\ q[1] = first_leaf(m)
      /\ \A i \in 1 .. n : Held(owner, m, q[i]) /\ level[q[i]] = 0
      /\ \A i \in 1 .. n : i < n => next[q[i]] = q[i + 1]
    BY <1>1, <1>2, TreedIsHeld DEF Linked, Idle
<1>4. \A i \in 1 .. n : /\ keys[q[i]] \in Seq(Keys)
                        /\ LeafOrdered(keys[q[i]], lo[q[i]], hi[q[i]])
    BY <1>3, LeafFacts
<1>5. \A i \in 1 .. n : /\ q[i] \in Slots /\ lo[q[i]] \in Cuts /\ hi[q[i]] \in Cuts
                        /\ hi[q[i]] \subseteq lo[q[i]] /\ lo[q[i]] \subseteq Keys
    BY <1>3, HeldCuts
<1>6. ASSUME NEW i \in 1 .. n, i < n
      PROVE  i + 1 \in 1 .. n /\ lo[q[i + 1]] = hi[q[i]]
    <2>1. i + 1 \in 1 .. n
        BY <1>3, <1>6
    <2>2. next[q[i]] = q[i + 1] /\ q[i + 1] # NULL
        BY <1>3, <1>5, <1>6, <2>1, SlotsAssumption
    <2>3. QED
        BY <1>3, <2>1, <2>2, LeafFacts
<1>7. hi[q[n]] = {} /\ lo[q[1]] = Keys
    <2>1. n \in 1 .. n
        BY <1>3
    <2>2. QED
        BY <1>3, <2>1, FirstLeafLow, LeafFacts
<1>8. PICK ss : ss = [i \in 1 .. n |-> keys[q[i]]]
    OBVIOUS
<1>9. ss \in Seq(Seq(Keys)) /\ Len(ss) = n
    BY <1>3, <1>4, <1>8
<1>10. ChainKeys(m) = FlattenSeq(ss)
    <2>1. DOMAIN q = 1 .. n
        BY <1>3
    <2>2. QED
        BY <1>2, <1>8, <2>1 DEF ChainKeys
<1>11. PICK G : G = [i \in 1 .. n |-> {y \in Seq(Keys) :
                        /\ LeafOrdered(y, Keys, hi[q[i]])
                        /\ \A x : x \in ToSet(y) <=> \E j \in 1 .. i : x \in ToSet(keys[q[j]])}]
    OBVIOUS
<1>12. ss[1] \in G[1]
    <2>1. 1 \in 1 .. n
        BY <1>3
    <2>2. LeafOrdered(keys[q[1]], Keys, hi[q[1]]) /\ keys[q[1]] \in Seq(Keys)
        BY <1>4, <1>7, <2>1
    <2>3. \A x : x \in ToSet(keys[q[1]]) <=> \E j \in 1 .. 1 : x \in ToSet(keys[q[j]])
        OBVIOUS
    <2>4. QED
        BY <1>8, <1>11, <2>1, <2>2, <2>3
<1>13. ASSUME NEW i \in 1 .. n - 1, NEW y \in Seq(Keys), y \in G[i]
       PROVE  y \o ss[i + 1] \in G[i + 1]
    <2>1. i \in 1 .. n /\ i < n /\ i + 1 \in 1 .. n
        BY <1>3
    <2>2. PICK C, z, H : C = hi[q[i]] /\ z = keys[q[i + 1]] /\ H = hi[q[i + 1]]
        OBVIOUS
    <2>3. lo[q[i + 1]] = C
        BY <1>6, <2>1, <2>2
    <2>4. /\ z \in Seq(Keys) /\ LeafOrdered(z, C, H) /\ ss[i + 1] = z
          /\ C \in Cuts /\ H \in Cuts /\ H \subseteq C /\ C \subseteq Keys
        BY <1>4, <1>5, <1>8, <2>1, <2>2, <2>3
    <2>5. /\ LeafOrdered(y, Keys, C)
          /\ \A x : x \in ToSet(y) <=> \E j \in 1 .. i : x \in ToSet(keys[q[j]])
        BY <1>11, <1>13, <2>1, <2>2
    <2>6. PICK a, b \in Nat : Len(y) = a /\ Len(z) = b
        BY <2>4
    <2>7. y \o z \in Seq(Keys)
        BY <2>4
    <2>8. LeafOrdered(y \o z, Keys, H)
        <3>1. Keys \in Cuts
            BY DEF Cuts
        <3>2. QED
            BY <2>4, <2>5, <2>6, <3>1, LeafAppend
    <2>9. ToSet(y \o z) = ToSet(y) \cup ToSet(z)
        BY <2>4, <2>6, JoinedSet
    <2>10. ASSUME NEW x
           PROVE  x \in ToSet(y \o z) <=> \E j \in 1 .. i + 1 : x \in ToSet(keys[q[j]])
        <3>1. \A j \in 1 .. i + 1 : j \in 1 .. i \/ j = i + 1
            BY <2>1
        <3>2. \A j \in 1 .. i : j \in 1 .. i + 1
            BY <2>1
        <3>3. i + 1 \in 1 .. i + 1
            BY <2>1
        <3>4. QED
            BY <2>2, <2>5, <2>9, <3>1, <3>2, <3>3
    <2>11. QED
        BY <1>11, <2>1, <2>2, <2>4, <2>7, <2>8, <2>10
<1>14. FlattenSeq(ss) \in Seq(Keys) /\ FlattenSeq(ss) \in G[n]
    <2>1. n \in Nat \ {0}
        BY <1>3
    <2>2. \A i \in 1 .. n - 1 : \A y \in Seq(Keys) : y \in G[i] => y \o ss[i + 1] \in G[i + 1]
        BY <1>13
    <2>3. QED
        BY <1>9, <1>12, <2>1, <2>2, FlattenStays
<1>15. PICK y : y = ChainKeys(m)
    OBVIOUS
<1>16. /\ y \in Seq(Keys) /\ LeafOrdered(y, Keys, {})
       /\ \A x : x \in ToSet(y) <=> \E j \in 1 .. n : x \in ToSet(keys[q[j]])
    <2>1. n \in 1 .. n
        BY <1>3
    <2>2. QED
        BY <1>7, <1>10, <1>11, <1>14, <1>15, <2>1
<1>17. ASSUME NEW x, x \in ToSet(y)
       PROVE  x \in KeysOf(owner, m)
    <2>1. PICK j \in 1 .. n : x \in ToSet(keys[q[j]])
        BY <1>16, <1>17
    <2>2. owner[q[j]] = m /\ level[q[j]] = 0 /\ q[j] \in Slots
        BY <1>3, <1>5, <2>1 DEF Held
    <2>3. x \in LeafKeys(q[j])
        BY <2>1, <2>2 DEF LeafKeys
    <2>4. QED
        BY <2>2, <2>3 DEF KeysOf
<1>18. ASSUME NEW x, x \in KeysOf(owner, m)
       PROVE  x \in ToSet(y)
    <2>1. PICK s \in Slots : owner[s] = m /\ x \in LeafKeys(s)
        BY <1>18 DEF KeysOf
    <2>2. level[s] = 0 /\ x \in ToSet(keys[s])
        BY <2>1 DEF LeafKeys
    <2>3. x \in Keys /\ s = FindLeaf(m, x)
        BY <2>1, <2>2, KeyHome
    <2>4. PICK j \in 1 .. n : q[j] = s
        BY <1>3, <2>3, LinkedCover
    <2>5. QED
        BY <1>16, <2>2, <2>4
<1>19. QED
    BY <1>15, <1>16, <1>17, <1>18

\* find() ends at the leaf that holds the key, if any leaf of the map does.
LEMMA LookupFromOrder ==
    ASSUME IInv, Ordered
    PROVE  LookupComplete
<1>1. SUFFICES ASSUME op = Idle, NEW m \in Maps, root[m] # NULL, NEW k \in Keys
               PROVE  IsAt(FindLeaf(m, k), k) <=> k \in ToSet(ChainKeys(m))
    BY DEF LookupComplete
<1>2. PICK owner, lo, hi : OrderState(owner, lo, hi)
    BY OrderFound
<1>3. ToSet(ChainKeys(m)) = KeysOf(owner, m)
    BY <1>1, <1>2, ChainKeysAre
<1>4. ASSUME k \in KeysOf(owner, m)
      PROVE  k \in ToSet(keys[FindLeaf(m, k)])
    <2>1. PICK s \in Slots : owner[s] = m /\ k \in LeafKeys(s)
        BY <1>4 DEF KeysOf
    <2>2. level[s] = 0 /\ k \in ToSet(keys[s])
        BY <2>1 DEF LeafKeys
    <2>3. s = FindLeaf(m, k)
        BY <1>1, <1>2, <2>1, <2>2, KeyHome
    <2>4. QED
        BY <2>2, <2>3
<1>5. ASSUME k \in ToSet(keys[FindLeaf(m, k)])
      PROVE  k \in KeysOf(owner, m)
    <2>1. op.pc # "overflow"
        BY <1>1 DEF Idle
    <2>2. PICK s \in Slots : s = FindLeaf(m, k) /\ level[s] = 0 /\ owner[s] = m
        BY <1>1, <1>2, <2>1, FindLeafSpans DEF Held
    <2>3. k \in LeafKeys(s)
        BY <1>5, <2>2 DEF LeafKeys
    <2>4. QED
        BY <2>2, <2>3 DEF KeysOf
<1>6. QED
    BY <1>3, <1>4, <1>5 DEF IsAt

-----------------------------------------------------------------------------
(***************************************************************************)
(* What validate() looks at.                                               *)
(***************************************************************************)

\* Below a node with a parent, keys are within the interval of the node.
LEMMA BelowWithin ==
    ASSUME NEW owner, NEW lo, NEW hi, OrderState(owner, lo, hi), op = Idle,
           NEW c \in Slots, parent[c] # NULL, NEW h \in Nat
    PROVE  \A x \in KeysBelow(c, h) : x \in Keys /\ Spans(lo, hi, c, x)
<1>1. Local /\ Wiring(owner) /\ live \subseteq Slots
    BY DEF OrderState, Wiring, Forest
<1>2. op.pc # "overflow"
    BY DEF Idle
<1>3. PICK step : step = [S \in SUBSET Slots |-> Children(S)]
    OBVIOUS
<1>4. PICK D : D = Repeat(step, {c})
    OBVIOUS
<1>5. PICK G : G = [n \in Nat |-> {S \in SUBSET Slots : \A d \in S :
                        /\ parent[d] # NULL
                        /\ \A x \in Keys : Spans(lo, hi, d, x) => Spans(lo, hi, c, x)}]
    OBVIOUS
<1>6. \A n \in 0 .. h : D[n] \in G[n]
    <2>1. {c} \in G[0]
        BY <1>5
    <2>2. ASSUME NEW n \in Nat, n < h, NEW S \in G[n]
          PROVE  step[S] \in G[n + 1]
        <3>1. /\ S \in SUBSET Slots
              /\ \A d \in S : \A x \in Keys : Spans(lo, hi, d, x) => Spans(lo, hi, c, x)
            BY <1>5, <2>2
        <3>2. step[S] = Children(S)
            BY <1>3, <3>1
        <3>3. ASSUME NEW d \in Children(S)
              PROVE  /\ d \in Slots /\ parent[d] # NULL
                     /\ \A x \in Keys : Spans(lo, hi, d, x) => Spans(lo, hi, c, x)
            <4>1. PICK s \in S : d \in ToSet(edges[s])
                BY <3>3 DEF Children
            <4>2. s \in Slots /\ s # NULL
                BY <3>1, <4>1, SlotsAssumption
            <4>3. PICK i \in DOMAIN edges[s] : d = edges[s][i]
                BY <4>1 DEF ToSet
            <4>4. d \in Slots /\ parent[d] = s
                BY <1>1, <4>2, <4>3, ForestChild DEF Wiring
            <4>5. \A x \in Keys : Spans(lo, hi, d, x) => Spans(lo, hi, s, x)
                BY <1>2, <4>2, <4>4, StepFinds
            <4>6. QED
                BY <3>1, <4>1, <4>2, <4>4, <4>5
        <3>4. QED
            BY <1>5, <3>2, <3>3
    <2>3. \A n \in Nat : n < h => \A S \in G[n] : step[S] \in G[n + 1]
        BY <2>2
    <2>4. QED
        BY ONLY h \in Nat, <1>4, <2>1, <2>3, WalkStays
<1>7. Subtree(c, h) = UNION {D[n] : n \in 0 .. h}
    BY <1>3, <1>4 DEF Subtree
<1>8. SUFFICES ASSUME NEW x \in KeysBelow(c, h)
               PROVE  x \in Keys /\ Spans(lo, hi, c, x)
    OBVIOUS
<1>9. PICK d \in Subtree(c, h) : level[d] = 0 /\ x \in ToSet(keys[d])
    BY DEF KeysBelow
<1>10. PICK n \in 0 .. h : d \in D[n]
    BY <1>7, <1>9
<1>11. d \in Slots /\ \A y \in Keys : Spans(lo, hi, d, y) => Spans(lo, hi, c, y)
    BY <1>5, <1>6, <1>10
<1>12. x \in Keys /\ Spans(lo, hi, d, x)
    BY <1>9, <1>11, KeyHome
<1>13. QED
    BY <1>11, <1>12

LEMMA KeysInOrderHold ==
    ASSUME NEW owner, NEW lo, NEW hi, OrderState(owner, lo, hi), op = Idle,
           NEW m \in Maps, root[m] # NULL
    PROVE  KeysInOrder(m)
<1>1. Local /\ Wiring(owner) /\ RootsOwned(owner) /\ live \subseteq Slots /\ height[m] \in Nat
    BY DEF OrderState, Wiring, Forest, Local, DataTypes
<1>2. PICK ks : ks = ChainKeys(m)
    OBVIOUS
<1>3. ks \in Seq(Keys) /\ LeafOrdered(ks, Keys, {})
    BY <1>2, ChainKeysAre
<1>4. \A i \in 1 .. Len(ks) - 1 : ks[i] < ks[i + 1]
    <2>1. PICK n \in Nat : Len(ks) = n /\ DOMAIN ks = 1 .. n
        BY <1>3
    <2>2. \A i \in 1 .. n - 1 : i \in 1 .. n /\ i + 1 \in 1 .. n /\ i < i + 1
        BY <2>1
    <2>3. QED
        BY <1>3, <2>1, <2>2 DEF LeafOrdered
<1>5. ASSUME NEW s \in TreeOf(m), level[s] > 0, NEW i \in DOMAIN keys[s]
      PROVE  /\ \A k \in KeysBelow(edges[s][i], height[m]) : k < keys[s][i]
             /\ \A k \in KeysBelow(edges[s][i + 1], height[m]) : keys[s][i] <= k
    <2>1. s \in live /\ s \in Slots /\ s # NULL
        BY <1>1, TreeData, SlotsAssumption
    <2>2. level[s] # 0
        BY <1>5
    <2>3. PICK n \in Nat :
            /\ DOMAIN keys[s] = 1 .. n /\ Len(keys[s]) = n
            /\ Divided(n, keys[s], edges[s], lo[s], hi[s], lo, Far(hi))
        BY <2>1, <2>2, NodeInOrder
    <2>4. PICK e, f, k : e = edges[s][i] /\ f = edges[s][i + 1] /\ k = keys[s][i]
        OBVIOUS
    <2>5. Far(hi) = hi
        BY DEF Far, Idle
    <2>6. k \in Keys /\ hi[e] = Up(k) /\ lo[f] = Up(k)
        <3>1. Separates(k, e, f, lo, hi) /\ keys[s] \in Seq(Keys)
            BY <2>3, <2>4, <2>5 DEF Divided, Divides
        <3>2. QED
            BY <2>3, <2>4, <3>1 DEF Separates
    <2>7. e \in Slots /\ parent[e] = s /\ f \in Slots /\ parent[f] = s
        <3>1. edges[s] \in Seq(Slots) /\ Len(edges[s]) = n + 1
            BY <2>3 DEF Divided
        <3>2. i \in DOMAIN edges[s] /\ i + 1 \in DOMAIN edges[s]
            BY <2>3, <3>1
        <3>3. QED
            BY <1>1, <2>1, <2>4, <3>2, ForestChild DEF Wiring
    <2>8. ASSUME NEW x \in KeysBelow(e, height[m])
          PROVE  x < k
        <3>1. x \in Keys /\ x \notin Up(k)
            BY <1>1, <2>1, <2>6, <2>7, <2>8, BelowWithin DEF Spans
        <3>2. ~(k <= x)
            BY <2>6, <3>1 DEF Up
        <3>3. x \in Int /\ k \in Int
            BY <2>6, <3>1, KeysAssumption
        <3>4. QED
            BY <3>2, <3>3
    <2>9. ASSUME NEW x \in KeysBelow(f, height[m])
          PROVE  k <= x
        <3>1. x \in Up(k)
            BY <1>1, <2>1, <2>6, <2>7, <2>9, BelowWithin DEF Spans
        <3>2. QED
            BY <3>1 DEF Up
    <2>10. QED
        BY <2>4, <2>8, <2>9
<1>6. QED
    BY <1>2, <1>4, <1>5 DEF KeysInOrder

\* n nodes of a map on level l, one after the other from the cut L to the cut H
Row(owner, lo, hi, m, q, n, l, L, H) ==
    /\ n \in Nat /\ n >= 1
    /\ q \in Seq(Slots) /\ Len(q) = n
    /\ \A i \in 1 .. n : Held(owner, m, q[i]) /\ level[q[i]] = l
    /\ lo[q[1]] = L
    /\ hi[q[n]] = H
    /\ \A i \in 1 .. n : i < n => hi[q[i]] = lo[q[i + 1]]

LEMMA RowJoin ==
    ASSUME NEW owner, NEW lo, NEW hi, NEW m, NEW l, NEW L, NEW C, NEW H,
           NEW q, NEW a, Row(owner, lo, hi, m, q, a, l, L, C),
           NEW r, NEW b, Row(owner, lo, hi, m, r, b, l, C, H)
    PROVE  Row(owner, lo, hi, m, q \o r, a + b, l, L, H)
<1>1. /\ a \in Nat /\ a >= 1 /\ q \in Seq(Slots) /\ Len(q) = a
      /\ \A i \in 1 .. a : Held(owner, m, q[i]) /\ level[q[i]] = l
      /\ lo[q[1]] = L /\ hi[q[a]] = C
      /\ \A i \in 1 .. a : i < a => hi[q[i]] = lo[q[i + 1]]
    BY DEF Row
<1>2. /\ b \in Nat /\ b >= 1 /\ r \in Seq(Slots) /\ Len(r) = b
      /\ \A i \in 1 .. b : Held(owner, m, r[i]) /\ level[r[i]] = l
      /\ lo[r[1]] = C /\ hi[r[b]] = H
      /\ \A i \in 1 .. b : i < b => hi[r[i]] = lo[r[i + 1]]
    BY DEF Row
<1>3. PICK y : y = q \o r
    OBVIOUS
<1>4. y \in Seq(Slots) /\ Len(y) = a + b
    BY <1>1, <1>2, <1>3, ConcatSeq
<1>5. y = [j \in 1 .. a + b |-> IF j <= a THEN q[j] ELSE r[j - a]]
    BY <1>1, <1>2, <1>3, ConcatDef
<1>6. \A j \in 1 .. a : j \in 1 .. a + b /\ y[j] = q[j]
    <2>1. \A j \in 1 .. a : j \in 1 .. a + b /\ j <= a
        BY <1>1, <1>2
    <2>2. QED
        BY <1>5, <2>1
<1>7. \A j \in 1 .. b : j + a \in 1 .. a + b /\ y[j + a] = r[j]
    <2>1. \A j \in 1 .. b : j + a \in 1 .. a + b /\ ~(j + a <= a) /\ (j + a) - a = j
        BY <1>1, <1>2
    <2>2. QED
        BY <1>5, <2>1
<1>8. \A j \in 1 .. a + b : j \in 1 .. a \/ \E i \in 1 .. b : j = i + a
    <2>1. \A j \in 1 .. a + b : j \in 1 .. a \/ (j - a \in 1 .. b /\ j = (j - a) + a)
        BY <1>1, <1>2
    <2>2. QED
        BY <2>1
<1>9. ASSUME NEW j \in 1 .. a + b
      PROVE  Held(owner, m, y[j]) /\ level[y[j]] = l
    <2>1. CASE j \in 1 .. a
        <3>1. y[j] = q[j]
            BY <1>6, <2>1
        <3>2. QED
            BY <1>1, <2>1, <3>1
    <2>2. CASE \E i \in 1 .. b : j = i + a
        <3>1. PICK i \in 1 .. b : y[j] = r[i]
            BY <1>7, <2>2
        <3>2. QED
            BY <1>2, <3>1
    <2>3. QED
        BY <1>8, <2>1, <2>2
<1>10. lo[y[1]] = L /\ hi[y[a + b]] = H
    <2>1. 1 \in 1 .. a /\ b \in 1 .. b /\ b + a = a + b
        BY <1>1, <1>2
    <2>2. y[1] = q[1] /\ y[a + b] = r[b]
        BY <1>6, <1>7, <2>1
    <2>3. QED
        BY <1>1, <1>2, <2>2
<1>11. ASSUME NEW j \in 1 .. a + b, j < a + b
       PROVE  hi[y[j]] = lo[y[j + 1]]
    <2>1. CASE j \in 1 .. a /\ j < a
        <3>1. j + 1 \in 1 .. a
            BY <1>1, <2>1
        <3>2. QED
            BY <1>1, <1>6, <2>1, <3>1
    <2>2. CASE j = a
        <3>1. a \in 1 .. a /\ 1 \in 1 .. b /\ 1 + a = j + 1
            BY <1>1, <1>2, <2>2
        <3>2. y[j] = q[a] /\ y[j + 1] = r[1]
            BY <1>6, <1>7, <2>2, <3>1
        <3>3. QED
            BY <1>1, <1>2, <3>2
    <2>3. CASE j > a
        <3>1. PICK i \in 1 .. b : j = i + a
            BY <1>1, <1>8, <2>3
        <3>2. i < b /\ i + 1 \in 1 .. b /\ (i + 1) + a = j + 1
            BY <1>1, <1>2, <1>11, <3>1
        <3>3. y[j] = r[i] /\ y[j + 1] = r[i + 1]
            BY <1>7, <3>1, <3>2
        <3>4. QED
            BY <1>2, <3>2, <3>3
    <2>4. QED
        BY <1>1, <2>1, <2>2, <2>3
<1>12. a + b \in Nat /\ a + b >= 1
    BY <1>1, <1>2
<1>13. Row(owner, lo, hi, m, y, a + b, l, L, H)
    BY <1>4, <1>9, <1>10, <1>11, <1>12 DEF Row
<1>14. QED
    BY <1>3, <1>13

\* The children of a node
LEMMA ChildrenRow ==
    ASSUME NEW owner, NEW lo, NEW hi, OrderState(owner, lo, hi), op = Idle,
           NEW m \in Maps, NEW s, Held(owner, m, s), level[s] # 0
    PROVE  \E n : Row(owner, lo, hi, m, edges[s], n, level[s] - 1, lo[s], hi[s])
<1>1. Local /\ Wiring(owner) /\ live \subseteq Slots
    BY DEF OrderState, Wiring, Forest
<1>2. s \in live /\ s \in Slots /\ owner[s] = m
    BY <1>1 DEF Held
<1>3. PICK n \in Nat :
        /\ Len(keys[s]) = n
        /\ Divided(n, keys[s], edges[s], lo[s], hi[s], lo, Far(hi))
    BY <1>2, NodeInOrder
<1>4. PICK es, ks : es = edges[s] /\ ks = keys[s]
    OBVIOUS
<1>5. Far(hi) = hi
    BY DEF Far, Idle
<1>6. /\ es \in Seq(Slots) /\ Len(es) = n + 1 /\ DOMAIN ks = 1 .. n
      /\ lo[es[1]] = lo[s] /\ hi[es[n + 1]] = hi[s]
      /\ \A i \in DOMAIN ks : Separates(ks[i], es[i], es[i + 1], lo, hi)
    BY <1>3, <1>4, <1>5 DEF Divided, Divides
<1>7. ASSUME NEW i \in 1 .. n + 1
      PROVE  Held(owner, m, es[i]) /\ level[es[i]] = level[s] - 1
    BY <1>1, <1>2, <1>3, <1>4, StepDown DEF Held
<1>8. \A i \in 1 .. n + 1 : i < n + 1 => hi[es[i]] = lo[es[i + 1]]
    <2>1. \A i \in 1 .. n + 1 : i < n + 1 => i \in DOMAIN ks
        BY <1>6
    <2>2. QED
        BY <1>6, <2>1 DEF Separates
<1>9. n + 1 \in Nat /\ n + 1 >= 1
    OBVIOUS
<1>10. Row(owner, lo, hi, m, es, n + 1, level[s] - 1, lo[s], hi[s])
    BY <1>6, <1>7, <1>8, <1>9 DEF Row
<1>11. QED
    BY <1>4, <1>10

\* The nodes of the next level are the children of this one's.
LEMMA RowBelow ==
    ASSUME NEW owner, NEW lo, NEW hi, OrderState(owner, lo, hi), op = Idle,
           NEW m \in Maps, NEW l \in Nat, l # 0, NEW L, NEW H,
           NEW q, NEW n, Row(owner, lo, hi, m, q, n, l, L, H)
    PROVE  \E k : Row(owner, lo, hi, m, FlattenSeq([i \in DOMAIN q |-> edges[q[i]]]),
                      k, l - 1, L, H)
<1>1. /\ n \in Nat /\ n >= 1 /\ q \in Seq(Slots) /\ Len(q) = n
      /\ \A i \in 1 .. n : Held(owner, m, q[i]) /\ level[q[i]] = l
      /\ lo[q[1]] = L /\ hi[q[n]] = H
      /\ \A i \in 1 .. n : i < n => hi[q[i]] = lo[q[i + 1]]
    BY DEF Row
<1>2. PICK es : es = [i \in DOMAIN q |-> edges[q[i]]]
    OBVIOUS
<1>3. PICK d : d = l - 1
    OBVIOUS
<1>4. \A i \in 1 .. n : \E k : Row(owner, lo, hi, m, edges[q[i]], k, d, lo[q[i]], hi[q[i]])
    BY <1>1, <1>3, ChildrenRow
<1>5. \A i \in 1 .. n : edges[q[i]] \in Seq(Slots)
    BY <1>4 DEF Row
<1>6. DOMAIN q = 1 .. n
    BY <1>1
<1>7. es \in Seq(Seq(Slots)) /\ Len(es) = n /\ \A i \in 1 .. n : es[i] = edges[q[i]]
    BY <1>1, <1>2, <1>5, <1>6
<1>8. PICK G : G = [i \in 1 .. n |-> {y \in Seq(Slots) :
                      \E k : Row(owner, lo, hi, m, y, k, d, L, hi[q[i]])}]
    OBVIOUS
<1>9. es[1] \in G[1]
    <2>1. 1 \in 1 .. n
        BY <1>1
    <2>2. QED
        BY <1>1, <1>4, <1>5, <1>7, <1>8, <2>1
<1>10. ASSUME NEW i \in 1 .. n - 1, NEW y \in Seq(Slots), y \in G[i]
       PROVE  y \o es[i + 1] \in G[i + 1]
    <2>1. i \in 1 .. n /\ i < n /\ i + 1 \in 1 .. n
        BY <1>1
    <2>2. PICK C, z, D : C = hi[q[i]] /\ z = edges[q[i + 1]] /\ D = hi[q[i + 1]]
        OBVIOUS
    <2>3. PICK a : Row(owner, lo, hi, m, y, a, d, L, C)
        BY <1>8, <1>10, <2>1, <2>2
    <2>4. PICK b : Row(owner, lo, hi, m, z, b, d, C, D)
        BY <1>1, <1>4, <2>1, <2>2
    <2>5. Row(owner, lo, hi, m, y \o z, a + b, d, L, D)
        BY <2>3, <2>4, RowJoin
    <2>6. y \o z \in Seq(Slots)
        BY <2>5 DEF Row
    <2>7. QED
        BY <1>7, <1>8, <2>1, <2>2, <2>5, <2>6
<1>11. FlattenSeq(es) \in G[n]
    <2>1. n \in Nat \ {0}
        BY <1>1
    <2>2. \A i \in 1 .. n - 1 : \A y \in Seq(Slots) : y \in G[i] => y \o es[i + 1] \in G[i + 1]
        BY <1>10
    <2>3. QED
        BY <1>7, <1>9, <2>1, <2>2, FlattenStays
<1>12. n \in 1 .. n
    BY <1>1
<1>13. QED
    BY <1>1, <1>2, <1>3, <1>8, <1>11, <1>12

LEMMA LeavesAre ==
    ASSUME NEW owner, NEW lo, NEW hi, OrderState(owner, lo, hi), op = Idle,
           NEW m \in Maps, root[m] # NULL
    PROVE  \E n : Row(owner, lo, hi, m, Level(m, height[m]), n, 0, Keys, {})
<1>1. Local /\ Wiring(owner) /\ RootsOwned(owner)
    BY DEF OrderState
<1>2. live \subseteq Slots /\ RootsAgree
    BY <1>1 DEF Local, Wiring, Forest
<1>3. PICK h \in Nat : h = height[m]
    BY <1>1 DEF Local, DataTypes
<1>4. PICK r : r = root[m]
    OBVIOUS
<1>5. /\ r \in live /\ r \in Slots /\ parent[r] = NULL /\ level[r] = h /\ owner[r] = m
      /\ Held(owner, m, r)
    BY <1>1, <1>2, <1>3, <1>4 DEF RootsAgree, RootsOwned, Held
<1>6. PICK down : down = [q \in Seq(Slots) |-> FlattenSeq([i \in DOMAIN q |-> edges[q[i]]])]
    OBVIOUS
<1>7. Level(m, h) = Repeat(down, <<r>>)[h]
    BY <1>4, <1>6 DEF Level
<1>8. PICK G : G = [k \in Nat |-> {q \in Seq(Slots) :
                      \E n : Row(owner, lo, hi, m, q, n, h - k, Keys, {})}]
    OBVIOUS
<1>9. <<r>> \in G[0]
    <2>1. PICK q : q = <<r>>
        OBVIOUS
    <2>2. q \in Seq(Slots) /\ Len(q) = 1 /\ q[1] = r
        BY <1>5, <2>1
    <2>3. \A i \in 1 .. 1 : q[i] = r /\ ~(i < 1)
        BY <2>2
    <2>4. op.pc # "overflow"
        BY DEF Idle
    <2>5. lo[r] = Keys /\ hi[r] = {}
        BY <1>5, <2>4, CalmState
    <2>6. Row(owner, lo, hi, m, q, 1, h, Keys, {})
        BY <1>5, <2>2, <2>3, <2>5 DEF Row
    <2>7. h - 0 = h /\ 0 \in Nat
        OBVIOUS
    <2>8. QED
        BY <1>8, <2>1, <2>2, <2>6, <2>7
<1>10. ASSUME NEW k \in Nat, k < h, NEW q \in G[k]
       PROVE  down[q] \in G[k + 1]
    <2>1. PICK n : Row(owner, lo, hi, m, q, n, h - k, Keys, {})
        BY <1>8, <1>10
    <2>2. PICK l \in Nat : l = h - k /\ l # 0 /\ h - (k + 1) = l - 1
        BY <1>10
    <2>3. q \in Seq(Slots)
        BY <2>1 DEF Row
    <2>4. PICK y : y = FlattenSeq([i \in DOMAIN q |-> edges[q[i]]])
        OBVIOUS
    <2>5. Row(owner, lo, hi, m, q, n, l, Keys, {})
        BY <2>1, <2>2
    <2>6. PICK j : Row(owner, lo, hi, m, y, j, l - 1, Keys, {})
        BY <2>2, <2>4, <2>5, RowBelow
    <2>7. y \in Seq(Slots) /\ k + 1 \in Nat
        BY <2>6 DEF Row
    <2>8. Row(owner, lo, hi, m, y, j, h - (k + 1), Keys, {})
        BY <2>2, <2>6
    <2>9. down[q] = y
        BY <1>6, <2>3, <2>4
    <2>10. QED
        BY <1>8, <2>7, <2>8, <2>9
<1>11. \A k \in 0 .. h : Repeat(down, <<r>>)[k] \in G[k]
    <2>1. \A k \in Nat : k < h => \A y \in G[k] : down[y] \in G[k + 1]
        BY <1>10
    <2>2. QED
        BY ONLY h \in Nat, <1>9, <2>1, WalkStays
<1>12. Level(m, h) \in G[h]
    BY <1>7, <1>11
<1>13. h - h = 0
    OBVIOUS
<1>14. PICK n : Row(owner, lo, hi, m, Level(m, h), n, 0, Keys, {})
    BY <1>8, <1>12, <1>13
<1>15. QED
    BY <1>3, <1>14

\* Two leaves that begin at the same cut are the same.
LEMMA SameStart ==
    ASSUME NEW owner, NEW lo, NEW hi, OrderState(owner, lo, hi), op = Idle,
           NEW m \in Maps, NEW s, Held(owner, m, s), NEW t, Held(owner, m, t),
           level[s] = level[t], lo[s] = lo[t]
    PROVE  s = t
<1>1. /\ lo[s] \in Cuts /\ hi[s] \in Cuts /\ lo[t] \in Cuts /\ hi[t] \in Cuts
    BY HeldCuts
<1>2. PICK x \in Keys : x \in lo[s] /\ x \notin hi[s]
    BY HeldHasRoom DEF Spans
<1>3. PICK y \in Keys : y \in lo[t] /\ y \notin hi[t]
    BY HeldHasRoom DEF Spans
<1>4. x \in Int /\ y \in Int /\ op.pc # "overflow"
    BY KeysAssumption DEF Idle
<1>5. CASE x <= y
    <2>1. x \notin hi[t]
        BY <1>1, <1>3, <1>5, CutIs
    <2>2. Spans(lo, hi, s, x) /\ Spans(lo, hi, t, x)
        BY <1>2, <2>1 DEF Spans
    <2>3. QED
        BY <1>4, <2>2, SpanApart
<1>6. CASE y <= x
    <2>1. y \notin hi[s]
        BY <1>1, <1>2, <1>6, CutIs
    <2>2. Spans(lo, hi, s, y) /\ Spans(lo, hi, t, y)
        BY <1>3, <2>1 DEF Spans
    <2>3. QED
        BY <1>4, <2>2, SpanApart
<1>7. QED
    BY <1>4, <1>5, <1>6

LEMMA LeavesLinkedHold ==
    ASSUME NEW owner, NEW lo, NEW hi, OrderState(owner, lo, hi), op = Idle,
           NEW m \in Maps, root[m] # NULL
    PROVE  LeavesLinked(m)
<1>1. PICK q : q = Level(m, height[m])
    OBVIOUS
<1>2. PICK n : Row(owner, lo, hi, m, q, n, 0, Keys, {})
    BY <1>1, LeavesAre
<1>3. /\ n \in Nat /\ n >= 1 /\ q \in Seq(Slots) /\ Len(q) = n
      /\ \A i \in 1 .. n : Held(owner, m, q[i]) /\ level[q[i]] = 0
      /\ lo[q[1]] = Keys /\ hi[q[n]] = {}
      /\ \A i \in 1 .. n : i < n => hi[q[i]] = lo[q[i + 1]]
    BY <1>2 DEF Row
<1>4. ASSUME NEW i \in 1 .. n, i < n
      PROVE  i + 1 \in 1 .. n /\ next[q[i]] = q[i + 1] /\ prev[q[i + 1]] = q[i]
    <2>1. i + 1 \in 1 .. n
        BY <1>3, <1>4
    <2>2. PICK s, t : s = q[i] /\ t = q[i + 1]
        OBVIOUS
    <2>3. /\ Held(owner, m, s) /\ level[s] = 0 /\ Held(owner, m, t) /\ level[t] = 0
          /\ hi[s] = lo[t]
        BY <1>3, <1>4, <2>1, <2>2
    <2>4. hi[s] # {}
        BY <2>3, HeldCuts
    <2>5. PICK u : u = next[s]
        OBVIOUS
    <2>6. Held(owner, m, u) /\ level[u] = 0 /\ prev[u] = s /\ lo[u] = hi[s]
        BY <2>3, <2>4, <2>5, LeafFacts
    <2>7. u = t
        BY <2>3, <2>6, SameStart
    <2>8. QED
        BY <2>1, <2>2, <2>5, <2>6, <2>7
<1>5. prev[q[1]] = NULL
    <2>1. 1 \in 1 .. n
        BY <1>3
    <2>2. QED
        BY <1>3, <2>1, LeafFacts
<1>6. next[q[n]] = NULL
    <2>1. n \in 1 .. n
        BY <1>3
    <2>2. QED
        BY <1>3, <2>1, LeafFacts
<1>7. ASSUME NEW i \in 1 .. n
      PROVE  /\ prev[q[i]] = IF i = 1 THEN NULL ELSE q[i - 1]
             /\ next[q[i]] = IF i = n THEN NULL ELSE q[i + 1]
    <2>1. i # n => next[q[i]] = q[i + 1]
        BY <1>3, <1>4
    <2>2. ASSUME i # 1
          PROVE  prev[q[i]] = q[i - 1]
        <3>1. i - 1 \in 1 .. n /\ i - 1 < n /\ (i - 1) + 1 = i
            BY <1>3, <2>2
        <3>2. QED
            BY <1>4, <3>1
    <2>3. QED
        BY <1>5, <1>6, <2>1, <2>2
<1>8. QED
    BY <1>1, <1>3, <1>7 DEF LeavesLinked

\* `length` is the number of entries.
LEMMA LengthHolds ==
    ASSUME NEW owner, NEW lo, NEW hi, OrderState(owner, lo, hi), op = Idle,
           NEW m \in Maps, root[m] # NULL
    PROVE  Len(ChainKeys(m)) = length[m]
<1>1. PICK ks : ks = ChainKeys(m)
    OBVIOUS
<1>2. ks \in Seq(Keys) /\ LeafOrdered(ks, Keys, {}) /\ ToSet(ks) = KeysOf(owner, m)
    BY <1>1, ChainKeysAre
<1>3. PICK n \in Nat : Len(ks) = n
    BY <1>2
<1>4. Cardinality(KeysOf(owner, m)) = n
    BY <1>2, <1>3, RisingKeys
<1>5. Cardinality(KeysOf(owner, m)) = length[m] + Uncounted(m)
    BY DEF OrderState, EntriesCounted
<1>6. Uncounted(m) = 0 /\ length[m] \in Int
    BY DEF Uncounted, Idle, OrderState, Local, DataTypes
<1>7. QED
    BY <1>1, <1>3, <1>4, <1>5, <1>6

\* validate() finds nothing.
LEMMA ValidFromOrder ==
    ASSUME IInv, Ordered
    PROVE  Validates
<1>1. SUFFICES ASSUME op = Idle, NEW m \in Maps
               PROVE  IF root[m] = NULL THEN length[m] = 0 ELSE ValidTree(m)
    BY DEF Validates
<1>2. PICK owner, lo, hi : OrderState(owner, lo, hi)
    BY OrderFound
<1>3. CASE root[m] = NULL
    <2>1. KeysOf(owner, m) = {}
        BY <1>1, <1>2, <1>3, EmptyMap
    <2>2. Cardinality(KeysOf(owner, m)) = 0
        BY <2>1, FS_EmptySet
    <2>3. Cardinality(KeysOf(owner, m)) = length[m] + Uncounted(m)
        BY <1>2 DEF OrderState, EntriesCounted
    <2>4. Uncounted(m) = 0 /\ length[m] \in Int
        BY <1>1, <1>2 DEF Uncounted, Idle, OrderState, Local, DataTypes
    <2>5. QED
        BY <1>3, <2>2, <2>3, <2>4
<1>4. CASE root[m] # NULL
    <2>1. LeavesLinked(m) /\ KeysInOrder(m) /\ Len(ChainKeys(m)) = length[m]
        BY <1>1, <1>2, <1>4, LeavesLinkedHold, KeysInOrderHold, LengthHolds
    <2>2. QED
        BY <1>4, <2>1 DEF ValidTree
<1>5. QED
    BY <1>3, <1>4

-----------------------------------------------------------------------------
(***************************************************************************)
(* The leaves of a map, as a cursor meets them.                            *)
(***************************************************************************)

\* q are the n leaves of m, in the order of their links.
Chain(m, q, n) ==
    /\ n \in 0 .. Cardinality(Slots)
    /\ q \in Seq(Slots) /\ Len(q) = n
    /\ root[m] = NULL <=> n = 0
    /\ n # 0 => q[1] = first_leaf(m)
    /\ \A i \in 1 .. n :
          /\ q[i] \in TreeOf(m) /\ q[i] \in live /\ level[q[i]] = 0
          /\ Len(keys[q[i]]) >= 1
          /\ next[q[i]] = IF i = n THEN NULL ELSE q[i + 1]
          /\ prev[q[i]] = IF i = 1 THEN NULL ELSE q[i - 1]

KeysOn(q) == [i \in DOMAIN q |-> keys[q[i]]]
ValsOn(q) == [i \in DOMAIN q |-> vals[q[i]]]

\* A first part of a sequence, and the element after it
LEMMA SegmentGrows ==
    ASSUME NEW S, NEW q \in Seq(S), NEW k \in Nat, k + 1 <= Len(q)
    PROVE  Append(SubSeq(q, 1, k), q[k + 1]) = SubSeq(q, 1, k + 1)
<1>1. PICK n \in Nat : n = Len(q)
    OBVIOUS
<1>2. k <= n /\ k + 1 <= n /\ k \in 0 .. n /\ k + 1 \in 0 .. n
    BY <1>1
<1>3. /\ SubSeq(q, 1, k) = [i \in 1 .. k |-> q[i]] /\ SubSeq(q, 1, k) \in Seq(S)
      /\ Len(SubSeq(q, 1, k)) = k
    BY <1>1, <1>2
<1>4. SubSeq(q, 1, k + 1) = [i \in 1 .. k + 1 |-> q[i]]
    BY <1>1, <1>2
<1>5. q[k + 1] \in S
    BY <1>1, <1>2
<1>6. Append(SubSeq(q, 1, k), q[k + 1])
        = [i \in 1 .. k + 1 |-> IF i = k + 1 THEN q[k + 1] ELSE SubSeq(q, 1, k)[i]]
    BY <1>3, <1>5, AppendDef
<1>7. \A i \in 1 .. k + 1 :
          (IF i = k + 1 THEN q[k + 1] ELSE SubSeq(q, 1, k)[i]) = q[i]
    BY <1>3
<1>8. QED
    BY <1>4, <1>6, <1>7

\* What LeafChain follows: the links from the first leaf to the last
Follows(m, q, n) ==
    /\ n \in 0 .. Cardinality(Slots)
    /\ q \in Seq(Slots) /\ Len(q) = n
    /\ root[m] = NULL <=> n = 0
    /\ n # 0 => q[1] = first_leaf(m)
    /\ \A i \in 1 .. n : next[q[i]] = IF i = n THEN NULL ELSE q[i + 1]

LEMMA FollowedIsWalk ==
    ASSUME NEW m \in Maps, NEW q, NEW n, Follows(m, q, n)
    PROVE  LeafChain(m) = q
<1>1. /\ n \in Nat /\ q \in Seq(Slots) /\ Len(q) = n /\ (root[m] = NULL <=> n = 0)
    <2>1. Cardinality(Slots) \in Nat
        BY SlotsAssumption, FS_CardinalityType
    <2>2. QED
        BY <2>1 DEF Follows
<1>2. CASE n = 0
    <2>1. q = <<>>
        BY <1>1, <1>2
    <2>2. QED
        BY <1>1, <1>2, <2>1 DEF LeafChain
<1>3. CASE n # 0
    <2>1. PICK follow : follow = [x \in Seq(Slots) |->
                                    IF next[Last(x)] = NULL THEN x
                                    ELSE Append(x, next[Last(x)])]
        OBVIOUS
    <2>2. PICK N \in Nat : N = Cardinality(Slots)
        BY SlotsAssumption, FS_CardinalityType
    <2>3. LeafChain(m) = Repeat(follow, <<q[1]>>)[N]
        BY <1>1, <1>3, <2>1, <2>2 DEF LeafChain, Follows
    <2>4. PICK G : G = [k \in Nat |-> IF k + 1 <= n THEN {SubSeq(q, 1, k + 1)} ELSE {q}]
        OBVIOUS
    <2>5. SubSeq(q, 1, n) = q
        BY <1>1
    <2>6. <<q[1]>> \in G[0]
        <3>1. 1 <= n /\ SubSeq(q, 1, 1) = <<q[1]>>
            <4>1. 1 <= n /\ q[1] \in Slots
                BY <1>1, <1>3
            <4>2. PICK r : r = SubSeq(q, 1, 1)
                OBVIOUS
            <4>3. r \in Seq(Slots) /\ Len(r) = 1 /\ r[1] = q[1]
                BY <1>1, <4>1, <4>2
            <4>4. r = <<q[1]>>
                BY <4>3
            <4>5. QED
                BY <4>1, <4>2, <4>4
        <3>2. 0 \in Nat /\ 0 + 1 = 1
            OBVIOUS
        <3>3. G[0] = {SubSeq(q, 1, 1)}
            BY <2>4, <3>1, <3>2
        <3>4. QED
            BY <3>1, <3>3
    <2>7. ASSUME NEW k \in Nat, k < N, NEW y \in G[k]
          PROVE  follow[y] \in G[k + 1]
        <3>1. k + 1 \in Nat
            OBVIOUS
        <3>2. CASE k + 1 < n
            <4>1. y = SubSeq(q, 1, k + 1)
                BY <1>1, <2>4, <2>7, <3>2
            <4>2. k + 1 \in 0 .. n /\ (k + 1) + 1 <= n /\ k + 1 \in 1 .. n /\ k + 1 # n
                BY <1>1, <3>2
            <4>3. y \in Seq(Slots) /\ Len(y) = k + 1 /\ y[k + 1] = q[k + 1]
                BY <1>1, <4>1, <4>2
            <4>4. Last(y) = q[k + 1]
                BY <4>3 DEF Last
            <4>5. next[q[k + 1]] = q[(k + 1) + 1]
                BY <4>2 DEF Follows
            <4>6. q[(k + 1) + 1] # NULL
                <5>1. q[(k + 1) + 1] \in Slots
                    BY <1>1, <4>2
                <5>2. QED
                    BY <5>1, SlotsAssumption
            <4>7. follow[y] = Append(y, q[(k + 1) + 1])
                BY <2>1, <4>3, <4>4, <4>5, <4>6
            <4>8. follow[y] = SubSeq(q, 1, (k + 1) + 1)
                BY <1>1, <3>1, <4>1, <4>2, <4>7, SegmentGrows
            <4>9. QED
                BY <2>4, <3>1, <4>2, <4>8
        <3>3. CASE ~(k + 1 < n)
            <4>1. y = q
                <5>1. CASE k + 1 = n
                    BY <1>1, <2>4, <2>5, <2>7, <5>1
                <5>2. CASE k + 1 # n
                    BY <1>1, <2>4, <2>7, <3>3, <5>2
                <5>3. QED
                    BY <5>1, <5>2
            <4>2. Last(y) = q[n] /\ n \in 1 .. n
                BY <1>1, <1>3, <4>1 DEF Last
            <4>3. next[q[n]] = NULL
                BY <4>2 DEF Follows
            <4>4. follow[y] = q
                BY <1>1, <2>1, <4>1, <4>2, <4>3
            <4>5. ~((k + 1) + 1 <= n)
                BY <1>1, <3>3
            <4>6. QED
                BY <2>4, <3>1, <4>4, <4>5
        <3>4. QED
            BY <3>2, <3>3
    <2>8. \A k \in 0 .. N : Repeat(follow, <<q[1]>>)[k] \in G[k]
        <3>1. \A k \in Nat : k < N => \A y \in G[k] : follow[y] \in G[k + 1]
            BY <2>7
        <3>2. QED
            BY ONLY N \in Nat, <2>6, <3>1, WalkStays
    <2>9. n <= N
        BY <2>2 DEF Follows
    <2>10. G[N] = {q}
        <3>1. CASE N + 1 <= n
            BY <1>1, <2>9, <3>1
        <3>2. CASE ~(N + 1 <= n)
            BY <2>4, <3>2
        <3>3. QED
            BY <3>1, <3>2
    <2>11. QED
        BY <2>3, <2>8, <2>10
<1>4. QED
    BY <1>2, <1>3

LEMMA ChainIsWalk ==
    ASSUME NEW m \in Maps, NEW q, NEW n, Chain(m, q, n)
    PROVE  LeafChain(m) = q
<1>1. Follows(m, q, n)
    BY DEF Chain, Follows
<1>2. QED
    BY <1>1, FollowedIsWalk

\* The keys and the values of each of the leaves
LEMMA ChainKeysOn ==
    ASSUME IInv, NEW m \in Maps, NEW q, NEW n, Chain(m, q, n)
    PROVE  /\ n \in Nat
           /\ KeysOn(q) \in [1 .. n -> Seq(Keys)] /\ ValsOn(q) \in [1 .. n -> Seq(Values)]
           /\ \A i \in 1 .. n : /\ KeysOn(q)[i] = keys[q[i]] /\ ValsOn(q)[i] = vals[q[i]]
                                /\ Len(vals[q[i]]) = Len(keys[q[i]])
                                /\ q[i] \in Slots
<1>1. n \in Nat /\ q \in Seq(Slots) /\ Len(q) = n /\ DOMAIN q = 1 .. n
    <2>1. Cardinality(Slots) \in Nat
        BY SlotsAssumption, FS_CardinalityType
    <2>2. QED
        BY <2>1 DEF Chain
<1>2. /\ keys \in [Slots -> Seq(Keys)] /\ vals \in [Slots -> Seq(Values)]
    BY DEF IInv, TypeOK
<1>3. \A i \in 1 .. n : /\ q[i] \in Slots /\ level[q[i]] = 0
                        /\ Len(vals[q[i]]) = Len(keys[q[i]])
    <2>1. \A i \in 1 .. n : q[i] \in Slots /\ level[q[i]] = 0
        BY <1>1 DEF Chain
    <2>2. QED
        BY <2>1 DEF IInv, NodeShape
<1>4. /\ KeysOn(q) = [i \in 1 .. n |-> keys[q[i]]]
      /\ ValsOn(q) = [i \in 1 .. n |-> vals[q[i]]]
    BY <1>1 DEF KeysOn, ValsOn
<1>5. KeysOn(q) \in [1 .. n -> Seq(Keys)] /\ ValsOn(q) \in [1 .. n -> Seq(Values)]
    BY <1>2, <1>3, <1>4
<1>6. \A i \in 1 .. n : KeysOn(q)[i] = keys[q[i]] /\ ValsOn(q)[i] = vals[q[i]]
    BY <1>4
<1>7. QED
    BY <1>1, <1>3, <1>5, <1>6

\* The entries along them, by the leaf they are in
LEMMA ChainEntries ==
    ASSUME IInv, NEW m \in Maps, NEW q, NEW n, Chain(m, q, n), NEW o, Offsets(o, KeysOn(q), n)
    PROVE  /\ ChainKeys(m) \in Seq(Keys) /\ Len(ChainKeys(m)) = o[n + 1]
           /\ ChainVals(m) \in Seq(Values) /\ Len(ChainVals(m)) = o[n + 1]
           /\ \A i \in 1 .. n : \A j \in 1 .. Len(keys[q[i]]) :
                 /\ ChainKeys(m)[o[i] + j] = keys[q[i]][j]
                 /\ ChainVals(m)[o[i] + j] = vals[q[i]][j]
<1>1. /\ n \in Nat
      /\ KeysOn(q) \in [1 .. n -> Seq(Keys)] /\ ValsOn(q) \in [1 .. n -> Seq(Values)]
    BY ChainKeysOn
<1>3. \A i \in 1 .. n : Len(vals[q[i]]) = Len(keys[q[i]])
    BY ChainKeysOn
<1>4. PICK ks, vs : ks = KeysOn(q) /\ vs = ValsOn(q)
    OBVIOUS
<1>5. /\ ks \in Seq(Seq(Keys)) /\ Len(ks) = n
      /\ vs \in Seq(Seq(Values)) /\ Len(vs) = n
    BY <1>1, <1>4
<1>6. \A i \in 1 .. n : ks[i] = keys[q[i]] /\ vs[i] = vals[q[i]]
    BY <1>4, ChainKeysOn
<1>7. Offsets(o, ks, n) /\ Offsets(o, vs, n)
    BY <1>3, <1>4, <1>6 DEF Offsets
<1>8. ChainKeys(m) = FlattenSeq(ks) /\ ChainVals(m) = FlattenSeq(vs)
    <2>1. LeafChain(m) = q
        BY ChainIsWalk
    <2>2. QED
        BY <1>4, <2>1 DEF ChainKeys, ChainVals, KeysOn, ValsOn
<1>9. Joins(FlattenSeq(ks), Keys, ks, n, o)
    <2>1. n \in Nat /\ ks \in Seq(Seq(Keys)) /\ Len(ks) = n /\ Offsets(o, ks, n)
        BY <1>1, <1>5, <1>7
    <2>2. QED
        BY ONLY <2>1, JoinIs
<1>10. Joins(FlattenSeq(vs), Values, vs, n, o)
    <2>1. n \in Nat /\ vs \in Seq(Seq(Values)) /\ Len(vs) = n /\ Offsets(o, vs, n)
        BY <1>1, <1>5, <1>7
    <2>2. QED
        BY ONLY <2>1, JoinIs
<1>11. QED
    BY <1>3, <1>6, <1>8, <1>9, <1>10 DEF Joins

\* The last leaf of a map is the one that no key is above.
LEMMA LastLeafHigh ==
    ASSUME NEW owner, NEW lo, NEW hi, OrderState(owner, lo, hi), op = Idle,
           NEW m \in Maps, root[m] # NULL
    PROVE  /\ Held(owner, m, last_leaf(m)) /\ level[last_leaf(m)] = 0
           /\ hi[last_leaf(m)] = {}
<1>1. Local /\ Wiring(owner) /\ RootsOwned(owner)
    BY DEF OrderState
<1>2. /\ last_leaf(m) \in live /\ level[last_leaf(m)] = 0
      /\ owner[last_leaf(m)] = m
      /\ last_leaf(m) = root[m] \/ parent[last_leaf(m)] # NULL
    BY <1>1, LastLeafEnds
<1>3. live \subseteq Slots /\ RootsAgree
    BY <1>1 DEF Local, Wiring, Forest
<1>4. PICK h \in Nat : h = height[m]
    BY <1>1 DEF Local, DataTypes
<1>5. root[m] \in live /\ parent[root[m]] = NULL /\ level[root[m]] = h
    BY <1>3, <1>4 DEF RootsAgree
<1>6. PICK step : step = [s \in Slots |-> edges[s][Len(keys[s]) + 1]]
    OBVIOUS
<1>7. PICK G : G = [n \in Nat |-> {s \in live : level[s] = h - n /\ hi[s] = {}}]
    OBVIOUS
<1>i. op.pc # "overflow"
    BY DEF Idle
<1>8. root[m] \in G[0]
    <2>1. hi[root[m]] = {}
        BY <1>5, <1>i, CalmState
    <2>2. QED
        BY <1>5, <1>7, <2>1
<1>9. ASSUME NEW n \in Nat, n < h, NEW s \in G[n]
      PROVE  step[s] \in G[n + 1]
    <2>1. s \in live /\ s \in Slots /\ level[s] = h - n /\ level[s] # 0 /\ hi[s] = {}
        BY <1>3, <1>7, <1>9
    <2>2. PICK a \in Nat : /\ Len(keys[s]) = a
                           /\ Divided(a, keys[s], edges[s], lo[s], hi[s], lo, Far(hi))
        BY <2>1, NodeInOrder
    <2>3. PICK c : c = edges[s][a + 1]
        OBVIOUS
    <2>4. step[s] = c
        BY <1>6, <2>1, <2>2, <2>3
    <2>5. PICK i \in 1 .. a + 1 : i = a + 1
        OBVIOUS
    <2>6. c \in live /\ level[c] = level[s] - 1
        BY <1>1, <2>1, <2>2, <2>3, <2>5, StepDown
    <2>7. hi[c] = {}
        <3>1. Far(hi) = hi
            BY <1>i, CalmState
        <3>2. QED
            BY <2>1, <2>2, <2>3, <3>1 DEF Divided, Divides
    <2>8. level[c] = h - (n + 1)
        BY <2>1, <2>6
    <2>9. QED
        BY <1>7, <2>4, <2>6, <2>7, <2>8
<1>10. \A n \in 0 .. h : Repeat(step, root[m])[n] \in G[n]
    <2>1. \A n \in Nat : n < h => \A y \in G[n] : step[y] \in G[n + 1]
        BY <1>9
    <2>2. QED
        BY ONLY h \in Nat, <1>8, <2>1, WalkStays
<1>11. Repeat(step, root[m])[h] \in G[h]
    BY <1>10
<1>12. Repeat(step, root[m])[h] = last_leaf(m)
    BY <1>4, <1>6 DEF last_leaf, Descend
<1>13. QED
    BY <1>2, <1>3, <1>7, <1>11, <1>12 DEF Held

\* The nodes of a map are those of its tree.
LEMMA HeldInTree ==
    ASSUME NEW owner, NEW lo, NEW hi, OrderState(owner, lo, hi), op = Idle,
           NEW m \in Maps, root[m] # NULL, NEW s, Held(owner, m, s)
    PROVE  s \in TreeOf(m)
<1>1. Local /\ Wiring(owner) /\ RootsOwned(owner) /\ s \in live /\ owner[s] = m
    BY DEF OrderState, Held
<1>2. CASE parent[s] = NULL
    BY <1>1, <1>2, TreeData DEF Held
<1>3. CASE parent[s] # NULL
    <2>1. PICK a \in Maps : s \in TreeOf(a)
        BY <1>1, <1>3, ChildrenReached
    <2>2. root[a] # NULL
        BY <2>1 DEF TreeOf
    <2>3. owner[s] = a
        BY <1>1, <2>1, <2>2, TreeData
    <2>4. QED
        BY <1>1, <2>1, <2>3
<1>4. QED
    BY <1>2, <1>3

\* Between calls the leaves of every map are linked one after the other, the
\* last being the one that ends the descent along the last edges.
LEMMA ChainFound ==
    ASSUME IInv, Ordered, op = Idle, NEW m \in Maps
    PROVE  \E q, n : Chain(m, q, n) /\ (n # 0 => q[n] = last_leaf(m))
<1>1. CASE root[m] = NULL
    <2>1. PICK q, n : q = <<>> /\ n = 0
        OBVIOUS
    <2>2. n \in 0 .. Cardinality(Slots)
        <3>1. Cardinality(Slots) \in Nat
            BY SlotsAssumption, FS_CardinalityType
        <3>2. QED
            BY <2>1, <3>1
    <2>3. q \in Seq(Slots) /\ Len(q) = n /\ ~(\E i \in 1 .. n : TRUE)
        BY <2>1
    <2>4. Chain(m, q, n)
        BY <1>1, <2>1, <2>2, <2>3 DEF Chain
    <2>5. QED
        BY <2>1, <2>4
<1>2. CASE root[m] # NULL
    <2>1. PICK owner, lo, hi : OrderState(owner, lo, hi)
        BY OrderFound
    <2>2. PICK q : q = LeafChain(m)
        OBVIOUS
    <2>3. PICK n : Linked(owner, m, q, n) /\ next[q[n]] = NULL
        BY <1>2, <2>1, <2>2, ChainIs
    <2>4. /\ n \in Nat /\ n >= 1
          /\ q \in Seq(Slots) /\ Len(q) = n
          /\ q[1] = first_leaf(m)
          /\ \A i \in 1 .. n : Held(owner, m, q[i]) /\ level[q[i]] = 0
          /\ \A i \in 1 .. n : i < n => next[q[i]] = q[i + 1]
        BY <2>3, TreedIsHeld DEF Linked, Idle
    <2>5. n <= Cardinality(Slots) /\ Cardinality(Slots) \in Nat
        BY <1>2, <2>1, <2>3, LinkedOnce, SlotsAssumption, FS_CardinalityType
    <2>6. prev[q[1]] = NULL
        <3>1. lo[first_leaf(m)] = Keys
            BY <1>2, <2>1, FirstLeafLow
        <3>2. 1 \in 1 .. n
            BY <2>4
        <3>3. QED
            BY <2>1, <2>4, <3>1, <3>2, LeafFacts
    <2>7. ASSUME NEW i \in 1 .. n, i # 1
          PROVE  prev[q[i]] = q[i - 1]
        <3>1. PICK j \in 1 .. n : i = j + 1 /\ j < n /\ j = i - 1
            <4>1. i - 1 \in 1 .. n /\ i = (i - 1) + 1 /\ i - 1 < n
                BY <2>4, <2>7
            <4>2. QED
                BY <4>1
        <3>2. next[q[j]] = q[i] /\ Held(owner, m, q[j]) /\ level[q[j]] = 0
            BY <2>4, <3>1
        <3>3. q[i] \in Slots
            BY <2>4
        <3>4. next[q[j]] # NULL
            BY <3>2, <3>3, SlotsAssumption
        <3>5. prev[next[q[j]]] = q[j]
            BY <2>1, <3>2, <3>4, LeafFacts
        <3>6. QED
            BY <3>1, <3>2, <3>5
    <2>8. ASSUME NEW i \in 1 .. n
          PROVE  /\ q[i] \in TreeOf(m) /\ q[i] \in live /\ level[q[i]] = 0
                 /\ Len(keys[q[i]]) >= 1
        <3>1. Held(owner, m, q[i]) /\ level[q[i]] = 0
            BY <2>4
        <3>2. q[i] \in TreeOf(m)
            BY <1>2, <2>1, <3>1, HeldInTree
        <3>3. /\ q[i] \in live /\ owner[q[i]] = m /\ (q[i] = root[m] \/ parent[q[i]] # NULL)
            BY <3>1 DEF Held
        <3>4. Local /\ Wiring(owner) /\ RootsOwned(owner)
            BY <2>1 DEF OrderState
        <3>5. \E a \in Nat : a >= 1 /\ Len(keys[q[i]]) = a
            BY <1>2, <3>1, <3>3, <3>4, LeafData
        <3>6. QED
            BY <3>1, <3>2, <3>3, <3>5
    <2>9. ASSUME NEW i \in 1 .. n
          PROVE  /\ next[q[i]] = IF i = n THEN NULL ELSE q[i + 1]
                 /\ prev[q[i]] = IF i = 1 THEN NULL ELSE q[i - 1]
        <3>1. i # n => i < n
            BY <2>4
        <3>2. next[q[i]] = IF i = n THEN NULL ELSE q[i + 1]
            BY <2>3, <2>4, <3>1
        <3>3. QED
            BY <2>6, <2>7, <3>2
    <2>10. n \in 0 .. Cardinality(Slots) /\ n # 0
        BY <2>4, <2>5
    <2>11. Chain(m, q, n)
        BY <1>2, <2>4, <2>8, <2>9, <2>10 DEF Chain
    <2>12. q[n] = last_leaf(m)
        <3>1. PICK s : s = last_leaf(m)
            OBVIOUS
        <3>2. Held(owner, m, s) /\ level[s] = 0 /\ hi[s] = {}
            BY <1>2, <2>1, <3>1, LastLeafHigh
        <3>3. PICK x \in Keys : Spans(lo, hi, s, x)
            BY <2>1, <3>2, HeldHasRoom
        <3>4. op.pc # "overflow"
            BY DEF Idle
        <3>5. s = FindLeaf(m, x)
            BY <2>1, <3>2, <3>3, <3>4, LeafReached
        <3>6. PICK i \in 1 .. n : q[i] = FindLeaf(m, x)
            BY <1>2, <2>1, <2>3, LinkedCover
        <3>7. next[q[i]] = NULL
            BY <2>1, <3>2, <3>5, <3>6, LeafFacts
        <3>8. i = n
            <4>1. SUFFICES ASSUME i # n PROVE FALSE
                OBVIOUS
            <4>2. i < n /\ i + 1 \in 1 .. n
                BY <2>4, <4>1
            <4>3. q[i + 1] \in Slots /\ next[q[i]] = q[i + 1]
                BY <2>4, <4>2
            <4>4. QED
                BY <3>7, <4>3, SlotsAssumption
        <3>9. QED
            BY <3>1, <3>5, <3>6, <3>8
    <2>13. QED
        BY <2>11, <2>12
<1>3. QED
    BY <1>1, <1>2

\* `length` is the number of entries along them.
LEMMA ChainLength ==
    ASSUME IInv, Ordered, op = Idle, NEW m \in Maps, NEW q, NEW n, Chain(m, q, n),
           NEW o, Offsets(o, KeysOn(q), n)
    PROVE  length[m] = o[n + 1]
<1>1. Len(ChainKeys(m)) = o[n + 1]
    BY ChainEntries
<1>2. CASE root[m] # NULL
    <2>1. PICK owner, lo, hi : OrderState(owner, lo, hi)
        BY OrderFound
    <2>2. QED
        BY <1>1, <1>2, <2>1, LengthHolds
<1>3. CASE root[m] = NULL
    <2>1. length[m] = 0
        BY <1>3, ValidFromOrder DEF Validates
    <2>2. n = 0
        BY <1>3 DEF Chain
    <2>3. o[n + 1] = 0
        BY <2>2 DEF Offsets
    <2>4. QED
        BY <2>1, <2>3
<1>4. QED
    BY <1>2, <1>3

-----------------------------------------------------------------------------
(***************************************************************************)
(* What calls on the other maps leave of them.                             *)
(***************************************************************************)

\* Two walks from the same place that agree on the way
LEMMA SameWalk ==
    ASSUME NEW f, NEW g, NEW x, NEW h \in Nat,
           \A n \in Nat : n < h => g[Repeat(f, x)[n]] = f[Repeat(f, x)[n]]
    PROVE  Repeat(g, x)[h] = Repeat(f, x)[h]
<1>1. PICK D : D = Repeat(f, x)
    OBVIOUS
<1>2. PICK G : G = [n \in Nat |-> {D[n]}]
    OBVIOUS
<1>3. D[0] = x /\ \A n \in Nat : D[n + 1] = f[D[n]]
    BY <1>1, RepeatDef
<1>4. x \in G[0]
    BY <1>2, <1>3
<1>5. \A n \in Nat : n < h => \A y \in G[n] : g[y] \in G[n + 1]
    <2>1. ASSUME NEW n \in Nat, n < h, NEW y \in G[n]
          PROVE  g[y] \in G[n + 1]
        <3>1. y = D[n] /\ n + 1 \in Nat
            BY <1>2, <2>1
        <3>2. g[D[n]] = f[D[n]]
            BY <1>1, <2>1
        <3>3. QED
            BY <1>2, <1>3, <3>1, <3>2
    <2>2. QED
        BY <2>1
<1>6. \A n \in 0 .. h : Repeat(g, x)[n] \in G[n]
    BY ONLY h \in Nat, <1>4, <1>5, WalkStays
<1>7. QED
    BY <1>1, <1>2, <1>6

\* The trees of the maps are of allocated nodes.
LEMMA TreesAlive ==
    ASSUME IInv
    PROVE  \A m \in Maps : TreeOf(m) \subseteq live
<1>1. PICK owner : Wiring(owner) /\ OpOwned(owner) /\ RootsOwned(owner)
    BY InvToForest
<1>2. Local
    BY InvToForest
<1>3. \A m \in Maps : root[m] = NULL => TreeOf(m) = {}
    BY DEF TreeOf
<1>4. QED
    BY <1>1, <1>2, <1>3, TreeData

LEMMA TreesAlivePrime ==
    ASSUME IInv'
    PROVE  (\A m \in Maps : TreeOf(m) \subseteq live)'
BY TreesAlive, PTL

LEMMA FirstLeafStays ==
    ASSUME NEW owner, NEW lo, NEW hi, OrderState(owner, lo, hi),
           NEW a, LeavesOthers(owner, a), NEW m \in Maps, m # a, root[m] # NULL
    PROVE  first_leaf(m)' = first_leaf(m)
<1>1. Local /\ Wiring(owner) /\ RootsOwned(owner) /\ live \subseteq Slots
    BY DEF OrderState, Wiring, Forest
<1>2. root'[m] = root[m] /\ height'[m] = height[m]
    BY DEF LeavesOthers
<1>3. PICK h \in Nat : h = height[m]
    BY <1>1 DEF Local, DataTypes
<1>4. root[m] \in live /\ level[root[m]] = h /\ owner[root[m]] = m
    BY <1>1, <1>3 DEF Local, RootsAgree, RootsOwned
<1>5. PICK f, g : /\ f = [s \in Slots |-> edges[s][1]]
                  /\ g = [s \in Slots |-> edges'[s][1]]
    OBVIOUS
<1>6. PICK G : G = [n \in Nat |-> {s \in live : level[s] = h - n /\ owner[s] = m}]
    OBVIOUS
<1>7. root[m] \in G[0]
    BY <1>4, <1>6
<1>8. ASSUME NEW n \in Nat, n < h, NEW s \in G[n]
      PROVE  f[s] \in G[n + 1] /\ g[s] = f[s]
    <2>1. s \in live /\ s \in Slots /\ level[s] = h - n /\ level[s] # 0 /\ owner[s] = m
        BY <1>1, <1>6, <1>8
    <2>2. PICK b \in Nat : Len(keys[s]) = b
        BY <1>1, <2>1 DEF Local, DataTypes
    <2>3. 1 \in 1 .. b + 1
        OBVIOUS
    <2>4. edges[s][1] \in live /\ level[edges[s][1]] = level[s] - 1 /\ owner[edges[s][1]] = m
        BY <1>1, <2>1, <2>2, <2>3, StepDown
    <2>5. f[s] = edges[s][1] /\ level[f[s]] = h - (n + 1)
        BY <1>5, <2>1, <2>4
    <2>6. edges'[s] = edges[s]
        BY <2>1 DEF LeavesOthers, NodeAt
    <2>7. QED
        BY <1>5, <1>6, <2>1, <2>4, <2>5, <2>6
<1>9. \A n \in 0 .. h : Repeat(f, root[m])[n] \in G[n]
    <2>1. \A n \in Nat : n < h => \A y \in G[n] : f[y] \in G[n + 1]
        BY <1>8
    <2>2. QED
        BY ONLY h \in Nat, <1>7, <2>1, WalkStays
<1>10. ASSUME NEW n \in Nat, n < h
       PROVE  g[Repeat(f, root[m])[n]] = f[Repeat(f, root[m])[n]]
    <2>1. n \in 0 .. h
        BY <1>10
    <2>2. QED
        BY <1>8, <1>9, <1>10, <2>1
<1>11. Repeat(g, root[m])[h] = Repeat(f, root[m])[h]
    <2>1. h \in Nat /\ \A n \in Nat : n < h => g[Repeat(f, root[m])[n]] = f[Repeat(f, root[m])[n]]
        BY ONLY h \in Nat, <1>10
    <2>2. QED
        BY ONLY <2>1, SameWalk
<1>12. first_leaf(m) = Repeat(f, root[m])[h]
    BY ONLY <1>3, <1>5 DEF first_leaf, Descend
<1>13. first_leaf(m)' = Repeat(g, root'[m])[height'[m]]
    BY ONLY <1>5 DEF first_leaf, Descend
<1>14. QED
    BY ONLY <1>2, <1>3, <1>11, <1>12, <1>13

\* The leaves of another map, their links and their entries
LEMMA ChainStays ==
    ASSUME IInv', NEW owner, NEW lo, NEW hi, OrderState(owner, lo, hi),
           NEW a, LeavesOthers(owner, a), NEW m \in Maps, m # a,
           NEW q, NEW n, Chain(m, q, n)
    PROVE  /\ Chain(m, q, n)'
           /\ KeysOn(q)' = KeysOn(q) /\ ValsOn(q)' = ValsOn(q)
<1>1. TreeOf(m)' = TreeOf(m) /\ View(m)' = View(m)
    BY OthersViews
<1>2. Local /\ Wiring(owner) /\ RootsOwned(owner)
    BY DEF OrderState
<1>3. n \in Nat /\ q \in Seq(Slots) /\ Len(q) = n /\ DOMAIN q = 1 .. n
    <2>1. Cardinality(Slots) \in Nat
        BY SlotsAssumption, FS_CardinalityType
    <2>2. QED
        BY <2>1 DEF Chain
<1>4. root'[m] = root[m]
    BY DEF LeavesOthers
<1>5. n # 0 => q[1] = first_leaf(m)'
    BY FirstLeafStays DEF Chain
<1>6. ASSUME NEW i \in 1 .. n
      PROVE  /\ q[i] \in TreeOf(m)' /\ q[i] \in live'
             /\ level'[q[i]] = level[q[i]] /\ keys'[q[i]] = keys[q[i]]
             /\ vals'[q[i]] = vals[q[i]]
             /\ next'[q[i]] = next[q[i]] /\ prev'[q[i]] = prev[q[i]]
    <2>1. q[i] \in TreeOf(m) /\ q[i] \in live
        BY DEF Chain
    <2>2. q[i] \in live'
        BY <1>1, <2>1, TreesAlivePrime
    <2>3. root[m] # NULL
        BY <2>1 DEF TreeOf
    <2>4. owner[q[i]] = m
        BY <1>2, <2>1, <2>3, TreeData
    <2>5. NodeAt(q[i])' = NodeAt(q[i])
        BY <2>1, <2>4 DEF LeavesOthers
    <2>6. /\ level'[q[i]] = level[q[i]] /\ keys'[q[i]] = keys[q[i]]
          /\ vals'[q[i]] = vals[q[i]]
          /\ next'[q[i]] = next[q[i]] /\ prev'[q[i]] = prev[q[i]]
        BY <2>5 DEF NodeAt
    <2>7. QED
        BY <1>1, <2>1, <2>2, <2>6
<1>7. Chain(m, q, n)'
    BY <1>4, <1>5, <1>6 DEF Chain
<1>8. KeysOn(q)' = KeysOn(q) /\ ValsOn(q)' = ValsOn(q)
    BY <1>3, <1>6 DEF KeysOn, ValsOn
<1>9. QED
    BY <1>7, <1>8

LEMMA ChainsAreWalks ==
    \A m \in Maps : \A q, n : Chain(m, q, n) => LeafChain(m) = q
BY ChainIsWalk

LEMMA ChainsAreWalksPrime ==
    (\A m \in Maps : \A q, n : Chain(m, q, n) => LeafChain(m) = q)'
BY ChainsAreWalks, PTL

\* The keys along the same leaves
LEMMA SameKeys ==
    ASSUME NEW m \in Maps, NEW q, NEW n, Chain(m, q, n), Chain(m, q, n)',
           KeysOn(q)' = KeysOn(q)
    PROVE  ChainKeys(m)' = ChainKeys(m)
<1>1. LeafChain(m) = q /\ LeafChain(m)' = q
    BY ChainIsWalk, ChainsAreWalksPrime
<1>2. ChainKeys(m) = FlattenSeq(KeysOn(q))
    BY <1>1 DEF ChainKeys, KeysOn
<1>3. ChainKeys(m)' = FlattenSeq(KeysOn(q)')
    BY <1>1 DEF ChainKeys, KeysOn
<1>4. QED
    BY <1>2, <1>3

LEMMA SameVals ==
    ASSUME NEW m \in Maps, NEW q, NEW n, Chain(m, q, n), Chain(m, q, n)',
           ValsOn(q)' = ValsOn(q)
    PROVE  ChainVals(m)' = ChainVals(m)
<1>1. LeafChain(m) = q /\ LeafChain(m)' = q
    BY ChainIsWalk, ChainsAreWalksPrime
<1>2. ChainVals(m) = FlattenSeq(ValsOn(q))
    BY <1>1 DEF ChainVals, ValsOn
<1>3. ChainVals(m)' = FlattenSeq(ValsOn(q)')
    BY <1>1 DEF ChainVals, ValsOn
<1>4. QED
    BY <1>2, <1>3

\* Each leaf is met once.
LEMMA ChainOnce ==
    ASSUME NEW m \in Maps, NEW q, NEW n, Chain(m, q, n)
    PROVE  \A i, j \in 1 .. n : q[i] = q[j] => i = j
<1>1. n \in Nat /\ q \in Seq(Slots) /\ Len(q) = n
    <2>1. Cardinality(Slots) \in Nat
        BY SlotsAssumption, FS_CardinalityType
    <2>2. QED
        BY <2>1 DEF Chain
<1>2. \A i \in 1 .. n : prev[q[i]] = IF i = 1 THEN NULL ELSE q[i - 1]
    BY DEF Chain
<1>3. \A i \in 1 .. n : q[i] # NULL
    BY <1>1, SlotsAssumption
<1>4. PICK Bad : Bad = {i \in 1 .. n : \E j \in 1 .. n : i < j /\ q[i] = q[j]}
    OBVIOUS
<1>5. Bad = {}
    <2>1. SUFFICES ASSUME Bad # {} PROVE FALSE
        OBVIOUS
    <2>2. PICK i \in Bad : \A b \in Bad : i <= b
        <3>1. Bad \in SUBSET Nat
            BY <1>4
        <3>2. QED
            BY <2>1, <3>1, LeastNat
    <2>3. PICK j \in 1 .. n : i \in 1 .. n /\ i < j /\ q[i] = q[j]
        BY <1>4, <2>2
    <2>4. j # 1 /\ j - 1 \in 1 .. n /\ prev[q[j]] = q[j - 1] /\ q[j - 1] # NULL
        <3>1. j # 1 /\ j - 1 \in 1 .. n
            BY <1>1, <2>3
        <3>2. QED
            BY <1>2, <1>3, <3>1
    <2>5. i # 1
        BY <1>2, <2>3, <2>4
    <2>6. i - 1 \in 1 .. n
        BY <1>1, <2>3, <2>5
    <2>7. prev[q[i]] = q[i - 1] /\ i - 1 < j - 1
        BY <1>2, <2>3, <2>5
    <2>8. i - 1 \in Bad
        BY <1>4, <2>3, <2>4, <2>6, <2>7
    <2>9. i <= i - 1
        BY <2>2, <2>8
    <2>10. QED
        BY <2>3, <2>9
<1>6. ASSUME NEW i \in 1 .. n, NEW j \in 1 .. n, q[i] = q[j]
      PROVE  i = j
    <2>1. ~(i < j) /\ ~(j < i)
        BY <1>4, <1>5, <1>6
    <2>2. QED
        BY <2>1
<1>7. QED
    BY <1>6

\* A loop under way is one of the map it was called on, to its end.
LEMMA CallOp ==
    ASSUME NEW a \in Maps, CallOn(a)
    PROVE  op' = Idle \/ op'.map = a
<1>1. op = Idle
    BY CallWaits
<1>2. ASSUME NEW leaf, NEW i, RemoveVal(a, leaf, i)
      PROVE  op' = Idle \/ op'.map = a
    BY <1>2 DEF RemoveVal, Rebalance
<1>3. ASSUME NEW leaf, NEW k, NEW v, insert_before(a, leaf, k, v)
      PROVE  op' = Idle \/ op'.map = a
    <2>1. CASE InsertIntoLeaf(a, leaf, k, v)
        BY <1>1, <2>1 DEF InsertIntoLeaf
    <2>2. CASE SplitLeaf(a, leaf, k, v)
        BY <2>2 DEF SplitLeaf
    <2>3. QED
        BY <1>3, <2>1, <2>2 DEF insert_before
<1>4. ASSUME NEW k, NEW v, insert(a, k, v)
      PROVE  op' = Idle \/ op'.map = a
    BY <1>1, <1>3, <1>4 DEF insert, insert_root, WriteVal
<1>5. ASSUME NEW k, NEW v, get_or_insert(a, k, v)
      PROVE  op' = Idle \/ op'.map = a
    BY <1>1, <1>3, <1>5 DEF get_or_insert, insert_root
<1>6. ASSUME NEW k, remove_key_value(a, k)
      PROVE  op' = Idle \/ op'.map = a
    BY <1>2, <1>6 DEF remove_key_value
<1>7. CASE pop_first(a) \/ pop_last(a)
    BY <1>2, <1>7 DEF pop_first, pop_last
<1>8. CASE clear(a) \/ drop_and_new_in(a)
    BY <1>1, <1>8 DEF clear, drop_and_new_in
<1>9. QED
    BY <1>4, <1>5, <1>6, <1>7, <1>8 DEF CallOn, update_and_return

LEMMA LoopOp ==
    ASSUME NEW owner, NEW lo, NEW hi, OrderState(owner, lo, hi), OverflowStep \/ UnderflowStep
    PROVE  op' = Idle \/ op'.map = op.map
<1>1. CASE OverflowStep
    <2>1. CASE GrowRoot \/ AbsorbIntoParent
        BY <2>1 DEF GrowRoot, AbsorbIntoParent
    <2>2. CASE SplitParent
        <3>1. op.pc = "overflow"
            BY <2>2 DEF SplitParent
        <3>2. op \in OverflowOps
            BY <3>1, OverflowData DEF OrderState
        <3>3. \E p, r, k : op' = [op EXCEPT !.node = p, !.right = r, !.key = k]
            BY <2>2 DEF SplitParent
        <3>4. QED
            BY <3>2, <3>3 DEF OverflowOps
    <2>3. QED
        BY <1>1, <2>1, <2>2 DEF OverflowStep
<1>2. CASE UnderflowStep
    <2>1. CASE RootLeafUnderflow \/ RootInternalStays \/ ShrinkRoot
        BY <2>1 DEF RootLeafUnderflow, RootInternalStays, ShrinkRoot
    <2>2. CASE BorrowPrevLeaf \/ BorrowPrevInternal \/ BorrowNextLeaf \/ BorrowNextInternal
        BY <2>2 DEF BorrowPrevLeaf, BorrowPrevInternal, BorrowNextLeaf, BorrowNextInternal
    <2>3. ASSUME NEW p, MergedIntoParent(p)
          PROVE  op' = Idle \/ op'.map = op.map
        BY <2>3 DEF MergedIntoParent, Rebalance
    <2>4. CASE MergePrevLeaf \/ MergeNextLeaf \/ MergePrevInternal \/ MergeNextInternal
        <3>1. \E p : MergedIntoParent(p)
            BY <2>4, Zenon DEF MergePrevLeaf, MergeNextLeaf, MergePrevInternal, MergeNextInternal
        <3>2. QED
            BY <2>3, <3>1
    <2>5. QED
        BY <1>2, <2>1, <2>2, <2>3, <2>4 DEF UnderflowStep
<1>3. QED
    BY <1>1, <1>2
=============================================================================
