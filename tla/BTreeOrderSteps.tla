---------------------------- MODULE BTreeOrderSteps ----------------------------
(***************************************************************************)
(* Every step of the maps of BTreeMap keeps Ordered of BTreeOrderInv: the  *)
(* keys stay where find() looks for them, and the leaves' links run from   *)
(* one interval of keys to the next.                                       *)
(***************************************************************************)
EXTENDS BTreeMapSteps, BTreeOrderFacts

-----------------------------------------------------------------------------
(***************************************************************************)
(* The invariant with its witnesses at hand.                               *)
(***************************************************************************)
OrderState(owner, lo, hi) ==
    /\ Local /\ Wiring(owner) /\ OpOwned(owner) /\ RootsOwned(owner)
    /\ lo \in [Slots -> Cuts] /\ hi \in [Slots -> Cuts]
    /\ NodesOrdered(lo, hi)
    /\ HalvesOrdered(lo, hi)
    /\ LinksOrdered(owner, lo, hi)
    /\ EntriesCounted(owner)
    /\ NoStrayLinks

LEMMA OrderFound ==
    ASSUME IInv, Ordered
    PROVE  \E owner, lo, hi : OrderState(owner, lo, hi)
<1>1. PICK owner \in [Slots -> Maps], lo \in [Slots -> Cuts], hi \in [Slots -> Cuts] :
        OrderedBy(owner, lo, hi)
    BY DEF Ordered
<1>2. Local
    BY InvToForest
<1>3. PICK ow : Wiring(ow)
    BY InvToForest
<1>4. OwnedBy(owner)
    BY <1>1 DEF OrderedBy
<1>5. Wiring(owner)
    BY <1>3, <1>4 DEF Wiring, Forest, OwnedBy
<1>6. OpOwned(owner) /\ RootsOwned(owner)
    BY <1>4 DEF OwnedBy, OpOwned, RootsOwned
<1>7. QED
    BY <1>1, <1>2, <1>5, <1>6 DEF OrderedBy, Ordered, OrderState

\* What a step has to show
LEMMA OrderGiven ==
    ASSUME NEW owner \in [Slots -> Maps], NEW lo \in [Slots -> Cuts], NEW hi \in [Slots -> Cuts],
           OwnedBy(owner)', NodesOrdered(lo, hi)', HalvesOrdered(lo, hi)',
           LinksOrdered(owner, lo, hi)', EntriesCounted(owner)', NoStrayLinks'
    PROVE  Ordered'
<1>1. OrderedBy(owner, lo, hi)'
    BY DEF OrderedBy
<1>2. QED
    BY <1>1 DEF Ordered

\* The arrays of one node, in order
LEMMA NodeInOrder ==
    ASSUME NEW owner, NEW lo, NEW hi, OrderState(owner, lo, hi), NEW s \in live
    PROVE  \E n \in Nat :
              /\ s \in Slots
              /\ n <= M
              /\ Len(keys[s]) = n /\ keys[s] \in Seq(Keys) /\ DOMAIN keys[s] = 1 .. n
              /\ edges[s] \in Seq(Slots)
              /\ lo[s] \in Cuts /\ hi[s] \in Cuts
              /\ lo \in [Slots -> Cuts] /\ Far(hi) \in [Slots -> Cuts]
              /\ level[s] = 0 => LeafOrdered(keys[s], lo[s], hi[s]) /\ edges[s] = <<>>
              /\ level[s] # 0 => /\ Len(edges[s]) = n + 1
                                 /\ Divided(n, keys[s], edges[s], lo[s], hi[s], lo, Far(hi))
<1>1. /\ Local /\ Wiring(owner) /\ NodesOrdered(lo, hi)
      /\ lo \in [Slots -> Cuts] /\ hi \in [Slots -> Cuts] /\ OpOwned(owner)
    BY DEF OrderState
<1>2. s \in Slots
    BY <1>1 DEF Wiring, Forest
<1>3. NodeOrdered(level[s], keys[s], edges[s], lo[s], hi[s], lo, Far(hi))
    BY <1>1 DEF NodesOrdered
<1>4. Far(hi) \in [Slots -> Cuts]
    <2>1. CASE op.pc = "overflow"
        <3>1. op.right \in Slots
            BY <1>1, <2>1, OverflowData
        <3>2. hi[op.right] \in Cuts
            BY <1>1, <3>1
        <3>3. QED
            BY <1>1, <2>1, <3>2 DEF Far
    <2>2. CASE op.pc # "overflow"
        BY <1>1, <2>2 DEF Far
    <2>3. QED
        BY <2>1, <2>2
<1>5. PICK n \in Nat :
         /\ n <= M
         /\ Len(keys[s]) = n /\ keys[s] \in Seq(Keys) /\ edges[s] \in Seq(Slots)
         /\ level[s] = 0 => edges[s] = <<>>
         /\ level[s] # 0 => Len(edges[s]) = n + 1
    BY <1>1, <1>2, NodeData
<1>6. DOMAIN keys[s] = 1 .. n
    BY <1>5
<1>7. QED
    BY <1>1, <1>2, <1>3, <1>4, <1>5, <1>6 DEF NodeOrdered, Divided

\* A node stays in order when the intervals of its children stay.
LEMMA NodeKept ==
    ASSUME Local, NEW owner, Wiring(owner), NEW s \in live,
           NEW L, NEW H, NEW lo, NEW hi,
           NodeOrdered(level[s], keys[s], edges[s], L, H, lo, hi), NEW lo2, NEW hi2,
           \A c \in Slots : parent[c] = s => lo2[c] = lo[c] /\ hi2[c] = hi[c]
    PROVE  NodeOrdered(level[s], keys[s], edges[s], L, H, lo2, hi2)
<1>1. s \in Slots
    BY DEF Wiring, Forest
<1>2. PICK n \in Nat :
         /\ Len(keys[s]) = n /\ keys[s] \in Seq(Keys) /\ edges[s] \in Seq(Slots)
         /\ level[s] # 0 => Len(edges[s]) = n + 1 /\ DOMAIN edges[s] = 1 .. n + 1
    BY <1>1, NodeData
<1>3. CASE level[s] = 0
    BY <1>3 DEF NodeOrdered
<1>4. CASE level[s] # 0
    <2>1. Divides(keys[s], edges[s], L, H, lo, hi)
        BY <1>4 DEF NodeOrdered
    <2>2. \A i \in 1 .. n + 1 : edges[s][i] \in Slots /\ parent[edges[s][i]] = s
        BY <1>1, <1>2, <1>4, ForestChild DEF Wiring
    <2>3. \A i \in 1 .. n + 1 : lo2[edges[s][i]] = lo[edges[s][i]] /\ hi2[edges[s][i]] = hi[edges[s][i]]
        BY <2>2
    <2>4. Divides(keys[s], edges[s], L, H, lo2, hi2)
        BY <1>2, <1>4, <2>1, <2>3, DividesFrame
    <2>5. QED
        BY <1>4, <2>4 DEF NodeOrdered
<1>5. QED
    BY <1>3, <1>4

-----------------------------------------------------------------------------
(***************************************************************************)
(* find() reaches every node of the tree in whose interval the key is.     *)
(***************************************************************************)

\* The parent of a node
LEMMA ParentOf ==
    ASSUME NEW owner, Wiring(owner), NEW c \in Slots, parent[c] # NULL
    PROVE  /\ c \in live /\ parent[c] \in live /\ parent[c] \in Slots /\ parent[c] # c
           /\ level[c] = level[parent[c]] - 1 /\ owner[c] = owner[parent[c]]
           /\ level[c] \in Nat /\ level[parent[c]] \in Nat /\ level[parent[c]] # 0
<1>1. Forest(live, level, parent, parent_idx, edges, owner)
    BY DEF Wiring
<1>2. c \in live /\ live \subseteq Slots /\ level \in [Slots -> Nat]
    BY <1>1 DEF Forest
<1>3. PICK p \in live : p = parent[c] /\ owner[c] = owner[p]
    BY <1>1, <1>2 DEF Forest
<1>4. PICK i \in DOMAIN edges[p] : edges[p][i] = c
    BY <1>1, <1>2, <1>3 DEF Forest
<1>5. /\ level[c] = level[p] - 1 /\ level[c] \in Nat /\ level[p] \in Nat /\ p # c
    BY <1>1, <1>2, <1>3, <1>4, ForestChild
<1>6. level[p] # 0
    BY <1>5
<1>7. QED
    BY <1>2, <1>3, <1>5, <1>6

\* No set of nodes contains the parents of all its nodes: the levels rise on
\* the way up, and the slots are finite.
LEMMA ClimbsEnd ==
    ASSUME NEW owner, Wiring(owner), NEW G \in SUBSET live,
           \A c \in G : parent[c] # NULL /\ parent[c] \in G
    PROVE  G = {}
<1>1. SUFFICES ASSUME NEW s \in G PROVE FALSE
    OBVIOUS
<1>2. Forest(live, level, parent, parent_idx, edges, owner)
    BY DEF Wiring
<1>3. live \subseteq Slots /\ level \in [Slots -> Nat]
    BY <1>2 DEF Forest
<1>4. PICK N \in Nat, l \in Nat : N = Cardinality(Slots) /\ l = level[s]
    BY <1>3, FS_CardinalityType, SlotsAssumption
<1>5. PICK up : up = [c \in Slots |-> parent[c]]
    OBVIOUS
<1>6. PICK A : A = [n \in Nat |-> {c \in G : level[c] = l + n}]
    OBVIOUS
<1>7. s \in A[0]
    BY <1>1, <1>4, <1>6
<1>8. ASSUME NEW n \in Nat, NEW c \in A[n]
      PROVE  up[c] \in A[n + 1]
    <2>1. c \in G /\ c \in live /\ parent[c] # NULL /\ level[c] = l + n
        BY <1>6
    <2>2. PICK p \in live : p = parent[c] /\ up[c] = p /\ level[p] \in Nat
        BY <1>2, <1>3, <1>5, <2>1, ForestParent
    <2>3. level[c] = level[p] - 1
        BY <1>2, <1>3, <2>1, <2>2, ForestParent
    <2>4. level[p] = l + (n + 1) /\ p \in G
        BY <2>1, <2>2, <2>3
    <2>5. QED
        BY <1>6, <2>2, <2>4
<1>9. \A n \in 0 .. N : Repeat(up, s)[n] \in A[n]
    <2>1. \A n \in Nat : n < N => \A c \in A[n] : up[c] \in A[n + 1]
        BY <1>8
    <2>2. QED
        BY ONLY N \in Nat, <1>7, <2>1, WalkStays
<1>10. \A n \in 0 .. N : Repeat(up, s)[n] \in Slots /\ level[Repeat(up, s)[n]] = l + n
    BY <1>3, <1>6, <1>9
<1>11. PICK f \in [0 .. N -> Slots] : \A n \in 0 .. N : level[f[n]] = l + n
    <2>1. [n \in 0 .. N |-> Repeat(up, s)[n]] \in [0 .. N -> Slots]
        BY <1>10
    <2>2. QED
        BY <1>10, <2>1
<1>12. IsFiniteSet(0 .. N) /\ Cardinality(0 .. N) = N + 1
    BY FS_Interval
<1>13. PICK x, y \in 0 .. N : x # y /\ f[x] = f[y]
    <2>1. Cardinality(Slots) < Cardinality(0 .. N)
        BY <1>4, <1>12
    <2>2. QED
        BY ONLY <1>12, <2>1, SlotsAssumption, f \in [0 .. N -> Slots], FS_PigeonHole
<1>14. QED
    BY <1>11, <1>13

\* The node s is in the tree of the map m.
Held(owner, m, s) == s \in live /\ owner[s] = m /\ (parent[s] # NULL \/ root[m] = s)

\* The key x is in the interval of the node s.
Spans(lo, hi, s, x) == x \in lo[s] /\ x \notin hi[s]

\* One step of find(), and where it is at level l
FindStep(x) == [s \in Slots |-> edges[s][EdgeIndex(keys[s], x) + 1]]
FindAt(m, x, l) == Repeat(FindStep(x), root[m])[height[m] - l]

\* The child that find() goes to is the one in whose interval the key is.
LEMMA StepFinds ==
    ASSUME NEW owner, NEW lo, NEW hi, OrderState(owner, lo, hi), op.pc # "overflow",
           NEW x \in Keys, NEW c \in Slots, parent[c] # NULL
    PROVE  Spans(lo, hi, c, x) <=> Spans(lo, hi, parent[c], x) /\ FindStep(x)[parent[c]] = c
<1>1. Local /\ Wiring(owner) /\ lo \in [Slots -> Cuts] /\ hi \in [Slots -> Cuts]
    BY DEF OrderState
<1>2. PICK n \in Nat, i \in Nat :
        /\ parent[c] \in live /\ parent[c] \in Slots
        /\ level[parent[c]] # 0
        /\ Len(keys[parent[c]]) = n
        /\ Len(edges[parent[c]]) = n + 1
        /\ i <= n
        /\ edges[parent[c]][i + 1] = c
    <2>1. \E n \in Nat, i \in Nat :
              /\ c \in live /\ parent[c] \in live /\ parent[c] \in Slots
              /\ parent[c] # c
              /\ level[c] \in Nat /\ level[parent[c]] \in Nat /\ level[parent[c]] # 0
              /\ level[c] = level[parent[c]] - 1
              /\ owner[c] = owner[parent[c]]
              /\ n <= M
              /\ Len(keys[parent[c]]) = n
              /\ keys[parent[c]] \in Seq(Keys)
              /\ vals[parent[c]] = <<>>
              /\ edges[parent[c]] \in Seq(Slots)
              /\ Len(edges[parent[c]]) = n + 1
              /\ DOMAIN edges[parent[c]] = 1 .. n + 1
              /\ parent_idx[c] = i
              /\ i <= n
              /\ edges[parent[c]][i + 1] = c
        BY <1>1, ParentData
    <2>2. QED
        BY ONLY <2>1
<1>3. PICK p, ks, es : p \in live /\ p = parent[c] /\ ks = keys[p] /\ es = edges[p]
    BY <1>2
<1>4. p \in Slots /\ es[i + 1] = c
    BY <1>2, <1>3
<1>5. Far(hi) = hi
    BY DEF Far
<1>6. Divided(n, ks, es, lo[p], hi[p], lo, hi)
    BY <1>2, <1>3, <1>5, NodeInOrder
<1>7. x \in lo[es[i + 1]] /\ x \notin hi[es[i + 1]] <=> /\ x \in lo[p] /\ x \notin hi[p]
                                                       /\ EdgeIndex(ks, x) = (i + 1) - 1
    <2>1. PICK j \in 1 .. n + 1 : j = i + 1
        BY <1>2
    <2>2. x \in lo[es[j]] /\ x \notin hi[es[j]] <=> /\ x \in lo[p] /\ x \notin hi[p]
                                                   /\ EdgeIndex(ks, x) = j - 1
        BY <1>6, ChildOf
    <2>3. QED
        BY <2>1, <2>2
<1>8. EdgeIndex(ks, x) = (i + 1) - 1 <=> FindStep(x)[p] = c
    <2>a. ks \in Seq(Keys) /\ Len(ks) = n /\ es \in Seq(Slots) /\ Len(es) = n + 1
        BY <1>6 DEF Divided
    <2>1. EdgeIndex(ks, x) \in 0 .. n
        BY <2>a, IndexBounds
    <2>2. PICK e \in Nat : e = EdgeIndex(ks, x) /\ e <= n
        BY <2>1
    <2>3. FindStep(x)[p] = es[e + 1]
        BY <1>3, <1>4, <2>2 DEF FindStep
    <2>4. \A j \in 1 .. n + 1 : parent_idx[es[j]] = j - 1
        <3>1. DOMAIN es = 1 .. n + 1
            BY <2>a
        <3>2. QED
            BY <1>1, <1>3, <1>4, <3>1, ForestChild DEF Wiring
    <2>5. es[e + 1] = es[i + 1] => e = i
        <3>1. e + 1 \in 1 .. n + 1 /\ i + 1 \in 1 .. n + 1
            BY <1>2, <2>2
        <3>2. QED
            BY <2>4, <3>1
    <2>6. QED
        BY <1>4, <2>2, <2>3, <2>5
<1>9. QED
    BY <1>3, <1>4, <1>7, <1>8 DEF Spans

\* A node in whose interval a key is, is on the way of find().  Were it not,
\* neither would be its parent; but the way up ends at the root.
LEMMA FindReaches ==
    ASSUME NEW owner, NEW lo, NEW hi, OrderState(owner, lo, hi), op.pc # "overflow",
           NEW m \in Maps, NEW x \in Keys, NEW s, Held(owner, m, s), Spans(lo, hi, s, x)
    PROVE  /\ root[m] # NULL
           /\ level[s] \in Nat /\ height[m] \in Nat /\ level[s] <= height[m]
           /\ s = FindAt(m, x, level[s])
<1>1. Local /\ Wiring(owner) /\ RootsOwned(owner)
    BY DEF OrderState
<1>2. /\ live \subseteq Slots /\ level \in [Slots -> Nat]
      /\ height[m] \in Nat /\ RootsAgree
    BY <1>1 DEF Local, DataTypes, Wiring, Forest
<1>3. PICK step : step = FindStep(x)
    OBVIOUS
<1>h. PICK h \in Nat : h = height[m]
    BY <1>2
<1>4. PICK w : w = Repeat(step, root[m])
    OBVIOUS
<1>5. w[0] = root[m] /\ \A n \in Nat : w[n + 1] = step[w[n]]
    BY <1>4, RepeatDef
<1>6. PICK onWay : onWay = {c \in Slots : root[m] # NULL /\ level[c] <= h /\ c = w[h - level[c]]}
    OBVIOUS
<1>7. PICK G : G = {c \in live : Held(owner, m, c) /\ Spans(lo, hi, c, x) /\ c \notin onWay}
    OBVIOUS
<1>8. ASSUME NEW c \in G
      PROVE  parent[c] # NULL /\ parent[c] \in G
    <2>1. c \in live /\ c \in Slots /\ owner[c] = m /\ Spans(lo, hi, c, x) /\ c \notin onWay
        BY <1>2, <1>7 DEF Held
    <2>2. parent[c] # NULL
        <3>1. SUFFICES ASSUME parent[c] = NULL PROVE FALSE
            OBVIOUS
        <3>2. root[m] = c /\ root[m] # NULL
            BY <1>2, <1>7, <2>1, <3>1, SlotsAssumption DEF Held
        <3>3. level[c] = h
            BY <1>2, <1>h, <3>2 DEF RootsAgree
        <3>4. h - h = 0 /\ h <= h
            OBVIOUS
        <3>5. QED
            BY <1>5, <1>6, <2>1, <3>2, <3>3, <3>4
    <2>3. PICK p \in live : /\ p = parent[c] /\ p \in Slots
                            /\ level[c] = level[p] - 1 /\ owner[c] = owner[p]
                            /\ level[p] \in Nat /\ level[p] # 0
        BY <1>1, <2>1, <2>2, ParentOf
    <2>4. Spans(lo, hi, p, x) /\ step[p] = c
        BY <1>3, <2>1, <2>2, <2>3, StepFinds
    <2>5. Held(owner, m, p)
        <3>1. CASE parent[p] = NULL
            <4>1. root[owner[p]] = p
                BY <1>1, <2>3, <3>1, Climb
            <4>2. QED
                BY <2>1, <2>3, <4>1 DEF Held
        <3>2. CASE parent[p] # NULL
            BY <2>1, <2>3, <3>2 DEF Held
        <3>3. QED
            BY <3>1, <3>2
    <2>6. p \notin onWay
        <3>1. SUFFICES ASSUME p \in onWay PROVE FALSE
            OBVIOUS
        <3>2. root[m] # NULL /\ level[p] <= h /\ p = w[h - level[p]]
            BY <1>6, <3>1
        <3>3. PICK d \in Nat : d = h - level[p] /\ h - level[c] = d + 1 /\ level[c] <= h
            BY <2>3, <3>2
        <3>4. w[h - level[c]] = c
            BY <1>5, <2>4, <3>2, <3>3
        <3>5. QED
            BY <1>6, <2>1, <3>2, <3>3, <3>4
    <2>7. QED
        BY <1>7, <2>2, <2>3, <2>4, <2>5, <2>6
<1>9. G = {}
    <2>1. G \subseteq live
        BY <1>7
    <2>2. QED
        BY <1>1, <1>8, <2>1, ClimbsEnd
<1>10. s \in live /\ s \in Slots
    BY <1>2 DEF Held
<1>11. s \in onWay
    BY <1>7, <1>9, <1>10
<1>12. QED
    BY <1>2, <1>3, <1>h, <1>4, <1>6, <1>10, <1>11 DEF FindAt

\* Two nodes of a tree at one level with a key in common are the same.
LEMMA SpanApart ==
    ASSUME NEW owner, NEW lo, NEW hi, OrderState(owner, lo, hi), op.pc # "overflow",
           NEW m \in Maps, NEW x \in Keys,
           NEW s, Held(owner, m, s), Spans(lo, hi, s, x),
           NEW t, Held(owner, m, t), Spans(lo, hi, t, x), level[s] = level[t]
    PROVE  s = t
<1>1. s = FindAt(m, x, level[s])
    BY FindReaches
<1>2. t = FindAt(m, x, level[t])
    BY FindReaches
<1>3. QED
    BY <1>1, <1>2

\* The leaf that find() ends at
LEMMA LeafReached ==
    ASSUME NEW owner, NEW lo, NEW hi, OrderState(owner, lo, hi), op.pc # "overflow",
           NEW m \in Maps, NEW x \in Keys, NEW s, Held(owner, m, s), level[s] = 0,
           Spans(lo, hi, s, x)
    PROVE  root[m] # NULL /\ s = FindLeaf(m, x)
<1>1. root[m] # NULL /\ height[m] \in Nat /\ s = FindAt(m, x, 0)
    BY FindReaches
<1>2. height[m] - 0 = height[m]
    BY <1>1
<1>3. s = Repeat(FindStep(x), root[m])[height[m]]
    BY <1>1, <1>2 DEF FindAt
<1>4. QED
    BY <1>1, <1>3 DEF FindLeaf, Descend, FindStep

\* The leaf that find() ends at has the key in its interval.
LEMMA FindLeafSpans ==
    ASSUME NEW owner, NEW lo, NEW hi, OrderState(owner, lo, hi), op.pc # "overflow",
           NEW m \in Maps, root[m] # NULL, NEW x \in Keys
    PROVE  /\ Held(owner, m, FindLeaf(m, x)) /\ level[FindLeaf(m, x)] = 0
           /\ FindLeaf(m, x) \in Slots
           /\ Spans(lo, hi, FindLeaf(m, x), x)
<1>1. Local /\ Wiring(owner) /\ RootsOwned(owner) /\ NodesOrdered(lo, hi)
    BY DEF OrderState
<1>2. /\ FindLeaf(m, x) \in live /\ level[FindLeaf(m, x)] = 0
      /\ owner[FindLeaf(m, x)] = m
      /\ FindLeaf(m, x) = root[m] \/ parent[FindLeaf(m, x)] # NULL
    BY <1>1, FindLeafEnds
<1>3. live \subseteq Slots /\ RootsAgree
    BY <1>1 DEF Local, Wiring, Forest
<1>4. PICK h \in Nat : h = height[m]
    BY <1>1 DEF Local, DataTypes
<1>5. root[m] \in live /\ parent[root[m]] = NULL /\ level[root[m]] = h
    BY <1>3, <1>4 DEF RootsAgree
<1>6. PICK step : step = FindStep(x)
    OBVIOUS
<1>7. PICK G : G = [n \in Nat |-> {s \in live : level[s] = h - n /\ Spans(lo, hi, s, x)}]
    OBVIOUS
<1>8. root[m] \in G[0]
    <2>1. InPlace(root[m]) /\ Far(hi) = hi
        BY DEF InPlace, Far
    <2>2. lo[root[m]] = Keys /\ hi[root[m]] = {}
        BY <1>1, <1>5, <2>1 DEF NodesOrdered
    <2>3. QED
        BY <1>5, <1>7, <2>2 DEF Spans
<1>9. ASSUME NEW n \in Nat, n < h, NEW s \in G[n]
      PROVE  step[s] \in G[n + 1]
    <2>1. s \in live /\ s \in Slots /\ level[s] = h - n /\ level[s] # 0 /\ Spans(lo, hi, s, x)
        BY <1>3, <1>7, <1>9
    <2>2. PICK a \in Nat : Len(keys[s]) = a /\ keys[s] \in Seq(Keys)
        BY <1>1, <2>1, NodeData
    <2>3. EdgeIndex(keys[s], x) \in 0 .. a
        BY <2>2, IndexBounds
    <2>4. PICK i \in 1 .. a + 1 : i = EdgeIndex(keys[s], x) + 1
        BY <2>3
    <2>5. PICK c : c = edges[s][i]
        OBVIOUS
    <2>6. step[s] = c
        BY <1>6, <2>1, <2>4, <2>5 DEF FindStep
    <2>7. c \in live /\ parent[c] # NULL /\ level[c] = level[s] - 1
        BY <1>1, <2>1, <2>2, <2>5, StepDown
    <2>8. parent[c] = s
        <3>1. edges[s] \in Seq(Slots) /\ Len(edges[s]) = a + 1
            BY <1>1, <2>1, <2>2, NodeData
        <3>2. i \in DOMAIN edges[s]
            BY <3>1
        <3>3. QED
            BY <1>1, <2>1, <2>5, <3>2, ForestChild DEF Wiring
    <2>9. Spans(lo, hi, c, x)
        BY <1>3, <1>6, <2>1, <2>6, <2>7, <2>8, StepFinds
    <2>10. level[c] = h - (n + 1)
        BY <2>1, <2>7
    <2>11. QED
        BY <1>7, <2>6, <2>7, <2>9, <2>10
<1>10. \A n \in 0 .. h : Repeat(step, root[m])[n] \in G[n]
    <2>1. \A n \in Nat : n < h => \A y \in G[n] : step[y] \in G[n + 1]
        BY <1>9
    <2>2. QED
        BY ONLY h \in Nat, <1>8, <2>1, WalkStays
<1>11. Repeat(step, root[m])[h] \in G[h]
    BY <1>10
<1>12. Repeat(step, root[m])[h] = FindLeaf(m, x)
    BY <1>4, <1>6 DEF FindLeaf, Descend, FindStep
<1>13. QED
    BY <1>2, <1>3, <1>7, <1>11, <1>12 DEF Held

\* A leaf between calls that has a key is in the tree of its map.
LEMMA LeafWithKeys ==
    ASSUME NEW owner, NEW lo, NEW hi, OrderState(owner, lo, hi), op = Idle,
           NEW s \in Slots, level[s] = 0, keys[s] # <<>>
    PROVE  Held(owner, owner[s], s)
<1>1. Local /\ Wiring(owner) /\ RootsOwned(owner)
    BY DEF OrderState
<1>2. s \in live
    BY <1>1 DEF Local, DataBlank
<1>3. CASE parent[s] = NULL
    <2>1. PICK m \in Maps : root[m] = s
        BY <1>1, <1>2, <1>3 DEF Local, Orphans, Idle
    <2>2. s # NULL
        BY SlotsAssumption
    <2>3. owner[s] = m
        BY <1>1, <2>1, <2>2 DEF RootsOwned
    <2>4. QED
        BY <1>2, <2>1, <2>3 DEF Held
<1>4. CASE parent[s] # NULL
    BY <1>2, <1>4 DEF Held
<1>5. QED
    BY <1>3, <1>4

\* A key is nowhere but in the leaf that find() ends at.
LEMMA KeyHome ==
    ASSUME NEW owner, NEW lo, NEW hi, OrderState(owner, lo, hi), op = Idle,
           NEW s \in Slots, level[s] = 0, NEW x \in ToSet(keys[s])
    PROVE  /\ x \in Keys /\ Held(owner, owner[s], s) /\ Spans(lo, hi, s, x)
           /\ root[owner[s]] # NULL /\ s = FindLeaf(owner[s], x)
<1>1. Local /\ Wiring(owner)
    BY DEF OrderState
<1>2. keys[s] # <<>> /\ op.pc # "overflow" /\ owner[s] \in Maps
    BY <1>1 DEF ToSet, Idle, Wiring, Forest
<1>3. Held(owner, owner[s], s)
    BY <1>2, LeafWithKeys
<1>4. s \in live
    BY <1>3 DEF Held
<1>5. PICK n \in Nat : /\ keys[s] \in Seq(Keys) /\ DOMAIN keys[s] = 1 .. n
                       /\ LeafOrdered(keys[s], lo[s], hi[s])
    BY <1>4, NodeInOrder
<1>6. PICK i \in 1 .. n : keys[s][i] = x
    BY <1>5, SetOf
<1>7. x \in Keys /\ Spans(lo, hi, s, x)
    BY <1>5, <1>6 DEF LeafOrdered, Spans
<1>8. QED
    BY <1>2, <1>3, <1>7, LeafReached

-----------------------------------------------------------------------------
(***************************************************************************)
(* What a step leaves as it is.                                            *)
(***************************************************************************)

\* The leaves' links and intervals
SameLeaves(owner, lo, hi, ow2, lo2, hi2) ==
    /\ next' = next /\ prev' = prev /\ live' \subseteq Slots
    /\ \A s \in Slots : s \in live' /\ level'[s] = 0 <=> s \in live /\ level[s] = 0
    /\ \A s \in live : level[s] = 0 => /\ lo2[s] = lo[s] /\ hi2[s] = hi[s]
                                       /\ ow2[s] = owner[s]

LEMMA LinksKept ==
    ASSUME NEW owner, NEW lo, NEW hi, OrderState(owner, lo, hi),
           NEW ow2, NEW lo2, NEW hi2, SameLeaves(owner, lo, hi, ow2, lo2, hi2)
    PROVE  LinksOrdered(ow2, lo2, hi2)' /\ NoStrayLinks'
<1>a. LinksOrdered(owner, lo, hi) /\ NoStrayLinks /\ live \subseteq Slots
    BY DEF OrderState, Wiring, Forest
<1>b. /\ next' = next /\ prev' = prev /\ live' \subseteq Slots
      /\ \A s \in Slots : s \in live' /\ level'[s] = 0 <=> s \in live /\ level[s] = 0
      /\ \A s \in live : level[s] = 0 => /\ lo2[s] = lo[s] /\ hi2[s] = hi[s]
                                         /\ ow2[s] = owner[s]
    BY DEF SameLeaves
<1> USE <1>a, <1>b
<1>1. NoStrayLinks'
    BY DEF NoStrayLinks
<1>2. ASSUME NEW s \in live', level'[s] = 0
      PROVE  /\ next[s] = NULL <=> hi2[s] = {}
             /\ next[s] # NULL => /\ next[s] \in live' /\ level'[next[s]] = 0
                                  /\ prev[next[s]] = s
                                  /\ lo2[next[s]] = hi2[s]
                                  /\ ow2[next[s]] = ow2[s]
             /\ prev[s] = NULL <=> lo2[s] = Keys
             /\ prev[s] # NULL => /\ prev[s] \in live' /\ level'[prev[s]] = 0
                                  /\ next[prev[s]] = s
    <2>1. s \in live /\ level[s] = 0
        BY <1>2
    <2>2. /\ next[s] = NULL <=> hi[s] = {}
          /\ next[s] # NULL => /\ next[s] \in live /\ level[next[s]] = 0
                               /\ prev[next[s]] = s
                               /\ lo[next[s]] = hi[s]
                               /\ owner[next[s]] = owner[s]
          /\ prev[s] = NULL <=> lo[s] = Keys
          /\ prev[s] # NULL => /\ prev[s] \in live /\ level[prev[s]] = 0
                               /\ next[prev[s]] = s
        BY <2>1 DEF LinksOrdered
    <2>3. QED
        BY <2>1, <2>2
<1>3. LinksOrdered(ow2, lo2, hi2)'
    BY <1>2 DEF LinksOrdered
<1>4. QED
    BY <1>1, <1>3

\* The keys of all maps, when the leaves keep theirs
LEMMA KeysKept ==
    ASSUME NEW owner, NEW ow2,
           \A s \in Slots : /\ LeafKeys(s)' = LeafKeys(s)
                            /\ ow2[s] = owner[s] \/ LeafKeys(s) = {}
    PROVE  \A m \in Maps : KeysOf(ow2, m)' = KeysOf(owner, m)
<1>1. ASSUME NEW m \in Maps, NEW x
      PROVE  x \in KeysOf(ow2, m)' <=> x \in KeysOf(owner, m)
    <2>1. x \in KeysOf(ow2, m)' <=> \E s \in Slots : ow2[s] = m /\ x \in LeafKeys(s)'
        BY DEF KeysOf
    <2>2. x \in KeysOf(owner, m) <=> \E s \in Slots : owner[s] = m /\ x \in LeafKeys(s)
        BY DEF KeysOf
    <2>3. QED
        BY <2>1, <2>2
<1>2. QED
    BY <1>1

\* The keys of a map, when two of its leaves change
TwoLeavesGain(owner, ow2, m, a, b, X) ==
    /\ ow2[a] = m /\ ow2[b] = m
    /\ owner[a] = m \/ LeafKeys(a) = {}
    /\ owner[b] = m \/ LeafKeys(b) = {}
    /\ \A s \in Slots \ {a, b} : /\ LeafKeys(s)' = LeafKeys(s)
                                 /\ ow2[s] = owner[s] \/ LeafKeys(s) = {}
    /\ LeafKeys(a)' \cup LeafKeys(b)' = (LeafKeys(a) \cup LeafKeys(b)) \cup X

LEMMA KeysChanged ==
    ASSUME NEW owner, NEW ow2, NEW m \in Maps, NEW a \in Slots, NEW b \in Slots, NEW X,
           TwoLeavesGain(owner, ow2, m, a, b, X)
    PROVE  /\ KeysOf(ow2, m)' = KeysOf(owner, m) \cup X
           /\ \A q \in Maps \ {m} : KeysOf(ow2, q)' = KeysOf(owner, q)
<1> USE DEF TwoLeavesGain
<1>1. \A q, x : x \in KeysOf(ow2, q)' <=> \E s \in Slots : ow2[s] = q /\ x \in LeafKeys(s)'
    BY DEF KeysOf
<1>2. \A q, x : x \in KeysOf(owner, q) <=> \E s \in Slots : owner[s] = q /\ x \in LeafKeys(s)
    BY DEF KeysOf
<1>3. ASSUME NEW x
      PROVE  x \in KeysOf(ow2, m)' <=> x \in KeysOf(owner, m) \cup X
    <2>1. ASSUME x \in KeysOf(ow2, m)'
          PROVE  x \in KeysOf(owner, m) \cup X
        <3>1. PICK s \in Slots : ow2[s] = m /\ x \in LeafKeys(s)'
            BY <1>1, <2>1
        <3>2. CASE s \in {a, b}
            <4>1. x \in (LeafKeys(a) \cup LeafKeys(b)) \cup X
                BY <3>1, <3>2
            <4>2. QED
                BY <1>2, <4>1
        <3>3. CASE s \notin {a, b}
            BY <1>2, <3>1, <3>3
        <3>4. QED
            BY <3>2, <3>3
    <2>2. ASSUME x \in KeysOf(owner, m)
          PROVE  x \in KeysOf(ow2, m)'
        <3>1. PICK s \in Slots : owner[s] = m /\ x \in LeafKeys(s)
            BY <1>2, <2>2
        <3>2. CASE s \in {a, b}
            <4>1. x \in LeafKeys(a)' \cup LeafKeys(b)'
                BY <3>1, <3>2
            <4>2. QED
                BY <1>1, <4>1
        <3>3. CASE s \notin {a, b}
            BY <1>1, <3>1, <3>3
        <3>4. QED
            BY <3>2, <3>3
    <2>3. ASSUME x \in X
          PROVE  x \in KeysOf(ow2, m)'
        BY <1>1, <2>3
    <2>4. QED
        BY <2>1, <2>2, <2>3
<1>4. ASSUME NEW q \in Maps \ {m}, NEW x
      PROVE  x \in KeysOf(ow2, q)' <=> x \in KeysOf(owner, q)
    <2>1. \A s \in Slots : ow2[s] = q => s \notin {a, b}
        OBVIOUS
    <2>2. \A s \in Slots : owner[s] = q /\ x \in LeafKeys(s) => s \notin {a, b}
        OBVIOUS
    <2>3. QED
        BY <1>1, <1>2, <2>1, <2>2
<1>5. QED
    BY <1>3, <1>4

\* `length` and the keys of a map stay,
LEMMA CountKept ==
    ASSUME NEW owner, NEW ow2, EntriesCounted(owner),
           \A m \in Maps : /\ KeysOf(ow2, m)' = KeysOf(owner, m)
                           /\ length'[m] + Uncounted(m)' = length[m] + Uncounted(m)
    PROVE  EntriesCounted(ow2)'
BY DEF EntriesCounted

\* grow by one,
LEMMA CountMore ==
    ASSUME NEW owner, NEW ow2, EntriesCounted(owner), NEW m \in Maps, NEW k,
           length \in [Maps -> Int],
           KeysOf(ow2, m)' = KeysOf(owner, m) \cup {k}, k \notin KeysOf(owner, m),
           length'[m] + Uncounted(m)' = length[m] + Uncounted(m) + 1,
           \A q \in Maps \ {m} : /\ KeysOf(ow2, q)' = KeysOf(owner, q)
                                 /\ length'[q] + Uncounted(q)' = length[q] + Uncounted(q)
    PROVE  EntriesCounted(ow2)'
<1>1. /\ IsFiniteSet(KeysOf(owner, m))
      /\ Cardinality(KeysOf(owner, m)) = length[m] + Uncounted(m)
    BY DEF EntriesCounted
<1>2. /\ IsFiniteSet(KeysOf(owner, m) \cup {k})
      /\ Cardinality(KeysOf(owner, m) \cup {k}) = Cardinality(KeysOf(owner, m)) + 1
    BY <1>1, FS_AddElement
<1>3. /\ IsFiniteSet(KeysOf(ow2, m)')
      /\ Cardinality(KeysOf(ow2, m)') = length'[m] + Uncounted(m)'
    BY <1>1, <1>2
<1>4. \A q \in Maps \ {m} : /\ IsFiniteSet(KeysOf(ow2, q)')
                            /\ Cardinality(KeysOf(ow2, q)') = length'[q] + Uncounted(q)'
    BY DEF EntriesCounted
<1>5. QED
    BY <1>3, <1>4 DEF EntriesCounted

\* or shrink by one together.
LEMMA CountLess ==
    ASSUME NEW owner, EntriesCounted(owner), NEW m \in Maps, NEW k,
           length \in [Maps -> Int],
           KeysOf(owner, m)' = KeysOf(owner, m) \ {k}, k \in KeysOf(owner, m),
           length'[m] + Uncounted(m)' = (length[m] + Uncounted(m)) - 1,
           \A q \in Maps \ {m} : /\ KeysOf(owner, q)' = KeysOf(owner, q)
                                 /\ length'[q] + Uncounted(q)' = length[q] + Uncounted(q)
    PROVE  EntriesCounted(owner)'
<1>1. /\ IsFiniteSet(KeysOf(owner, m))
      /\ Cardinality(KeysOf(owner, m)) = length[m] + Uncounted(m)
    BY DEF EntriesCounted
<1>2. /\ IsFiniteSet(KeysOf(owner, m) \ {k})
      /\ Cardinality(KeysOf(owner, m) \ {k}) = Cardinality(KeysOf(owner, m)) - 1
    BY <1>1, FS_RemoveElement
<1>3. /\ IsFiniteSet(KeysOf(owner, m)')
      /\ Cardinality(KeysOf(owner, m)') = length'[m] + Uncounted(m)'
    <2>1. PICK K : K = KeysOf(owner, m)
        OBVIOUS
    <2>2. PICK c : c = length[m] + Uncounted(m)
        OBVIOUS
    <2>3. KeysOf(owner, m)' = K \ {k} /\ length'[m] + Uncounted(m)' = c - 1
        BY <2>1, <2>2
    <2>4. IsFiniteSet(K \ {k}) /\ Cardinality(K \ {k}) = c - 1
        BY <1>1, <1>2, <2>1, <2>2
    <2>5. QED
        BY <2>3, <2>4
<1>4. \A q \in Maps \ {m} : /\ IsFiniteSet(KeysOf(owner, q)')
                            /\ Cardinality(KeysOf(owner, q)') = length'[q] + Uncounted(q)'
    BY DEF EntriesCounted
<1>5. QED
    BY <1>3, <1>4 DEF EntriesCounted

-----------------------------------------------------------------------------
(***************************************************************************)
(* The loop of insert_before.                                              *)
(***************************************************************************)

\* The cuts around the two halves of a split
LEMMA OverflowOrder ==
    ASSUME NEW owner, NEW lo, NEW hi, OrderState(owner, lo, hi), op.pc = "overflow"
    PROVE  /\ op.node \in Slots /\ op.right \in Slots /\ op.node # op.right
           /\ Separates(op.key, op.node, op.right, lo, hi)
           /\ \A c \in Slots : c # op.node => Far(hi)[c] = hi[c]
           /\ Far(hi)[op.node] = hi[op.right]
           /\ \A q \in Maps : Uncounted(q) = IF q = op.map THEN 1 ELSE 0
<1>1. /\ Local /\ Wiring(owner) /\ OpOwned(owner) /\ HalvesOrdered(lo, hi)
      /\ hi \in [Slots -> Cuts]
    BY DEF OrderState
<1>2. op.node \in Slots /\ op.right \in Slots /\ op.node # op.right
    BY <1>1, OverflowData
<1>3. Far(hi) = [hi EXCEPT ![op.node] = hi[op.right]]
    BY DEF Far
<1>4. QED
    BY <1>1, <1>2, <1>3 DEF HalvesOrdered, Uncounted

\* At the root: the new root divides all keys between the two halves.
LEMMA GrowRootOrder ==
    ASSUME IInv, Ordered, GrowRoot
    PROVE  Ordered'
<1>1. PICK owner, lo, hi : OrderState(owner, lo, hi)
    BY OrderFound
<1>2. /\ Local /\ Wiring(owner) /\ OpOwned(owner) /\ RootsOwned(owner)
      /\ lo \in [Slots -> Cuts] /\ hi \in [Slots -> Cuts] /\ NodesOrdered(lo, hi)
      /\ LinksOrdered(owner, lo, hi) /\ EntriesCounted(owner) /\ NoStrayLinks
    BY <1>1 DEF OrderState
<1>3. /\ op.pc = "overflow" /\ parent[op.node] = NULL /\ CanAlloc /\ op' = Idle
      /\ live' = live \cup {Fresh} /\ level' = [level EXCEPT ![Fresh] = height[op.map] + 1]
      /\ keys' = [keys EXCEPT ![Fresh] = <<op.key>>]
      /\ edges' = [edges EXCEPT ![Fresh] = <<op.node, op.right>>]
      /\ parent' = [parent EXCEPT ![op.node] = Fresh, ![op.right] = Fresh]
      /\ root' = [root EXCEPT ![op.map] = Fresh]
      /\ length' = [length EXCEPT ![op.map] = @ + 1]
      /\ prev' = prev /\ next' = next
    BY DEF GrowRoot
<1>4. PICK left, right, new, m, k : left = op.node /\ right = op.right /\ new = Fresh /\ m = op.map /\ k = op.key
    OBVIOUS
<1>5. /\ m \in Maps /\ k \in Keys /\ left \in live /\ right \in live /\ left # right
      /\ left \in Slots /\ right \in Slots
      /\ parent[left] = NULL /\ parent[right] = NULL
      /\ owner[left] = m /\ owner[right] = m
    BY <1>2, <1>3, <1>4, OverflowData
<1>6. /\ new \in Slots /\ new \notin live /\ keys[new] = <<>> /\ parent[new] = NULL /\ level[new] = 0
      /\ \A q \in Maps : root[q] # new
      /\ \A s \in Slots : parent[s] # new
    BY <1>2, <1>3, <1>4, FreshData
<1>7. /\ live \subseteq Slots /\ owner \in [Slots -> Maps] /\ level \in [Slots -> Nat]
      /\ keys \in [Slots -> Seq(Keys)] /\ edges \in [Slots -> Seq(Slots)]
      /\ parent \in [Slots -> Slots \cup {NULL}]
      /\ root \in [Maps -> Slots \cup {NULL}] /\ length \in [Maps -> Int]
      /\ height \in [Maps -> Nat]
    BY <1>2 DEF Local, DataTypes, Wiring, Forest
<1>8. PICK h \in Nat : h = height[m] + 1 /\ h # 0
    BY <1>5, <1>7
<1>9. PICK ow2, lo2, hi2 : /\ ow2 = [owner EXCEPT ![new] = m]
                           /\ lo2 = [lo EXCEPT ![new] = Keys]
                           /\ hi2 = [hi EXCEPT ![new] = {}]
    OBVIOUS
<1>10. ow2 \in [Slots -> Maps] /\ lo2 \in [Slots -> Cuts] /\ hi2 \in [Slots -> Cuts]
    <2>1. Keys \in Cuts /\ {} \in Cuts
        BY DEF Cuts
    <2>2. QED
        BY <1>2, <1>5, <1>7, <1>9, <2>1
<1>11. /\ ow2[new] = m /\ lo2[new] = Keys /\ hi2[new] = {}
       /\ \A s \in Slots : s # new => ow2[s] = owner[s] /\ lo2[s] = lo[s] /\ hi2[s] = hi[s]
    BY <1>2, <1>6, <1>7, <1>9
<1>12. /\ level'[new] = h /\ keys'[new] = <<k>> /\ edges'[new] = <<left, right>>
       /\ \A s \in Slots : s # new => /\ level'[s] = level[s] /\ keys'[s] = keys[s]
                                      /\ edges'[s] = edges[s]
       /\ \A s \in Slots : parent'[s] = IF s \in {left, right} THEN new ELSE parent[s]
       /\ \A q \in Maps : root'[q] = IF q = m THEN new ELSE root[q]
       /\ \A q \in Maps : length'[q] = IF q = m THEN length[q] + 1 ELSE length[q]
       /\ live' = live \cup {new}
    BY <1>3, <1>4, <1>5, <1>6, <1>7, <1>8
<1>13. new # left /\ new # right /\ new # NULL
    BY <1>5, <1>6, SlotsAssumption
<1>14. /\ Separates(k, left, right, lo, hi)
       /\ \A c \in Slots : c # left => Far(hi)[c] = hi[c]
       /\ Far(hi)[left] = hi[right]
       /\ \A q \in Maps : Uncounted(q) = IF q = m THEN 1 ELSE 0
    BY <1>1, <1>3, <1>4, OverflowOrder
<1>15. lo[left] = Keys /\ hi[right] = {}
    <2>1. InPlace(left)
        BY <1>4, <1>5 DEF InPlace
    <2>2. QED
        BY <1>2, <1>5, <1>14, <2>1 DEF NodesOrdered
<1>16. Far(hi2)' = hi2 /\ \A s \in Slots : InPlace(s)'
    BY <1>3 DEF Far, InPlace, Idle
<1>17. NodesOrdered(lo2, hi2)'
    <2>1. NodeOrdered(level'[new], keys'[new], edges'[new], lo2[new], hi2[new], lo2, hi2)
        <3>1. Divides(<<k>>, <<left, right>>, Keys, {}, lo2, hi2)
            <4>1. lo2[left] = Keys /\ hi2[right] = {}
                BY <1>5, <1>11, <1>13, <1>15
            <4>2. Separates(k, left, right, lo2, hi2)
                BY <1>5, <1>11, <1>13, <1>14 DEF Separates
            <4>3. QED
                BY <4>1, <4>2 DEF Divides
        <3>2. QED
            BY <1>8, <1>11, <1>12, <3>1 DEF NodeOrdered
    <2>2. ASSUME NEW s \in live
          PROVE  /\ NodeOrdered(level'[s], keys'[s], edges'[s], lo2[s], hi2[s], lo2, hi2)
                 /\ parent'[s] = NULL => lo2[s] = Keys /\ hi2[s] = {}
        <3>1. s \in Slots /\ s # new /\ s # NULL
            BY <1>6, <1>7, SlotsAssumption
        <3>2. NodeOrdered(level[s], keys[s], edges[s], lo[s], hi[s], lo, Far(hi))
            BY <1>2 DEF NodesOrdered
        <3>3. \A c \in Slots : parent[c] = s => lo2[c] = lo[c] /\ hi2[c] = Far(hi)[c]
            BY <1>5, <1>6, <1>11, <1>14, <3>1
        <3>4. NodeOrdered(level[s], keys[s], edges[s], lo[s], hi[s], lo2, hi2)
            BY <1>2, <3>2, <3>3, NodeKept
        <3>5. NodeOrdered(level'[s], keys'[s], edges'[s], lo2[s], hi2[s], lo2, hi2)
            BY <1>11, <1>12, <3>1, <3>4
        <3>6. ASSUME parent'[s] = NULL
              PROVE  lo2[s] = Keys /\ hi2[s] = {}
            <4>1. s # left /\ s # right /\ parent[s] = NULL
                BY <1>12, <1>13, <3>1, <3>6
            <4>2. InPlace(s)
                BY <1>4, <4>1 DEF InPlace
            <4>3. lo[s] = Keys /\ Far(hi)[s] = {}
                BY <1>2, <4>1, <4>2 DEF NodesOrdered
            <4>4. QED
                BY <1>11, <1>14, <3>1, <4>1, <4>3
        <3>7. QED
            BY <3>5, <3>6
    <2>3. QED
        BY <1>11, <1>12, <1>16, <2>1, <2>2 DEF NodesOrdered
<1>18. OwnedBy(ow2)'
    <2>1. ASSUME NEW q \in Maps, root'[q] # NULL
          PROVE  ow2[root'[q]] = q
        <3>1. CASE q = m
            BY <1>11, <1>12, <3>1
        <3>2. CASE q # m
            <4>1. root'[q] = root[q] /\ root[q] \in Slots /\ root[q] # new
                BY <1>6, <1>7, <1>12, <2>1, <3>2
            <4>2. owner[root[q]] = q
                BY <1>2, <2>1, <4>1 DEF RootsOwned
            <4>3. QED
                BY <1>11, <4>1, <4>2
        <3>3. QED
            BY <3>1, <3>2
    <2>2. ASSUME NEW s \in live', parent'[s] # NULL
          PROVE  ow2[s] = ow2[parent'[s]]
        <3>1. s \in Slots
            BY <1>6, <1>7, <1>12
        <3>2. CASE s \in {left, right}
            BY <1>5, <1>11, <1>12, <1>13, <3>1, <3>2
        <3>3. CASE s \notin {left, right}
            <4>1. parent'[s] = parent[s] /\ parent[s] # NULL
                BY <1>12, <2>2, <3>1, <3>3
            <4>2. parent[s] \in live /\ owner[s] = owner[parent[s]] /\ s \in live
                BY <1>2, <3>1, <4>1, ParentOf
            <4>3. QED
                BY <1>6, <1>7, <1>11, <4>1, <4>2
        <3>4. QED
            BY <3>2, <3>3
    <2>3. QED
        BY <1>3, <2>1, <2>2 DEF OwnedBy, Idle
<1>19. LinksOrdered(ow2, lo2, hi2)' /\ NoStrayLinks'
    <2>1. live' \subseteq Slots
        BY <1>6, <1>7, <1>12
    <2>2. \A s \in Slots : s \in live' /\ level'[s] = 0 <=> s \in live /\ level[s] = 0
        BY <1>6, <1>8, <1>12
    <2>3. \A s \in live : level[s] = 0 => /\ lo2[s] = lo[s] /\ hi2[s] = hi[s]
                                          /\ ow2[s] = owner[s]
        BY <1>6, <1>7, <1>11
    <2>4. SameLeaves(owner, lo, hi, ow2, lo2, hi2)
        BY <1>3, <2>1, <2>2, <2>3 DEF SameLeaves
    <2>5. QED
        BY <1>1, <2>4, LinksKept
<1>20. EntriesCounted(ow2)'
    <2>1. \A s \in Slots : /\ LeafKeys(s)' = LeafKeys(s)
                           /\ ow2[s] = owner[s] \/ LeafKeys(s) = {}
        <3>1. LeafKeys(new) = {}
            BY <1>6 DEF LeafKeys, ToSet
        <3>2. LeafKeys(new)' = {}
            BY <1>8, <1>12 DEF LeafKeys
        <3>3. QED
            BY <1>11, <1>12, <3>1, <3>2 DEF LeafKeys
    <2>2. \A q \in Maps : KeysOf(ow2, q)' = KeysOf(owner, q)
        BY <2>1, KeysKept
    <2>3. \A q \in Maps : Uncounted(q)' = 0
        BY <1>3 DEF Uncounted, Idle
    <2>4. ASSUME NEW q \in Maps
          PROVE  length'[q] + Uncounted(q)' = length[q] + Uncounted(q)
        <3>1. length[q] \in Int /\ Uncounted(q)' = 0
            BY <1>7, <2>3
        <3>2. CASE q = m
            <4>1. length'[q] = length[q] + 1 /\ Uncounted(q) = 1
                BY <1>12, <1>14, <3>2
            <4>2. QED
                BY <3>1, <4>1
        <3>3. CASE q # m
            <4>1. length'[q] = length[q] /\ Uncounted(q) = 0
                BY <1>12, <1>14, <3>3
            <4>2. QED
                BY <3>1, <4>1
        <3>4. QED
            BY <3>2, <3>3
    <2>5. QED
        BY <1>2, <2>2, <2>4, CountKept
<1>21. HalvesOrdered(lo2, hi2)'
    BY <1>3 DEF HalvesOrdered, Idle
<1>22. QED
    BY <1>10, <1>17, <1>18, <1>19, <1>20, <1>21, OrderGiven

\* The place of a node among the children of its parent
LEMMA PlaceInOrder ==
    ASSUME NEW owner, NEW lo, NEW hi, OrderState(owner, lo, hi),
           NEW c \in Slots, NEW p, p = parent[c], p # NULL
    PROVE  \E n, i \in Nat :
              /\ i <= n /\ n <= M /\ parent_idx[c] = i /\ edges[p][i + 1] = c
              /\ Len(keys[p]) = n
              /\ Divided(n, keys[p], edges[p], lo[p], hi[p], lo, Far(hi))
              /\ \A j \in 1 .. n + 1 : /\ edges[p][j] \in live /\ edges[p][j] \in Slots
                                       /\ parent[edges[p][j]] = p
                                       /\ parent_idx[edges[p][j]] = j - 1
<1>1. Local /\ Wiring(owner) /\ Forest(live, level, parent, parent_idx, edges, owner)
    BY DEF OrderState, Wiring
<1>2. p \in live /\ p \in Slots /\ level[p] # 0 /\ c \in live
    BY <1>1, ParentOf
<1>3. PICK n \in Nat :
        /\ n <= M /\ Len(keys[p]) = n
        /\ Divided(n, keys[p], edges[p], lo[p], hi[p], lo, Far(hi))
    BY <1>2, NodeInOrder
<1>4. edges[p] \in Seq(Slots) /\ Len(edges[p]) = n + 1
    BY <1>3 DEF Divided
<1>5. DOMAIN edges[p] = 1 .. n + 1
    BY <1>4
<1>6. \A j \in 1 .. n + 1 : /\ edges[p][j] \in live /\ edges[p][j] \in Slots
                            /\ parent[edges[p][j]] = p
                            /\ parent_idx[edges[p][j]] = j - 1
    BY <1>1, <1>2, <1>5, ForestChild
<1>7. PICK j \in 1 .. n + 1 : edges[p][j] = c /\ parent_idx[c] = j - 1
    <2>1. parent_idx[c] + 1 \in DOMAIN edges[p] /\ edges[p][parent_idx[c] + 1] = c
        BY <1>1, <1>2 DEF Forest
    <2>2. QED
        BY <1>5, <1>6, <2>1
<1>8. PICK i \in Nat : i = j - 1 /\ i + 1 = j /\ i <= n
    OBVIOUS
<1>9. QED
    BY <1>3, <1>6, <1>7, <1>8

\* The parent has room: the new separator goes in where the two halves meet.
LEMMA AbsorbIntoParentOrder ==
    ASSUME IInv, Ordered, AbsorbIntoParent
    PROVE  Ordered'
<1>1. PICK owner, lo, hi : OrderState(owner, lo, hi)
    BY OrderFound
<1>2. /\ Local /\ Wiring(owner) /\ OpOwned(owner) /\ RootsOwned(owner)
      /\ lo \in [Slots -> Cuts] /\ hi \in [Slots -> Cuts] /\ NodesOrdered(lo, hi)
      /\ LinksOrdered(owner, lo, hi) /\ EntriesCounted(owner) /\ NoStrayLinks
    BY <1>1 DEF OrderState
<1>3. PICK left, right, p, m, k : left = op.node /\ right = op.right /\ p = parent[op.node]
                                  /\ m = op.map /\ k = op.key
    OBVIOUS
<1>4. /\ op.pc = "overflow" /\ p # NULL /\ op' = Idle
      /\ keys' = [keys EXCEPT ![p] = InsertAt(@, parent_idx[left] + 1, k)]
      /\ edges' = [edges EXCEPT ![p] = InsertAt(@, parent_idx[left] + 2, right)]
      /\ parent' = [parent EXCEPT ![right] = p]
      /\ length' = [length EXCEPT ![m] = @ + 1]
      /\ live' = live /\ level' = level /\ root' = root /\ height' = height
      /\ prev' = prev /\ next' = next
    BY <1>3 DEF AbsorbIntoParent
<1>5. /\ m \in Maps /\ k \in Keys /\ left \in live /\ right \in live /\ left # right
      /\ left \in Slots /\ right \in Slots
      /\ parent[right] = NULL
      /\ owner[left] = m /\ owner[right] = m
      /\ level[right] = level[left]
    BY <1>2, <1>3, <1>4, OverflowData
<1>6. /\ p \in live /\ p \in Slots /\ p # left /\ level[p] \in Nat /\ level[p] # 0
      /\ level[left] = level[p] - 1 /\ level[left] \in Nat /\ owner[p] = m
    BY <1>2, <1>3, <1>4, <1>5, ParentOf
<1>7. p # right
    BY <1>5, <1>6
<1>8. PICK n, i \in Nat :
         /\ i <= n /\ parent_idx[left] = i /\ edges[p][i + 1] = left
         /\ Divided(n, keys[p], edges[p], lo[p], hi[p], lo, Far(hi))
         /\ \A j \in 1 .. n + 1 : /\ edges[p][j] \in live /\ edges[p][j] \in Slots
                                  /\ parent[edges[p][j]] = p
                                  /\ parent_idx[edges[p][j]] = j - 1
    BY <1>1, <1>3, <1>4, <1>5, PlaceInOrder
<1>9. /\ live \subseteq Slots /\ owner \in [Slots -> Maps] /\ level \in [Slots -> Nat]
      /\ keys \in [Slots -> Seq(Keys)] /\ edges \in [Slots -> Seq(Slots)]
      /\ parent \in [Slots -> Slots \cup {NULL}]
      /\ root \in [Maps -> Slots \cup {NULL}] /\ length \in [Maps -> Int]
    BY <1>2 DEF Local, DataTypes, Wiring, Forest
<1>10. PICK j \in 1 .. n + 1 : j = i + 1
    BY <1>8
<1>11. /\ keys'[p] = InsertAt(keys[p], j, k) /\ edges'[p] = InsertAt(edges[p], j + 1, right)
       /\ \A s \in Slots : s # p => keys'[s] = keys[s] /\ edges'[s] = edges[s]
       /\ \A s \in Slots : parent'[s] = IF s = right THEN p ELSE parent[s]
       /\ \A q \in Maps : length'[q] = IF q = m THEN length[q] + 1 ELSE length[q]
    <2>1. i + 2 = j + 1
        BY <1>10
    <2>2. QED
        BY <1>4, <1>5, <1>6, <1>8, <1>9, <1>10, <2>1
<1>12. /\ Separates(k, left, right, lo, hi)
       /\ \A c \in Slots : c # left => Far(hi)[c] = hi[c]
       /\ Far(hi)[left] = hi[right]
       /\ \A q \in Maps : Uncounted(q) = IF q = m THEN 1 ELSE 0
    BY <1>1, <1>3, <1>4, OverflowOrder
<1>13. Far(hi)' = hi /\ \A s \in Slots : InPlace(s)'
    BY <1>4 DEF Far, InPlace, Idle
<1>14. p # NULL /\ NULL \notin Slots
    BY <1>4, SlotsAssumption
<1>15. NodesOrdered(lo, hi)'
    <2>1. Divides(keys'[p], edges'[p], lo[p], hi[p], lo, hi)
        <3>1. PICK far : far = Far(hi)
            OBVIOUS
        <3>2. Divided(n, keys[p], edges[p], lo[p], hi[p], lo, far)
            BY <1>8, <3>1
        <3>3. \A c \in 1 .. n + 1 : c # j => hi[edges[p][c]] = far[edges[p][c]]
            <4>1. \A c \in 1 .. n + 1 : c # j => edges[p][c] # edges[p][j]
                BY <1>8
            <4>2. QED
                BY <1>8, <1>10, <1>12, <3>1, <4>1
        <3>4. hi[right] = far[edges[p][j]] /\ Separates(k, edges[p][j], right, lo, hi)
            BY <1>8, <1>10, <1>12, <3>1
        <3>5. Divides(InsertAt(keys[p], j, k), InsertAt(edges[p], j + 1, right), lo[p], hi[p], lo, hi)
            BY <1>2, <1>5, <3>2, <3>3, <3>4, DividesInsert
        <3>6. QED
            BY <1>11, <3>5
    <2>2. ASSUME NEW s \in live
          PROVE  /\ NodeOrdered(level'[s], keys'[s], edges'[s], lo[s], hi[s], lo, hi)
                 /\ parent'[s] = NULL => lo[s] = Keys /\ hi[s] = {}
        <3>1. s \in Slots
            BY <1>9
        <3>2. NodeOrdered(level'[s], keys'[s], edges'[s], lo[s], hi[s], lo, hi)
            <4>1. CASE s = p
                BY <1>4, <1>6, <2>1, <4>1 DEF NodeOrdered
            <4>2. CASE s # p
                <5>1. NodeOrdered(level[s], keys[s], edges[s], lo[s], hi[s], lo, Far(hi))
                    BY <1>2 DEF NodesOrdered
                <5>2. \A c \in Slots : parent[c] = s => lo[c] = lo[c] /\ hi[c] = Far(hi)[c]
                    BY <1>3, <1>12, <4>2
                <5>3. NodeOrdered(level[s], keys[s], edges[s], lo[s], hi[s], lo, hi)
                    BY <1>2, <5>1, <5>2, NodeKept
                <5>4. QED
                    BY <1>4, <1>11, <3>1, <4>2, <5>3
            <4>3. QED
                BY <4>1, <4>2
        <3>3. ASSUME parent'[s] = NULL
              PROVE  lo[s] = Keys /\ hi[s] = {}
            <4>1. s # left /\ s # right /\ parent[s] = NULL
                BY <1>3, <1>5, <1>11, <1>14, <3>1, <3>3
            <4>2. InPlace(s)
                BY <1>3, <4>1 DEF InPlace
            <4>3. lo[s] = Keys /\ Far(hi)[s] = {}
                BY <1>2, <4>1, <4>2 DEF NodesOrdered
            <4>4. QED
                BY <1>12, <3>1, <4>1, <4>3
        <3>4. QED
            BY <3>2, <3>3
    <2>3. QED
        BY <1>4, <1>13, <2>2 DEF NodesOrdered
<1>16. OwnedBy(owner)'
    <2>1. \A q \in Maps : root'[q] # NULL => owner[root'[q]] = q
        BY <1>2, <1>4 DEF RootsOwned
    <2>2. ASSUME NEW s \in live', parent'[s] # NULL
          PROVE  owner[s] = owner[parent'[s]]
        <3>1. s \in Slots
            BY <1>4, <1>9
        <3>2. CASE s = right
            BY <1>5, <1>6, <1>11, <3>1, <3>2
        <3>3. CASE s # right
            <4>1. parent'[s] = parent[s] /\ parent[s] # NULL
                BY <1>11, <2>2, <3>1, <3>3
            <4>2. owner[s] = owner[parent[s]]
                BY <1>2, <3>1, <4>1, ParentOf
            <4>3. QED
                BY <4>1, <4>2
        <3>4. QED
            BY <3>2, <3>3
    <2>3. QED
        BY <1>4, <2>1, <2>2 DEF OwnedBy, Idle
<1>17. LinksOrdered(owner, lo, hi)' /\ NoStrayLinks'
    <2>1. SameLeaves(owner, lo, hi, owner, lo, hi)
        BY <1>4, <1>9 DEF SameLeaves
    <2>2. QED
        BY <1>1, <2>1, LinksKept
<1>18. EntriesCounted(owner)'
    <2>1. \A s \in Slots : /\ LeafKeys(s)' = LeafKeys(s)
                           /\ owner[s] = owner[s] \/ LeafKeys(s) = {}
        BY <1>4, <1>6, <1>11 DEF LeafKeys
    <2>2. \A q \in Maps : KeysOf(owner, q)' = KeysOf(owner, q)
        BY <2>1, KeysKept
    <2>3. \A q \in Maps : Uncounted(q)' = 0
        BY <1>4 DEF Uncounted, Idle
    <2>4. ASSUME NEW q \in Maps
          PROVE  length'[q] + Uncounted(q)' = length[q] + Uncounted(q)
        <3>1. length[q] \in Int /\ Uncounted(q)' = 0
            BY <1>9, <2>3
        <3>2. CASE q = m
            <4>1. length'[q] = length[q] + 1 /\ Uncounted(q) = 1
                BY <1>11, <1>12, <3>2
            <4>2. QED
                BY <3>1, <4>1
        <3>3. CASE q # m
            <4>1. length'[q] = length[q] /\ Uncounted(q) = 0
                BY <1>11, <1>12, <3>3
            <4>2. QED
                BY <3>1, <4>1
        <3>4. QED
            BY <3>2, <3>3
    <2>5. QED
        BY <1>2, <2>2, <2>4, CountKept
<1>19. HalvesOrdered(lo, hi)'
    BY <1>4 DEF HalvesOrdered, Idle
<1>20. QED
    BY <1>2, <1>9, <1>15, <1>16, <1>17, <1>18, <1>19, OrderGiven

-----------------------------------------------------------------------------
(***************************************************************************)
(* Steps that start and end outside the loop of insert_before: there every *)
(* node is in its parent and every entry is counted.                       *)
(***************************************************************************)

LEMMA CalmState ==
    ASSUME NEW owner, NEW lo, NEW hi, OrderState(owner, lo, hi), op.pc # "overflow"
    PROVE  /\ Far(hi) = hi
           /\ \A q \in Maps : Uncounted(q) = 0
           /\ \A s \in live : /\ NodeOrdered(level[s], keys[s], edges[s], lo[s], hi[s], lo, hi)
                              /\ parent[s] = NULL => lo[s] = Keys /\ hi[s] = {}
<1>1. Far(hi) = hi /\ \A s \in Slots : InPlace(s)
    BY DEF Far, InPlace
<1>2. NodesOrdered(lo, hi) /\ live \subseteq Slots
    BY DEF OrderState, Wiring, Forest
<1>3. QED
    BY <1>1, <1>2 DEF NodesOrdered, Uncounted

LEMMA CalmGiven ==
    ASSUME NEW owner \in [Slots -> Maps], NEW lo \in [Slots -> Cuts], NEW hi \in [Slots -> Cuts],
           op'.pc # "overflow", OwnedBy(owner)', live' \subseteq Slots,
           \A s \in live' : /\ NodeOrdered(level'[s], keys'[s], edges'[s], lo[s], hi[s], lo, hi)
                            /\ parent'[s] = NULL => lo[s] = Keys /\ hi[s] = {},
           LinksOrdered(owner, lo, hi)', EntriesCounted(owner)', NoStrayLinks'
    PROVE  Ordered'
<1>1. Far(hi)' = hi /\ HalvesOrdered(lo, hi)'
    BY DEF Far, HalvesOrdered
<1>2. NodesOrdered(lo, hi)'
    BY <1>1 DEF NodesOrdered
<1>3. QED
    BY <1>1, <1>2, OrderGiven

\* While no split is under way, the entries counted are those of the leaves.
LEMMA CalmCount ==
    ASSUME NEW owner, NEW ow2, EntriesCounted(owner), length \in [Maps -> Int],
           op.pc # "overflow", op'.pc # "overflow", length' = length,
           \A m \in Maps : KeysOf(ow2, m)' = KeysOf(owner, m)
    PROVE  EntriesCounted(ow2)'
<1>1. \A m \in Maps : length'[m] + Uncounted(m)' = length[m] + Uncounted(m)
    BY DEF Uncounted
<1>2. QED
    BY <1>1, CountKept

\* The tree stays as it is, but for the keys of leaves.
LEMMA LeafChangeOrder ==
    ASSUME NEW owner, NEW lo, NEW hi, OrderState(owner, lo, hi),
           op.pc # "overflow", op'.pc # "overflow",
           op'.pc # "idle" => owner[op'.node] = op'.map,
           live' = live, level' = level, parent' = parent, edges' = edges,
           prev' = prev, next' = next, \A q \in Maps : root'[q] \in {NULL, root[q]},
           \A s \in live : keys'[s] = keys[s] \/ (level[s] = 0 /\ LeafOrdered(keys'[s], lo[s], hi[s])),
           EntriesCounted(owner)'
    PROVE  Ordered'
<1>1. /\ Local /\ Wiring(owner) /\ RootsOwned(owner)
      /\ lo \in [Slots -> Cuts] /\ hi \in [Slots -> Cuts] /\ NoStrayLinks
      /\ owner \in [Slots -> Maps] /\ live \subseteq Slots
    BY DEF OrderState, Wiring, Forest
<1>2. ASSUME NEW s \in live'
      PROVE  /\ NodeOrdered(level'[s], keys'[s], edges'[s], lo[s], hi[s], lo, hi)
             /\ parent'[s] = NULL => lo[s] = Keys /\ hi[s] = {}
    <2>1. /\ s \in live /\ s \in Slots
          /\ NodeOrdered(level[s], keys[s], edges[s], lo[s], hi[s], lo, hi)
          /\ parent[s] = NULL => lo[s] = Keys /\ hi[s] = {}
        BY <1>1, CalmState
    <2>2. QED
        BY <2>1 DEF NodeOrdered
<1>3. OwnedBy(owner)'
    <2>1. \A q \in Maps : root'[q] # NULL => owner[root'[q]] = q
        BY <1>1 DEF RootsOwned
    <2>2. \A s \in live' : parent'[s] # NULL => owner[s] = owner[parent'[s]]
        BY <1>1, ParentOf
    <2>3. QED
        BY <2>1, <2>2 DEF OwnedBy
<1>4. LinksOrdered(owner, lo, hi)' /\ NoStrayLinks'
    <2>1. SameLeaves(owner, lo, hi, owner, lo, hi)
        BY <1>1 DEF SameLeaves
    <2>2. QED
        BY <2>1, LinksKept
<1>5. live' \subseteq Slots
    BY <1>1
<1>6. QED
    BY <1>1, <1>2, <1>3, <1>4, <1>5, CalmGiven

\* Nothing is changed but values.
LEMMA WriteOrder ==
    ASSUME IInv, Ordered, op' = op, live' = live, level' = level, parent' = parent,
           keys' = keys, edges' = edges, prev' = prev, next' = next,
           root' = root, length' = length
    PROVE  Ordered'
<1>1. PICK owner, lo, hi : OrderState(owner, lo, hi)
    BY OrderFound
<1>2. /\ owner \in [Slots -> Maps] /\ lo \in [Slots -> Cuts] /\ hi \in [Slots -> Cuts]
      /\ Local /\ Wiring(owner) /\ OpOwned(owner) /\ RootsOwned(owner)
    BY <1>1 DEF OrderState, Wiring, Forest
<1>3. NodesOrdered(lo, hi) /\ HalvesOrdered(lo, hi) /\ LinksOrdered(owner, lo, hi)
      /\ EntriesCounted(owner) /\ NoStrayLinks
    BY <1>1 DEF OrderState
<1>4. OwnedBy(owner)'
    <2>1. \A q \in Maps : root[q] # NULL => owner[root[q]] = q
        BY <1>2 DEF RootsOwned
    <2>2. \A s \in live : parent[s] # NULL => owner[s] = owner[parent[s]]
        BY <1>2, ParentOf DEF Wiring, Forest
    <2>3. QED
        BY <1>2, <2>1, <2>2 DEF OwnedBy, OpOwned
<1>5. /\ Far(hi)' = Far(hi) /\ \A s : InPlace(s)' = InPlace(s)
    BY DEF Far, InPlace
<1>6. NodesOrdered(lo, hi)'
    BY <1>3, <1>5 DEF NodesOrdered
<1>7. HalvesOrdered(lo, hi)' /\ LinksOrdered(owner, lo, hi)' /\ NoStrayLinks'
    BY <1>3 DEF HalvesOrdered, LinksOrdered, NoStrayLinks
<1>8. EntriesCounted(owner)'
    <2>1. \A q \in Maps : KeysOf(owner, q)' = KeysOf(owner, q)
        BY DEF KeysOf, LeafKeys
    <2>2. \A q \in Maps : Uncounted(q)' = Uncounted(q)
        BY DEF Uncounted
    <2>3. QED
        BY <1>3, <2>1, <2>2, CountKept
<1>9. QED
    BY <1>2, <1>4, <1>6, <1>7, <1>8, OrderGiven

\* Where a new key goes, and that it is nowhere else in the map
NewKeyAt(owner, lo, hi, m, k, leaf, n, j) ==
    /\ leaf \in live /\ leaf \in Slots /\ level[leaf] = 0 /\ owner[leaf] = m
    /\ n <= M /\ keys[leaf] \in Seq(Keys) /\ Len(keys[leaf]) = n
    /\ InsertionIndex(keys[leaf], k) + 1 = j
    /\ LeafOrdered(InsertAt(keys[leaf], j, k), lo[leaf], hi[leaf])
    /\ ToSet(InsertAt(keys[leaf], j, k)) = ToSet(keys[leaf]) \cup {k}
    /\ k \notin KeysOf(owner, m)

LEMMA NewKeyPlace ==
    ASSUME NEW owner, NEW lo, NEW hi, OrderState(owner, lo, hi), op = Idle,
           NEW m \in Maps, root[m] # NULL, NEW k \in Keys,
           NEW leaf, leaf = FindLeaf(m, k), ~IsAt(leaf, k)
    PROVE  \E n \in Nat : \E j \in 1 .. n + 1 : NewKeyAt(owner, lo, hi, m, k, leaf, n, j)
<1>1. op.pc # "overflow"
    BY DEF Idle
<1>2. /\ leaf \in live /\ leaf \in Slots /\ level[leaf] = 0 /\ owner[leaf] = m
      /\ k \in lo[leaf] /\ k \notin hi[leaf]
    BY <1>1, FindLeafSpans DEF Held, Spans
<1>3. PICK n \in Nat :
         /\ n <= M /\ Len(keys[leaf]) = n /\ keys[leaf] \in Seq(Keys)
         /\ DOMAIN keys[leaf] = 1 .. n /\ LeafOrdered(keys[leaf], lo[leaf], hi[leaf])
    BY <1>2, NodeInOrder
<1>4. keys[leaf] \in Seq(Int) /\ k \in Int /\ \A i \in 1 .. n : keys[leaf][i] \in Int
    <2>1. \A i \in 1 .. n : keys[leaf][i] \in Int
        <3>1. \A i \in 1 .. n : keys[leaf][i] \in Keys
            BY ONLY <1>3
        <3>2. QED
            BY <3>1, KeysAssumption
    <2>2. keys[leaf] = [i \in 1 .. n |-> keys[leaf][i]]
        BY <1>3
    <2>3. keys[leaf] \in Seq(Int)
        BY ONLY <2>1, <2>2, n \in Nat
    <2>4. QED
        BY <2>1, <2>3, KeysAssumption
<1>5. Rises(keys[leaf], n)
    BY <1>3 DEF Rises, LeafOrdered
<1>6. PICK j \in 1 .. n + 1 :
         /\ \A i \in 1 .. n : IF i < j THEN keys[leaf][i] < k ELSE k <= keys[leaf][i]
         /\ InsertionIndex(keys[leaf], k) = j - 1
    BY <1>3, <1>4, <1>5, PlaceOf
<1>7. \A i \in 1 .. n : keys[leaf][i] # k
    BY <1>3, SetOf DEF IsAt
<1>8. \A i \in 1 .. n : IF i < j THEN keys[leaf][i] < k ELSE k < keys[leaf][i]
    BY <1>4, <1>6, <1>7
<1>9. LeafOrdered(InsertAt(keys[leaf], j, k), lo[leaf], hi[leaf])
    BY <1>2, <1>3, <1>8, LeafInsert
<1>10. ToSet(InsertAt(keys[leaf], j, k)) = ToSet(keys[leaf]) \cup {k}
    BY <1>3, InsertedSet
<1>11. ASSUME k \in KeysOf(owner, m)
       PROVE  FALSE
    <2>1. PICK s \in Slots : owner[s] = m /\ k \in LeafKeys(s)
        BY <1>11 DEF KeysOf
    <2>2. level[s] = 0 /\ k \in ToSet(keys[s])
        BY <2>1 DEF LeafKeys
    <2>3. s = leaf
        BY <2>1, <2>2, KeyHome
    <2>4. QED
        BY <2>2, <2>3 DEF IsAt
<1>12. InsertionIndex(keys[leaf], k) + 1 = j
    BY <1>6
<1>13. NewKeyAt(owner, lo, hi, m, k, leaf, n, j)
    BY <1>2, <1>3, <1>9, <1>10, <1>11, <1>12 DEF NewKeyAt
<1>14. QED
    BY <1>13

\* The leaf has room: the key goes in at its place.
LEMMA InsertIntoLeafOrder ==
    ASSUME IInv, Ordered, op = Idle, NEW m \in Maps, root[m] # NULL,
           NEW k \in Keys, NEW v \in Values, NEW leaf, leaf = FindLeaf(m, k), ~IsAt(leaf, k),
           InsertIntoLeaf(m, leaf, k, v)
    PROVE  Ordered'
<1>1. PICK owner, lo, hi : OrderState(owner, lo, hi)
    BY OrderFound
<1>2. PICK n \in Nat : \E i \in 1 .. n + 1 : NewKeyAt(owner, lo, hi, m, k, leaf, n, i)
    BY <1>1, NewKeyPlace
<1>3. PICK j \in 1 .. n + 1 :
         /\ leaf \in live /\ leaf \in Slots /\ level[leaf] = 0 /\ owner[leaf] = m
         /\ InsertionIndex(keys[leaf], k) + 1 = j
         /\ LeafOrdered(InsertAt(keys[leaf], j, k), lo[leaf], hi[leaf])
         /\ ToSet(InsertAt(keys[leaf], j, k)) = ToSet(keys[leaf]) \cup {k}
         /\ k \notin KeysOf(owner, m)
    BY <1>2 DEF NewKeyAt
<1>4. /\ keys' = [keys EXCEPT ![leaf] = InsertAt(@, j, k)]
      /\ length' = [length EXCEPT ![m] = @ + 1]
      /\ live' = live /\ level' = level /\ parent' = parent /\ edges' = edges
      /\ prev' = prev /\ next' = next /\ root' = root /\ op' = op
    BY <1>3 DEF InsertIntoLeaf
<1>5. /\ keys \in [Slots -> Seq(Keys)] /\ length \in [Maps -> Int] /\ EntriesCounted(owner)
    BY <1>1 DEF OrderState, Local, DataTypes
<1>6. /\ keys'[leaf] = InsertAt(keys[leaf], j, k)
      /\ \A s \in Slots \ {leaf} : keys'[s] = keys[s]
    BY <1>3, <1>4, <1>5
<1>7. op.pc # "overflow" /\ op'.pc # "overflow" /\ op'.pc = "idle"
    BY <1>4 DEF Idle
<1>8. /\ KeysOf(owner, m)' = KeysOf(owner, m) \cup {k}
      /\ \A q \in Maps \ {m} : KeysOf(owner, q)' = KeysOf(owner, q)
    <2>1. LeafKeys(leaf)' = LeafKeys(leaf) \cup {k}
        BY <1>3, <1>4, <1>6 DEF LeafKeys
    <2>2. \A s \in Slots \ {leaf} : LeafKeys(s)' = LeafKeys(s)
        BY <1>4, <1>6 DEF LeafKeys
    <2>3. QED
        BY ONLY <1>3, <2>1, <2>2 DEF KeysOf
<1>9. \A q \in Maps : Uncounted(q) = 0 /\ Uncounted(q)' = 0
    BY <1>7 DEF Uncounted
<1>10. EntriesCounted(owner)'
    <2>1. length'[m] + Uncounted(m)' = length[m] + Uncounted(m) + 1
        <3>1. length'[m] = length[m] + 1 /\ length[m] \in Int
            BY <1>4, <1>5
        <3>2. QED
            BY <1>9, <3>1
    <2>2. \A q \in Maps \ {m} : length'[q] + Uncounted(q)' = length[q] + Uncounted(q)
        <3>1. \A q \in Maps \ {m} : length'[q] = length[q]
            BY <1>4, <1>5
        <3>2. QED
            BY <1>9, <3>1
    <2>3. QED
        BY <1>3, <1>5, <1>8, <2>1, <2>2, CountMore
<1>11. LeafOrdered(keys'[leaf], lo[leaf], hi[leaf])
    BY <1>3, <1>6
<1>12. \A s \in live : keys'[s] = keys[s] \/ (level[s] = 0 /\ LeafOrdered(keys'[s], lo[s], hi[s]))
    BY <1>1, <1>3, <1>6, <1>11 DEF OrderState, Wiring, Forest
<1>13. QED
    BY <1>1, <1>4, <1>7, <1>10, <1>12, LeafChangeOrder

\* An entry leaves its leaf.
LEMMA RemoveValOrder ==
    ASSUME IInv, Ordered, op = Idle, NEW m \in Maps,
           NEW owner, NEW lo, NEW hi, OrderState(owner, lo, hi),
           NEW leaf \in live, level[leaf] = 0, owner[leaf] = m,
           NEW n \in Nat, Len(keys[leaf]) = n, NEW idx \in 0 .. n - 1, RemoveVal(m, leaf, idx)
    PROVE  Ordered'
<1>1. /\ keys \in [Slots -> Seq(Keys)] /\ length \in [Maps -> Int] /\ EntriesCounted(owner)
      /\ leaf \in Slots
    BY DEF OrderState, Local, DataTypes, Wiring, Forest
<1>2. LeafOrdered(keys[leaf], lo[leaf], hi[leaf]) /\ keys[leaf] \in Seq(Keys)
    BY NodeInOrder
<1>3. PICK j \in 1 .. n : j = idx + 1
    OBVIOUS
<1>4. /\ keys' = [keys EXCEPT ![leaf] = RemoveAt(@, j)]
      /\ length' = [length EXCEPT ![m] = @ - 1]
      /\ live' = live /\ level' = level /\ parent' = parent /\ edges' = edges
      /\ prev' = prev /\ next' = next /\ root' = root
      /\ op' = Rebalance(m, leaf, Len(keys[leaf]) - 1, TRUE)
    BY <1>3 DEF RemoveVal
<1>5. /\ op.pc # "overflow" /\ op'.pc # "overflow"
      /\ op'.pc # "idle" => op'.node = leaf /\ op'.map = m
    BY <1>4 DEF Idle, Rebalance
<1>6. /\ keys'[leaf] = RemoveAt(keys[leaf], j)
      /\ \A s \in Slots \ {leaf} : keys'[s] = keys[s]
    BY <1>1, <1>4
<1>7. /\ LeafOrdered(keys'[leaf], lo[leaf], hi[leaf])
      /\ ToSet(keys'[leaf]) = ToSet(keys[leaf]) \ {keys[leaf][j]}
    BY <1>2, <1>6, LeafRemove
<1>8. PICK k : k = keys[leaf][j]
    OBVIOUS
<1>9. k \in ToSet(keys[leaf])
    <2>1. DOMAIN keys[leaf] = 1 .. n
        BY <1>2
    <2>2. QED
        BY <1>8, <2>1, SetOf
<1>10. \A s \in Slots : s # leaf => k \notin LeafKeys(s) \/ owner[s] # m
    BY <1>1, <1>9, KeyHome DEF LeafKeys
<1>11. /\ LeafKeys(leaf)' = LeafKeys(leaf) \ {k} /\ k \in LeafKeys(leaf)
       /\ \A s \in Slots : s # leaf => LeafKeys(s)' = LeafKeys(s)
    BY <1>4, <1>6, <1>7, <1>8, <1>9 DEF LeafKeys
<1>12. KeysOf(owner, m)' = KeysOf(owner, m) \ {k} /\ k \in KeysOf(owner, m)
    BY ONLY <1>1, <1>10, <1>11, owner[leaf] = m DEF KeysOf
<1>13. \A q \in Maps \ {m} : KeysOf(owner, q)' = KeysOf(owner, q)
    BY <1>1, <1>11 DEF KeysOf
<1>14. \A q \in Maps : Uncounted(q) = 0 /\ Uncounted(q)' = 0
    BY <1>5 DEF Uncounted
<1>15. EntriesCounted(owner)'
    <2>1. length'[m] + Uncounted(m)' = (length[m] + Uncounted(m)) - 1
        <3>1. length'[m] = length[m] - 1 /\ length[m] \in Int
            BY <1>1, <1>4
        <3>2. QED
            BY <1>14, <3>1
    <2>2. \A q \in Maps \ {m} : length'[q] + Uncounted(q)' = length[q] + Uncounted(q)
        <3>1. \A q \in Maps \ {m} : length'[q] = length[q]
            BY <1>1, <1>4
        <3>2. QED
            BY <1>14, <3>1
    <2>3. QED
        BY <1>1, <1>12, <1>13, <2>1, <2>2, CountLess
<1>16. \A s \in live : keys'[s] = keys[s] \/ (level[s] = 0 /\ LeafOrdered(keys'[s], lo[s], hi[s]))
    BY <1>6, <1>7 DEF OrderState, Wiring, Forest
<1>17. QED
    BY <1>4, <1>5, <1>15, <1>16, LeafChangeOrder

-----------------------------------------------------------------------------
(***************************************************************************)
(* The loop of post_removal at the root.                                   *)
(***************************************************************************)

LEMMA RootLeafUnderflowOrder ==
    ASSUME IInv, Ordered, RootLeafUnderflow
    PROVE  Ordered'
<1>1. PICK owner, lo, hi : OrderState(owner, lo, hi)
    BY OrderFound
<1>2. /\ root \in [Maps -> Slots \cup {NULL}] /\ length \in [Maps -> Int]
      /\ EntriesCounted(owner)
    BY <1>1 DEF OrderState, Local, DataTypes
<1>3. /\ op.pc = "underflow" /\ op' = Idle
      /\ root' = IF keys[op.node] = <<>> THEN [root EXCEPT ![op.map] = NULL] ELSE root
      /\ live' = live /\ level' = level /\ parent' = parent /\ edges' = edges
      /\ keys' = keys /\ prev' = prev /\ next' = next /\ length' = length
    BY DEF RootLeafUnderflow, Underflowing, nodeVars
<1>4. op.pc # "overflow" /\ op'.pc # "overflow" /\ op'.pc = "idle"
    BY <1>3 DEF Idle
<1>5. \A q \in Maps : root'[q] \in {NULL, root[q]}
    BY <1>2, <1>3
<1>6. EntriesCounted(owner)'
    <2>1. \A q \in Maps : KeysOf(owner, q)' = KeysOf(owner, q)
        BY <1>3 DEF KeysOf, LeafKeys
    <2>2. QED
        BY <1>2, <1>3, <1>4, <2>1, CalmCount
<1>7. QED
    BY <1>1, <1>3, <1>4, <1>5, <1>6, LeafChangeOrder

LEMMA RootInternalStaysOrder ==
    ASSUME IInv, Ordered, RootInternalStays
    PROVE  Ordered'
<1>1. PICK owner, lo, hi : OrderState(owner, lo, hi)
    BY OrderFound
<1>2. length \in [Maps -> Int] /\ EntriesCounted(owner)
    BY <1>1 DEF OrderState, Local, DataTypes
<1>3. /\ op.pc = "underflow" /\ op' = Idle
      /\ live' = live /\ level' = level /\ parent' = parent /\ edges' = edges
      /\ keys' = keys /\ prev' = prev /\ next' = next /\ length' = length /\ root' = root
    BY DEF RootInternalStays, Underflowing, nodeVars, mapVars
<1>4. op.pc # "overflow" /\ op'.pc # "overflow" /\ op'.pc = "idle"
    BY <1>3 DEF Idle
<1>5. EntriesCounted(owner)'
    <2>1. \A q \in Maps : KeysOf(owner, q)' = KeysOf(owner, q)
        BY <1>3 DEF KeysOf, LeafKeys
    <2>2. QED
        BY <1>2, <1>3, <1>4, <2>1, CalmCount
<1>6. QED
    BY <1>1, <1>3, <1>4, <1>5, LeafChangeOrder

\* The one edge of the old root has all keys already.
LEMMA ShrinkRootOrder ==
    ASSUME IInv, Ordered, ShrinkRoot
    PROVE  Ordered'
<1>1. PICK owner, lo, hi : OrderState(owner, lo, hi)
    BY OrderFound
<1>2. /\ Local /\ Wiring(owner) /\ OpOwned(owner) /\ RootsOwned(owner)
      /\ lo \in [Slots -> Cuts] /\ hi \in [Slots -> Cuts] /\ EntriesCounted(owner)
    BY <1>1 DEF OrderState
<1>3. PICK node, child, m : node = op.node /\ child = edges[op.node][1] /\ m = op.map
    OBVIOUS
<1>4. /\ op.pc = "underflow" /\ op.is_leaf = FALSE /\ op' = Idle
      /\ parent[node] = NULL /\ keys[node] = <<>>
      /\ root' = [root EXCEPT ![m] = child]
      /\ live' = live \ {node} /\ level' = [level EXCEPT ![node] = 0]
      /\ edges' = [edges EXCEPT ![node] = <<>>]
      /\ parent' = [parent EXCEPT ![child] = NULL]
      /\ keys' = keys /\ prev' = prev /\ next' = next /\ length' = length
    BY <1>3 DEF ShrinkRoot, Underflowing, AtRoot
<1>5. /\ node \in live /\ node \in Slots /\ level[node] # 0 /\ owner[node] = m /\ m \in Maps
    BY <1>2, <1>3, <1>4, UnderflowData
<1>6. /\ live \subseteq Slots /\ owner \in [Slots -> Maps] /\ level \in [Slots -> Nat]
      /\ keys \in [Slots -> Seq(Keys)] /\ edges \in [Slots -> Seq(Slots)]
      /\ parent \in [Slots -> Slots \cup {NULL}]
      /\ root \in [Maps -> Slots \cup {NULL}] /\ length \in [Maps -> Int]
      /\ Forest(live, level, parent, parent_idx, edges, owner)
    BY <1>2 DEF Local, DataTypes, Wiring, Forest
<1>7. op.pc # "overflow" /\ op'.pc # "overflow" /\ op'.pc = "idle"
    BY <1>4 DEF Idle
<1>8. /\ \A s \in live : /\ NodeOrdered(level[s], keys[s], edges[s], lo[s], hi[s], lo, hi)
                         /\ parent[s] = NULL => lo[s] = Keys /\ hi[s] = {}
    BY <1>1, <1>7, CalmState
<1>9. /\ lo[child] = Keys /\ hi[child] = {}
      /\ DOMAIN edges[node] = {1}
    <2>1. Divides(keys[node], edges[node], lo[node], hi[node], lo, hi) /\ Len(keys[node]) = 0
        BY <1>4, <1>5, <1>8 DEF NodeOrdered
    <2>2. lo[node] = Keys /\ hi[node] = {}
        BY <1>4, <1>5, <1>8
    <2>3. Len(edges[node]) = 1 /\ edges[node] \in Seq(Slots)
        <3>1. \E n \in Nat : Len(keys[node]) = n /\ edges[node] \in Seq(Slots)
                             /\ Len(edges[node]) = n + 1
            BY <1>1, <1>5, NodeInOrder
        <3>2. QED
            BY <2>1, <3>1
    <2>4. QED
        BY <1>3, <2>1, <2>2, <2>3 DEF Divides
<1>10. /\ child \in live /\ child \in Slots /\ child # node /\ parent[child] = node /\ owner[child] = m
    BY <1>3, <1>5, <1>6, <1>9, ForestChild
<1>11. \A s \in Slots : parent[s] = node => s = child
    <2>1. ASSUME NEW s \in Slots, parent[s] = node
          PROVE  s = child
        <3>1. node # NULL
            BY <1>5, SlotsAssumption
        <3>2. s \in live /\ parent_idx[s] + 1 \in DOMAIN edges[node] /\ edges[node][parent_idx[s] + 1] = s
            BY <1>6, <2>1, <3>1 DEF Forest
        <3>3. QED
            BY <1>3, <1>9, <3>2
    <2>2. QED
        BY <2>1
<1>12. /\ \A s \in Slots : s # node => level'[s] = level[s] /\ edges'[s] = edges[s]
       /\ \A s \in Slots : parent'[s] = IF s = child THEN NULL ELSE parent[s]
       /\ \A q \in Maps : root'[q] = IF q = m THEN child ELSE root[q]
    BY <1>4, <1>6
<1>13. ASSUME NEW s \in live'
       PROVE  /\ NodeOrdered(level'[s], keys'[s], edges'[s], lo[s], hi[s], lo, hi)
              /\ parent'[s] = NULL => lo[s] = Keys /\ hi[s] = {}
    <2>1. s \in live /\ s \in Slots /\ s # node
        BY <1>4, <1>6
    <2>2. QED
        BY <1>4, <1>8, <1>9, <1>12, <2>1
<1>14. OwnedBy(owner)'
    <2>1. ASSUME NEW q \in Maps, root'[q] # NULL
          PROVE  owner[root'[q]] = q
        BY <1>2, <1>10, <1>12, <2>1 DEF RootsOwned
    <2>2. ASSUME NEW s \in live', parent'[s] # NULL
          PROVE  owner[s] = owner[parent'[s]]
        <3>1. s \in Slots /\ parent'[s] = parent[s]
            BY <1>4, <1>6, <1>12, <2>2
        <3>2. QED
            BY <1>2, <2>2, <3>1, ParentOf
    <2>3. QED
        BY <1>7, <2>1, <2>2 DEF OwnedBy
<1>15. LinksOrdered(owner, lo, hi)' /\ NoStrayLinks'
    <2>1. \A s \in Slots : s \in live' /\ level'[s] = 0 <=> s \in live /\ level[s] = 0
        BY <1>4, <1>5, <1>12
    <2>2. SameLeaves(owner, lo, hi, owner, lo, hi)
        BY <1>4, <1>6, <2>1 DEF SameLeaves
    <2>3. QED
        BY <1>1, <2>2, LinksKept
<1>16. EntriesCounted(owner)'
    <2>1. LeafKeys(node) = {} /\ LeafKeys(node)' = {}
        BY <1>4, <1>5 DEF LeafKeys, ToSet
    <2>2. \A s \in Slots : /\ LeafKeys(s)' = LeafKeys(s)
                           /\ owner[s] = owner[s] \/ LeafKeys(s) = {}
        BY <1>4, <1>12, <2>1 DEF LeafKeys
    <2>3. \A q \in Maps : KeysOf(owner, q)' = KeysOf(owner, q)
        BY <2>2, KeysKept
    <2>4. QED
        BY <1>2, <1>4, <1>6, <1>7, <2>3, CalmCount
<1>17. live' \subseteq Slots
    BY <1>4, <1>6
<1>18. QED
    BY <1>2, <1>6, <1>7, <1>13, <1>14, <1>15, <1>16, <1>17, CalmGiven

-----------------------------------------------------------------------------
(***************************************************************************)
(* Two neighbours below one parent, and the separator between them.        *)
(***************************************************************************)

\* left and right are the children of p beside its key number j.
Siblings(owner, lo, hi, p, n, j, left, right) ==
    /\ p \in live /\ p \in Slots /\ level[p] # 0
    /\ n \in Nat /\ j \in 1 .. n
    /\ Divided(n, keys[p], edges[p], lo[p], hi[p], lo, hi)
    /\ left = edges[p][j] /\ right = edges[p][j + 1]
    /\ left \in live /\ left \in Slots /\ left # p /\ parent[left] = p
    /\ right \in live /\ right \in Slots /\ right # p /\ parent[right] = p
    /\ left # right /\ level[left] = level[right]
    /\ owner[left] = owner[p] /\ owner[right] = owner[p]
    /\ \A i \in 1 .. n + 1 : /\ edges[p][i] \in Slots /\ parent[edges[p][i]] = p
                             /\ edges[p][i] = left => i = j
                             /\ edges[p][i] = right => i = j + 1
    /\ keys[p][j] \in Keys /\ Separates(keys[p][j], left, right, lo, hi)
    /\ level[left] = 0 => next[left] = right /\ prev[right] = left

\* Leaves side by side are linked: what `next` of the left one leads to has
\* the separator in its interval too, and only one leaf does.
LEMMA SiblingsLinked ==
    ASSUME NEW owner, NEW lo, NEW hi, OrderState(owner, lo, hi), op.pc = "underflow",
           op.node \in Slots, level[op.node] = 0,
           NEW left \in live, NEW right \in live, level[left] = 0, level[right] = 0,
           owner[left] = owner[right], parent[right] # NULL,
           NEW k \in Keys, Separates(k, left, right, lo, hi)
    PROVE  next[left] = right /\ prev[right] = left
<1>1. /\ Local /\ Wiring(owner) /\ LinksOrdered(owner, lo, hi)
      /\ lo \in [Slots -> Cuts] /\ hi \in [Slots -> Cuts]
      /\ live \subseteq Slots /\ owner \in [Slots -> Maps]
    BY DEF OrderState, Wiring, Forest
<1>2. op.pc # "overflow"
    OBVIOUS
<1>3. /\ hi[left] = Up(k) /\ lo[right] = Up(k) /\ k \notin hi[right] /\ Above(lo[left], k)
    BY DEF Separates
<1>4. k \in Up(k) /\ \A x \in Keys : x \in Up(k) <=> k <= x
    BY UpIs, KeysAssumption
<1>5. PICK f : f = next[left]
    OBVIOUS
<1>6. /\ f # NULL /\ f \in live /\ level[f] = 0 /\ prev[f] = left /\ lo[f] = Up(k)
      /\ owner[f] = owner[left] /\ f \in Slots
    BY <1>1, <1>3, <1>4, <1>5 DEF LinksOrdered
<1>7. parent[f] # NULL
    <2>1. ASSUME parent[f] = NULL
          PROVE  FALSE
        <3>1. lo[f] = Keys
            BY <1>2, <1>6, <2>1, CalmState
        <3>2. PICK x \in lo[left] : x < k
            BY <1>3 DEF Above
        <3>3. x \in Keys
            BY <1>1, <3>2, CutIs
        <3>4. x \in Up(k)
            BY <1>6, <3>1, <3>3
        <3>5. k <= x /\ x \in Int /\ k \in Int
            BY <1>4, <3>3, <3>4, KeysAssumption
        <3>6. QED
            BY <3>2, <3>5
    <2>2. QED
        BY <2>1
<1>8. k \notin hi[f]
    <2>1. PICK p : p = parent[f]
        OBVIOUS
    <2>2. PICK n, i \in Nat :
             /\ i <= n /\ edges[p][i + 1] = f /\ Len(keys[p]) = n
             /\ Divided(n, keys[p], edges[p], lo[p], hi[p], lo, Far(hi))
        BY <1>6, <1>7, <2>1, PlaceInOrder
    <2>3. n # 0
        <3>1. p \in live /\ level[p] # 0 /\ p # op.node
            BY <1>1, <1>6, <1>7, <2>1, ParentOf
        <3>2. keys[p] # <<>>
            BY <1>1, <3>1, ParentHasKey
        <3>3. keys[p] \in Seq(Keys)
            BY <2>2 DEF Divided
        <3>4. QED
            BY <2>2, <3>2, <3>3
    <2>4. Far(hi) = hi
        BY <1>2, CalmState
    <2>5. Divided(n, keys[p], edges[p], lo[p], hi[p], lo, hi) /\ i + 1 \in 1 .. n + 1
        BY <2>2, <2>4
    <2>6. PICK x \in Keys : x \in lo[edges[p][i + 1]] /\ x \notin hi[edges[p][i + 1]]
        BY <2>3, <2>5, ChildHasRoom
    <2>7. x \in Up(k) /\ x \notin hi[f]
        BY <1>6, <2>2, <2>6
    <2>8. k <= x
        BY <1>4, <2>7
    <2>9. hi[f] \in Cuts
        BY <1>1, <1>6
    <2>10. \A y \in hi[f] : \A z \in Keys : y <= z => z \in hi[f]
        BY <2>9, CutIs
    <2>11. QED
        BY <2>7, <2>8, <2>10
<1>9. PICK m \in Maps : m = owner[left]
    BY <1>1
<1>10. Held(owner, m, f) /\ Held(owner, m, right)
    BY <1>6, <1>7, <1>9 DEF Held
<1>11. Spans(lo, hi, f, k) /\ Spans(lo, hi, right, k)
    BY <1>3, <1>4, <1>6, <1>8 DEF Spans
<1>12. f = right
    BY <1>2, <1>6, <1>10, <1>11, SpanApart
<1>13. QED
    BY <1>5, <1>6, <1>12

LEMMA SiblingsInOrder ==
    ASSUME NEW owner, NEW lo, NEW hi, OrderState(owner, lo, hi), op.pc = "underflow",
           NEW p \in live, level[p] # 0, NEW n \in Nat, Len(keys[p]) = n, NEW j \in 1 .. n,
           NEW left, left = edges[p][j], NEW right, right = edges[p][j + 1],
           op.is_leaf <=> level[left] = 0
    PROVE  Siblings(owner, lo, hi, p, n, j, left, right)
<1>1. /\ Local /\ Wiring(owner) /\ OpOwned(owner) /\ p \in Slots
      /\ Forest(live, level, parent, parent_idx, edges, owner)
    BY DEF OrderState, Wiring, Forest
<1>2. Far(hi) = hi
    BY CalmState
<1>3. \E c \in Nat : /\ Len(keys[p]) = c
                     /\ Divided(c, keys[p], edges[p], lo[p], hi[p], lo, Far(hi))
    BY NodeInOrder
<1>4. Divided(n, keys[p], edges[p], lo[p], hi[p], lo, hi)
    BY <1>2, <1>3
<1>5. /\ keys[p] \in Seq(Keys) /\ edges[p] \in Seq(Slots) /\ Len(edges[p]) = n + 1
      /\ Divides(keys[p], edges[p], lo[p], hi[p], lo, hi)
    BY <1>4 DEF Divided
<1>6. DOMAIN keys[p] = 1 .. n /\ DOMAIN edges[p] = 1 .. n + 1 /\ j \in 1 .. n + 1 /\ j + 1 \in 1 .. n + 1
    BY <1>5
<1>7. \A i \in 1 .. n + 1 : /\ edges[p][i] \in live /\ edges[p][i] \in Slots /\ edges[p][i] # p
                            /\ parent[edges[p][i]] = p /\ parent_idx[edges[p][i]] = i - 1
                            /\ level[edges[p][i]] = level[p] - 1 /\ owner[edges[p][i]] = owner[p]
    <2>1. ASSUME NEW i \in DOMAIN edges[p]
          PROVE  /\ edges[p][i] \in live /\ edges[p][i] \in Slots /\ edges[p][i] # p
                 /\ parent[edges[p][i]] = p /\ parent_idx[edges[p][i]] = i - 1
                 /\ level[edges[p][i]] = level[p] - 1 /\ owner[edges[p][i]] = owner[p]
        BY ONLY <1>1, <2>1, i \in DOMAIN edges[p], ForestChild
    <2>2. QED
        BY ONLY <1>6, <2>1
<1>8. \A i \in 1 .. n + 1 : /\ edges[p][i] = left => i = j
                            /\ edges[p][i] = right => i = j + 1
    <2>1. \A i, c \in 1 .. n + 1 : edges[p][i] = edges[p][c] => i = c
        <3>1. ASSUME NEW i \in 1 .. n + 1, NEW c \in 1 .. n + 1, edges[p][i] = edges[p][c]
              PROVE  i = c
            <4>1. parent_idx[edges[p][i]] = i - 1 /\ parent_idx[edges[p][c]] = c - 1
                BY ONLY <1>7, i \in 1 .. n + 1, c \in 1 .. n + 1
            <4>2. i - 1 = c - 1 /\ i \in Int /\ c \in Int
                BY ONLY <3>1, <4>1, n \in Nat, i \in 1 .. n + 1, c \in 1 .. n + 1
            <4>3. QED
                BY ONLY <4>2
        <3>2. QED
            BY <3>1
    <2>2. QED
        BY <1>6, <2>1
<1>9. left # right
    BY <1>6, <1>8
<1>10. keys[p][j] \in Keys /\ Separates(keys[p][j], left, right, lo, hi)
    <2>1. \A i \in DOMAIN keys[p] : Separates(keys[p][i], edges[p][i], edges[p][i + 1], lo, hi)
        BY ONLY <1>5 DEF Divides
    <2>2. Separates(keys[p][j], edges[p][j], edges[p][j + 1], lo, hi)
        BY ONLY <1>6, <2>1, j \in 1 .. n
    <2>3. keys[p][j] \in Keys
        BY ONLY <1>5, <1>6, j \in 1 .. n
    <2>4. QED
        BY <2>2, <2>3
<1>11. /\ left \in live /\ left \in Slots /\ left # p /\ parent[left] = p
       /\ right \in live /\ right \in Slots /\ right # p /\ parent[right] = p
       /\ level[left] = level[right] /\ owner[left] = owner[p] /\ owner[right] = owner[p]
    BY <1>6, <1>7
<1>12. level[left] = 0 => next[left] = right /\ prev[right] = left
    <2>1. ASSUME level[left] = 0
          PROVE  next[left] = right /\ prev[right] = left
        <3>1. op.node \in Slots /\ level[op.node] = 0
            BY <1>1, <2>1, UnderflowData
        <3>2. p # NULL /\ level[right] = 0
            BY <1>1, <1>11, <2>1, SlotsAssumption
        <3>3. QED
            BY <1>10, <1>11, <2>1, <3>1, <3>2, SiblingsLinked
    <2>2. QED
        BY <2>1
<1>13. QED
    BY <1>1, <1>4, <1>7, <1>8, <1>9, <1>10, <1>11, <1>12 DEF Siblings

\* A node keeps its order when the cuts of its children are kept.
Shaped(lev, n, ks, es) ==
    /\ n \in Nat /\ ks \in Seq(Keys) /\ Len(ks) = n
    /\ es \in Seq(Slots) /\ (lev # 0 => Len(es) = n + 1)

SameCuts(lev, n, es, lo, hi, lo2, hi2) ==
    lev # 0 => \A i \in 1 .. n + 1 : lo2[es[i]] = lo[es[i]] /\ hi2[es[i]] = hi[es[i]]

LEMMA NodeMoved ==
    ASSUME NEW lev, NEW n, NEW ks, NEW es, Shaped(lev, n, ks, es),
           NEW L, NEW H, NEW lo, NEW hi, NodeOrdered(lev, ks, es, L, H, lo, hi),
           NEW lo2, NEW hi2, SameCuts(lev, n, es, lo, hi, lo2, hi2)
    PROVE  NodeOrdered(lev, ks, es, L, H, lo2, hi2)
<1>1. CASE lev = 0
    BY <1>1 DEF NodeOrdered
<1>2. CASE lev # 0
    <2>1. Divides(ks, es, L, H, lo, hi)
        BY <1>2 DEF NodeOrdered
    <2>2. /\ n \in Nat /\ ks \in Seq(Keys) /\ Len(ks) = n /\ es \in Seq(Slots) /\ Len(es) = n + 1
          /\ \A i \in 1 .. n + 1 : lo2[es[i]] = lo[es[i]] /\ hi2[es[i]] = hi[es[i]]
        BY <1>2 DEF Shaped, SameCuts
    <2>3. DOMAIN ks = 1 .. n
        BY <2>2
    <2>4. /\ lo[es[1]] = L /\ hi[es[n + 1]] = H
          /\ \A i \in 1 .. n : Separates(ks[i], es[i], es[i + 1], lo, hi)
        BY <2>1, <2>2, <2>3 DEF Divides
    <2>5. lo2[es[1]] = L /\ hi2[es[n + 1]] = H
        BY <2>2, <2>4
    <2>6. ASSUME NEW i \in 1 .. n
          PROVE  Separates(ks[i], es[i], es[i + 1], lo2, hi2)
        <3>1. i \in 1 .. n + 1 /\ i + 1 \in 1 .. n + 1
            BY <2>2
        <3>2. QED
            BY <2>2, <2>4, <3>1 DEF Separates
    <2>7. QED
        BY <1>2, <2>2, <2>3, <2>5, <2>6 DEF Divides, NodeOrdered
<1>3. QED
    BY <1>1, <1>2

\* In the next state a node's children are a level below it.
LEMMA ChildrenNext ==
    ASSUME IInv', NEW s \in live'
    PROVE  \E n \in Nat :
              /\ s \in Slots /\ keys'[s] \in Seq(Keys) /\ Len(keys'[s]) = n
              /\ edges'[s] \in Seq(Slots) /\ level'[s] \in Nat
              /\ level'[s] # 0 => /\ Len(edges'[s]) = n + 1
                                  /\ \A i \in 1 .. n + 1 : /\ level'[edges'[s][i]] # level'[s]
                                                           /\ edges'[s][i] \in live'
                                                           /\ parent'[edges'[s][i]] = s
<1>1. TypeOK' /\ NodeShape' /\ ParentAgrees'
    BY DEF IInv
<1>2. /\ s \in Slots /\ keys'[s] \in Seq(Keys) /\ edges'[s] \in Seq(Slots) /\ level'[s] \in Nat
    BY <1>1 DEF TypeOK
<1>3. PICK n \in Nat : Len(keys'[s]) = n
    BY <1>2
<1>4. ASSUME level'[s] # 0
      PROVE  /\ Len(edges'[s]) = n + 1
             /\ \A i \in 1 .. n + 1 : /\ level'[edges'[s][i]] # level'[s]
                                      /\ edges'[s][i] \in live'
                                      /\ parent'[edges'[s][i]] = s
    <2>1. Len(edges'[s]) = n + 1
        BY <1>1, <1>2, <1>3, <1>4 DEF NodeShape
    <2>2. DOMAIN edges'[s] = 1 .. n + 1
        BY <1>2, <2>1
    <2>3. \A i \in 1 .. n + 1 : /\ level'[edges'[s][i]] = level'[s] - 1
                                /\ edges'[s][i] \in live' /\ parent'[edges'[s][i]] = s
        BY <1>1, <2>2 DEF ParentAgrees
    <2>4. QED
        BY <1>2, <2>1, <2>3
<1>5. QED
    BY <1>2, <1>3, <1>4

\* A borrowing moves the separator of two neighbours to k, and what lies
\* between the old one and the new one.
EntryMoved(lo, hi, p, j, left, right, k) ==
    /\ op' = Idle
    /\ k \in Keys /\ Above(lo[left], k) /\ k \notin hi[right]
    /\ live' = live /\ level' = level /\ root' = root /\ length' = length
    /\ prev' = prev /\ next' = next
    /\ keys'[p] = [keys[p] EXCEPT ![j] = k] /\ edges'[p] = edges[p]
    /\ \A s \in Slots \ {left, right, p} : keys'[s] = keys[s] /\ edges'[s] = edges[s]
    /\ \A s \in Slots : \/ parent'[s] = parent[s]
                        \/ parent[s] \in {left, right} /\ parent'[s] \in {left, right}
    /\ NodeOrdered(level[left], keys'[left], edges'[left], lo[left], Up(k), lo, hi)
    /\ NodeOrdered(level[right], keys'[right], edges'[right], Up(k), hi[right], lo, hi)
    /\ LeafKeys(left)' \cup LeafKeys(right)' = LeafKeys(left) \cup LeafKeys(right)

LEMMA BorrowOrder ==
    ASSUME IInv', NEW owner, NEW lo, NEW hi, OrderState(owner, lo, hi), op.pc = "underflow",
           NEW p, NEW n, NEW j, NEW left, NEW right,
           Siblings(owner, lo, hi, p, n, j, left, right),
           NEW k, EntryMoved(lo, hi, p, j, left, right, k)
    PROVE  Ordered'
<1>0. /\ op' = Idle
      /\ k \in Keys /\ Above(lo[left], k) /\ k \notin hi[right]
      /\ live' = live /\ level' = level /\ root' = root /\ length' = length
      /\ prev' = prev /\ next' = next
      /\ keys'[p] = [keys[p] EXCEPT ![j] = k] /\ edges'[p] = edges[p]
      /\ \A s \in Slots \ {left, right, p} : keys'[s] = keys[s] /\ edges'[s] = edges[s]
      /\ \A s \in Slots : \/ parent'[s] = parent[s]
                          \/ parent[s] \in {left, right} /\ parent'[s] \in {left, right}
      /\ NodeOrdered(level[left], keys'[left], edges'[left], lo[left], Up(k), lo, hi)
      /\ NodeOrdered(level[right], keys'[right], edges'[right], Up(k), hi[right], lo, hi)
      /\ LeafKeys(left)' \cup LeafKeys(right)' = LeafKeys(left) \cup LeafKeys(right)
    BY DEF EntryMoved
<1>1. /\ Local /\ Wiring(owner) /\ OpOwned(owner) /\ RootsOwned(owner)
      /\ lo \in [Slots -> Cuts] /\ hi \in [Slots -> Cuts]
      /\ LinksOrdered(owner, lo, hi) /\ EntriesCounted(owner) /\ NoStrayLinks
      /\ length \in [Maps -> Int]
      /\ live \subseteq Slots /\ owner \in [Slots -> Maps]
    BY <1>0 DEF OrderState, Wiring, Forest, Local, DataTypes
<1>2. /\ p \in live /\ p \in Slots /\ level[p] # 0 /\ n \in Nat /\ j \in 1 .. n
      /\ left = edges[p][j] /\ right = edges[p][j + 1]
      /\ left \in live /\ left \in Slots /\ left # p /\ parent[left] = p
      /\ right \in live /\ right \in Slots /\ right # p /\ parent[right] = p
      /\ left # right /\ level[left] = level[right]
      /\ owner[left] = owner[p] /\ owner[right] = owner[p]
      /\ level[left] = 0 => next[left] = right /\ prev[right] = left
    BY <1>0 DEF Siblings
<1>3. op.pc # "overflow" /\ op'.pc # "overflow" /\ op'.pc = "idle"
    BY <1>0 DEF Idle
<1>4. \A s \in live : /\ NodeOrdered(level[s], keys[s], edges[s], lo[s], hi[s], lo, hi)
                      /\ parent[s] = NULL => lo[s] = Keys /\ hi[s] = {}
    BY <1>0, <1>3, CalmState
<1>5. PICK lo2, hi2 : lo2 = [lo EXCEPT ![right] = Up(k)] /\ hi2 = [hi EXCEPT ![left] = Up(k)]
    OBVIOUS
<1>6. /\ lo2 \in [Slots -> Cuts] /\ hi2 \in [Slots -> Cuts]
      /\ \A s \in Slots : /\ lo2[s] = IF s = right THEN Up(k) ELSE lo[s]
                          /\ hi2[s] = IF s = left THEN Up(k) ELSE hi[s]
    <2>1. Up(k) \in Cuts
        BY <1>0 DEF Cuts
    <2>2. QED
        BY <1>0, <1>1, <1>5, <2>1
<1>7. p # NULL /\ left # NULL /\ right # NULL
    BY <1>0, <1>2, SlotsAssumption
<1>8. ASSUME NEW x \in {left, right}, NEW L, NEW H,
             NodeOrdered(level[x], keys'[x], edges'[x], L, H, lo, hi)
      PROVE  NodeOrdered(level[x], keys'[x], edges'[x], L, H, lo2, hi2)
    <2>1. x \in live' /\ level'[x] = level[x]
        BY <1>0, <1>2
    <2>2. PICK c \in Nat :
             /\ keys'[x] \in Seq(Keys) /\ Len(keys'[x]) = c /\ edges'[x] \in Seq(Slots)
             /\ level'[x] # 0 => /\ Len(edges'[x]) = c + 1
                                 /\ \A i \in 1 .. c + 1 : /\ level'[edges'[x][i]] # level'[x]
                                                          /\ edges'[x][i] \in live'
        <3>1. x \in live'
            BY <2>1
        <3>2. \E c \in Nat :
                 /\ x \in Slots /\ keys'[x] \in Seq(Keys) /\ Len(keys'[x]) = c
                 /\ edges'[x] \in Seq(Slots) /\ level'[x] \in Nat
                 /\ level'[x] # 0 => /\ Len(edges'[x]) = c + 1
                                     /\ \A i \in 1 .. c + 1 :
                                           /\ level'[edges'[x][i]] # level'[x]
                                           /\ edges'[x][i] \in live'
                                           /\ parent'[edges'[x][i]] = x
            BY <1>0, <3>1, ChildrenNext
        <3>3. QED
            BY ONLY <3>2
    <2>3. ASSUME level[x] # 0
          PROVE  \A i \in 1 .. c + 1 : /\ lo2[edges'[x][i]] = lo[edges'[x][i]]
                                       /\ hi2[edges'[x][i]] = hi[edges'[x][i]]
        <3>1. \A i \in 1 .. c + 1 : /\ level[edges'[x][i]] # level[x]
                                    /\ edges'[x][i] \in Slots
            BY <1>0, <1>1, <2>1, <2>2, <2>3
        <3>2. \A i \in 1 .. c + 1 : edges'[x][i] # left /\ edges'[x][i] # right
            BY <1>0, <1>2, <3>1
        <3>3. QED
            BY <1>0, <1>6, <3>1, <3>2
    <2>4. level[x] # 0 => Len(edges'[x]) = c + 1
        BY <1>0, <2>1, <2>2
    <2>5. PICK ks, es, lev : ks = keys'[x] /\ es = edges'[x] /\ lev = level[x]
        BY <1>0
    <2>6. Shaped(lev, c, ks, es) /\ NodeOrdered(lev, ks, es, L, H, lo, hi)
        BY <1>0, <1>8, <2>2, <2>4, <2>5 DEF Shaped
    <2>7. SameCuts(lev, c, es, lo, hi, lo2, hi2)
        BY <1>0, <2>3, <2>5 DEF SameCuts
    <2>8. NodeOrdered(lev, ks, es, L, H, lo2, hi2)
        BY ONLY <2>6, <2>7, NodeMoved
    <2>9. QED
        BY <1>0, <2>5, <2>8
<1>9. Divides(keys'[p], edges'[p], lo[p], hi[p], lo2, hi2)
    <2>1. Separates(k, left, right, lo2, hi2)
        BY <1>0, <1>2, <1>6 DEF Separates
    <2>2. \A i \in 1 .. n + 1 : /\ i # j + 1 => lo2[edges[p][i]] = lo[edges[p][i]]
                                /\ i # j => hi2[edges[p][i]] = hi[edges[p][i]]
        <3>1. \A i \in 1 .. n + 1 : /\ edges[p][i] \in Slots
                                    /\ edges[p][i] = left => i = j
                                    /\ edges[p][i] = right => i = j + 1
            BY <1>0 DEF Siblings
        <3>2. QED
            BY <1>0, <1>6, <3>1
    <2>3. Divided(n, keys[p], edges[p], lo[p], hi[p], lo, hi)
        BY <1>0 DEF Siblings
    <2>4. Separates(k, edges[p][j], edges[p][j + 1], lo2, hi2)
        BY <1>0, <1>2, <2>1
    <2>5. Divides([keys[p] EXCEPT ![j] = k], edges[p], lo[p], hi[p], lo2, hi2)
        BY <1>0, <1>2, <1>6, <2>2, <2>3, <2>4, DividesReplace
    <2>6. QED
        BY <1>0, <2>5
<1>10. ASSUME NEW s \in live'
       PROVE  /\ NodeOrdered(level'[s], keys'[s], edges'[s], lo2[s], hi2[s], lo2, hi2)
              /\ parent'[s] = NULL => lo2[s] = Keys /\ hi2[s] = {}
    <2>1. s \in live /\ s \in Slots /\ level'[s] = level[s]
        BY <1>0, <1>1
    <2>2. NodeOrdered(level'[s], keys'[s], edges'[s], lo2[s], hi2[s], lo2, hi2)
        <3>1. CASE s = left
            BY <1>0, <1>2, <1>6, <1>8, <2>1, <3>1
        <3>2. CASE s = right
            BY <1>0, <1>2, <1>6, <1>8, <2>1, <3>2
        <3>3. CASE s = p
            BY <1>0, <1>2, <1>6, <1>9, <2>1, <3>3 DEF NodeOrdered
        <3>4. CASE s \notin {left, right, p}
            <4>1. \A c \in Slots : parent[c] = s => lo2[c] = lo[c] /\ hi2[c] = hi[c]
                BY <1>0, <1>2, <1>6, <3>4
            <4>2. NodeOrdered(level[s], keys[s], edges[s], lo[s], hi[s], lo2, hi2)
                BY ONLY <1>1, <1>4, <2>1, <4>1, NodeKept
            <4>3. keys'[s] = keys[s] /\ edges'[s] = edges[s] /\ lo2[s] = lo[s] /\ hi2[s] = hi[s]
                BY <1>0, <1>6, <2>1, <3>4
            <4>4. QED
                BY <1>0, <2>1, <4>2, <4>3
        <3>5. QED
            BY <1>0, <3>1, <3>2, <3>3, <3>4
    <2>3. ASSUME parent'[s] = NULL
          PROVE  lo2[s] = Keys /\ hi2[s] = {}
        <3>1. parent[s] = NULL
            BY <1>0, <1>7, <2>1, <2>3
        <3>2. s # left /\ s # right
            BY <1>0, <1>2, <1>7, <3>1
        <3>3. QED
            BY <1>0, <1>4, <1>6, <2>1, <3>1, <3>2
    <2>4. QED
        BY <1>0, <2>2, <2>3
<1>11. OwnedBy(owner)'
    <2>1. \A q \in Maps : root'[q] # NULL => owner[root'[q]] = q
        BY <1>0, <1>1 DEF RootsOwned
    <2>2. ASSUME NEW s \in live', parent'[s] # NULL
          PROVE  owner[s] = owner[parent'[s]]
        <3>1. s \in Slots
            BY <1>0, <1>1
        <3>2. CASE parent'[s] = parent[s]
            BY <1>0, <1>1, <2>2, <3>1, <3>2, ParentOf
        <3>3. CASE parent[s] \in {left, right} /\ parent'[s] \in {left, right}
            <4>1. owner[s] = owner[parent[s]]
                BY <1>0, <1>1, <1>7, <3>1, <3>3, ParentOf
            <4>2. QED
                BY <1>0, <1>2, <3>3, <4>1
        <3>4. QED
            BY <1>0, <3>1, <3>2, <3>3
    <2>3. QED
        BY <1>0, <1>3, <2>1, <2>2 DEF OwnedBy
<1>12. LinksOrdered(owner, lo2, hi2)' /\ NoStrayLinks'
    <2>1. CASE level[left] # 0
        <3>1. \A s \in live : level[s] = 0 => lo2[s] = lo[s] /\ hi2[s] = hi[s]
            BY <1>0, <1>1, <1>2, <1>6, <2>1
        <3>2. SameLeaves(owner, lo, hi, owner, lo2, hi2)
            BY <1>0, <1>1, <3>1 DEF SameLeaves
        <3>3. QED
            BY <1>0, <3>2, LinksKept
    <2>2. CASE level[left] = 0
        <3>1. next[left] = right /\ prev[right] = left
            BY <1>0, <1>2, <2>2
        <3>2. Up(k) # {} /\ Up(k) # Keys
            <4>1. k \in Up(k) /\ \A x \in Keys : x \in Up(k) <=> k <= x
                BY <1>0, UpIs, KeysAssumption
            <4>2. PICK x \in lo[left] : x < k
                BY <1>0 DEF Above
            <4>3. x \in Keys /\ x \in Int /\ k \in Int
                BY <1>0, <1>1, <1>2, <4>2, CutIs, KeysAssumption
            <4>4. QED
                BY <1>0, <4>1, <4>2, <4>3
        <3>3. ASSUME NEW s \in live, level[s] = 0
              PROVE  /\ next[s] = NULL <=> hi2[s] = {}
                     /\ next[s] # NULL => /\ next[s] \in live /\ level[next[s]] = 0
                                          /\ prev[next[s]] = s
                                          /\ lo2[next[s]] = hi2[s]
                                          /\ owner[next[s]] = owner[s]
                     /\ prev[s] = NULL <=> lo2[s] = Keys
                     /\ prev[s] # NULL => /\ prev[s] \in live /\ level[prev[s]] = 0
                                          /\ next[prev[s]] = s
            <4>1. s \in Slots
                BY <1>0, <1>1
            <4>2. /\ next[s] = NULL <=> hi[s] = {}
                  /\ next[s] # NULL => /\ next[s] \in live /\ level[next[s]] = 0
                                       /\ prev[next[s]] = s
                                       /\ lo[next[s]] = hi[s]
                                       /\ owner[next[s]] = owner[s]
                  /\ prev[s] = NULL <=> lo[s] = Keys
                  /\ prev[s] # NULL => /\ prev[s] \in live /\ level[prev[s]] = 0
                                       /\ next[prev[s]] = s
                BY <1>0, <1>1, <3>3 DEF LinksOrdered
            <4>3. next[s] = NULL <=> hi2[s] = {}
                BY <1>0, <1>6, <1>7, <3>1, <3>2, <4>1, <4>2
            <4>4. prev[s] = NULL <=> lo2[s] = Keys
                BY <1>0, <1>6, <1>7, <3>1, <3>2, <4>1, <4>2
            <4>5. next[s] # NULL => lo2[next[s]] = hi2[s]
                <5>1. CASE s = left
                    BY <1>0, <1>2, <1>6, <3>1, <5>1
                <5>2. CASE s # left
                    BY <1>0, <1>1, <1>6, <3>1, <4>1, <4>2, <5>2
                <5>3. QED
                    BY <1>0, <5>1, <5>2
            <4>6. QED
                BY <1>0, <4>2, <4>3, <4>4, <4>5
        <3>4. LinksOrdered(owner, lo2, hi2)'
            BY <1>0, <3>3 DEF LinksOrdered
        <3>5. QED
            BY <1>0, <1>1, <3>4 DEF NoStrayLinks
    <2>3. QED
        BY <1>0, <2>1, <2>2
<1>13. EntriesCounted(owner)'
    <2>1. \A s \in Slots : s # left /\ s # right => LeafKeys(s)' = LeafKeys(s)
        BY <1>0, <1>2 DEF LeafKeys
    <2>2. PICK m \in Maps : m = owner[p]
        BY <1>0, <1>1, <1>2
    <2>3. ASSUME NEW q \in Maps
          PROVE  KeysOf(owner, q)' = KeysOf(owner, q)
        <3>1. CASE q = m
            BY ONLY <1>0, <1>2, <2>1, <2>2, <3>1 DEF KeysOf
        <3>2. CASE q # m
            BY ONLY <1>2, <2>1, <2>2, <3>2 DEF KeysOf
        <3>3. QED
            BY <1>0, <3>1, <3>2
    <2>4. QED
        BY <1>0, <1>1, <1>3, <2>3, CalmCount
<1>14. live' \subseteq Slots
    BY <1>0, <1>1
<1>15. QED
    BY <1>0, <1>1, <1>3, <1>6, <1>10, <1>11, <1>12, <1>13, <1>14, CalmGiven

\* The last entry of the left one of two leaves moves over.
LeafBetween(n, ks, L, H) ==
    /\ n \in Nat /\ ks \in Seq(Keys) /\ Len(ks) = n
    /\ L \in Cuts /\ H \in Cuts /\ LeafOrdered(ks, L, H)

LEMMA LeafLastMoves ==
    ASSUME NEW s \in Keys, NEW a, NEW ks, NEW L, LeafBetween(a, ks, L, Up(s)), a >= 2,
           NEW b, NEW xs, NEW G, LeafBetween(b, xs, Up(s), G), s \notin G,
           NEW k, k = Last(ks)
    PROVE  /\ k \in Keys /\ Above(L, k) /\ k \notin G
           /\ LeafOrdered(Front(ks), L, Up(k))
           /\ LeafOrdered(InsertAt(xs, 1, k), Up(k), G)
           /\ ToSet(Front(ks)) \cup ToSet(InsertAt(xs, 1, k)) = ToSet(ks) \cup ToSet(xs)
<1>1. /\ a \in Nat \ {0} /\ ks \in Seq(Keys) /\ Len(ks) = a /\ LeafOrdered(ks, L, Up(s))
      /\ b \in Nat /\ xs \in Seq(Keys) /\ Len(xs) = b /\ LeafOrdered(xs, Up(s), G) /\ G \in Cuts
    BY DEF LeafBetween
<1>2. DOMAIN ks = 1 .. a /\ DOMAIN xs = 1 .. b /\ k = ks[a] /\ k \in Keys /\ a \in 2 .. a
    BY <1>1, FrontSeq
<1>3. /\ LeafOrdered(SubSeq(ks, 1, a - 1), L, Up(ks[a])) /\ Above(L, ks[a]) /\ ks[a] \notin Up(s)
    BY <1>1, <1>2, LeafHalvesOrdered
<1>4. Front(ks) = SubSeq(ks, 1, a - 1)
    BY <1>1 DEF Front
<1>5. k \in Int /\ s \in Int /\ k < s
    <2>1. k \in Int /\ s \in Int
        BY <1>2, KeysAssumption
    <2>2. ~(s <= k)
        BY <1>2, <1>3, UpIs
    <2>3. QED
        BY <2>1, <2>2
<1>6. k \notin G
    <2>1. \A y \in G : \A z \in Keys : y <= z => z \in G
        BY <1>1, CutIs
    <2>2. QED
        BY <1>5, <2>1
<1>7. \A i \in 1 .. b : xs[i] \in Keys /\ xs[i] \in Int /\ k < xs[i]
    <2>1. ASSUME NEW i \in 1 .. b
          PROVE  xs[i] \in Keys /\ xs[i] \in Int /\ k < xs[i]
        <3>1. xs[i] \in Keys /\ xs[i] \in Up(s)
            BY <1>1, <1>2 DEF LeafOrdered
        <3>2. s <= xs[i] /\ xs[i] \in Int
            BY <3>1, UpIs, KeysAssumption
        <3>3. QED
            BY <1>5, <3>1, <3>2
    <2>2. QED
        BY <2>1
<1>8. k \in Up(k) /\ \A x \in Keys : x \in Up(k) <=> k <= x
    BY <1>2, <1>5, UpIs
<1>9. LeafOrdered(xs, Up(k), G)
    <2>1. \A i \in 1 .. b : xs[i] \in Up(k)
        BY <1>5, <1>7, <1>8
    <2>2. QED
        BY <1>1, <1>2, <2>1 DEF LeafOrdered
<1>10. LeafOrdered(InsertAt(xs, 1, k), Up(k), G)
    <2>1. 1 \in 1 .. b + 1 /\ \A i \in 1 .. b : IF i < 1 THEN xs[i] < k ELSE k < xs[i]
        BY <1>1, <1>7
    <2>2. QED
        BY <1>1, <1>2, <1>6, <1>8, <1>9, <2>1, LeafInsert
<1>11. ToSet(InsertAt(xs, 1, k)) = ToSet(xs) \cup {k}
    <2>1. 1 \in 1 .. b + 1
        BY <1>1
    <2>2. QED
        BY <1>1, <1>2, <2>1, InsertedSet
<1>12. ToSet(Front(ks)) = ToSet(ks) \ {k} /\ k \in ToSet(ks)
    <2>1. Front(ks) = RemoveAt(ks, a)
        BY <1>1, FrontIsRemoval
    <2>2. ToSet(RemoveAt(ks, a)) = ToSet(ks) \ {ks[a]}
        BY <1>1, <1>2, LeafRemove
    <2>3. k \in ToSet(ks)
        BY <1>1, <1>2, SetOf
    <2>4. QED
        BY <1>2, <2>1, <2>2, <2>3
<1>13. LeafOrdered(Front(ks), L, Up(k)) /\ Above(L, k)
    BY <1>2, <1>3, <1>4
<1>14. QED
    BY <1>2, <1>6, <1>10, <1>11, <1>12, <1>13

\* The first entry of the right one moves over; its second becomes the separator.
LEMMA LeafFirstMoves ==
    ASSUME NEW s \in Keys, NEW a, NEW ks, NEW H, LeafBetween(a, ks, Up(s), H), a >= 2,
           NEW b, NEW xs, NEW L, LeafBetween(b, xs, L, Up(s)), Above(L, s),
           NEW k, k = ks[2]
    PROVE  /\ k \in Keys /\ Above(L, k) /\ k \notin H
           /\ LeafOrdered(Append(xs, ks[1]), L, Up(k))
           /\ LeafOrdered(Tail(ks), Up(k), H)
           /\ ToSet(Append(xs, ks[1])) \cup ToSet(Tail(ks)) = ToSet(xs) \cup ToSet(ks)
<1>1. /\ a \in Nat \ {0} /\ ks \in Seq(Keys) /\ Len(ks) = a /\ LeafOrdered(ks, Up(s), H)
      /\ b \in Nat /\ xs \in Seq(Keys) /\ Len(xs) = b /\ LeafOrdered(xs, L, Up(s)) /\ L \in Cuts
    BY DEF LeafBetween
<1>2. /\ DOMAIN ks = 1 .. a /\ DOMAIN xs = 1 .. b /\ 1 \in 1 .. a /\ 2 \in 1 .. a /\ 2 \in 2 .. a
      /\ k \in Keys /\ ks[1] \in Keys
    BY <1>1
<1>3. PICK e : e = ks[1]
    OBVIOUS
<1>4. /\ e \in Keys /\ e \in Int /\ k \in Int /\ s \in Int /\ s <= e /\ e < k /\ k \notin H
    <2>1. e \in Int /\ k \in Int /\ s \in Int
        BY <1>2, <1>3, KeysAssumption
    <2>2. e \in Up(s) /\ e < k /\ k \notin H
        BY <1>1, <1>2, <1>3 DEF LeafOrdered
    <2>3. QED
        BY <1>2, <1>3, <2>1, <2>2, UpIs
<1>5. e \in L /\ Above(L, k)
    <2>1. Above(L, e) /\ Above(L, k)
        <3>1. \A y \in Keys : s <= y => Above(L, y)
            BY <1>1, AboveIs
        <3>2. QED
            BY <1>2, <1>4, <3>1
    <2>2. QED
        BY <1>1, <1>4, <2>1, AboveIs
<1>6. \A x \in Keys : x \in Up(k) <=> k <= x
    BY <1>2, UpIs
<1>7. \A i \in 1 .. b : xs[i] \in Keys /\ xs[i] \in Int /\ xs[i] < e /\ xs[i] \notin Up(k)
    <2>1. ASSUME NEW i \in 1 .. b
          PROVE  xs[i] \in Keys /\ xs[i] \in Int /\ xs[i] < e /\ xs[i] \notin Up(k)
        <3>1. xs[i] \in Keys /\ xs[i] \notin Up(s)
            BY <1>1, <1>2 DEF LeafOrdered
        <3>2. ~(s <= xs[i]) /\ xs[i] \in Int
            BY <3>1, UpIs, KeysAssumption
        <3>3. QED
            BY <1>4, <1>6, <3>1, <3>2
    <2>2. QED
        BY <2>1
<1>8. LeafOrdered(xs, L, Up(k))
    BY <1>1, <1>2, <1>7 DEF LeafOrdered
<1>9. PICK j \in 1 .. b + 1 : j = b + 1 /\ \A i \in 1 .. b : i < j
    BY <1>1
<1>10. Append(xs, e) = InsertAt(xs, j, e)
    BY <1>1, <1>4, <1>9, AppendIsInsertion
<1>11. LeafOrdered(Append(xs, e), L, Up(k))
    <2>1. e \notin Up(k)
        BY <1>4, <1>6
    <2>2. \A i \in 1 .. b : IF i < j THEN xs[i] < e ELSE e < xs[i]
        BY <1>7, <1>9
    <2>3. QED
        BY <1>1, <1>4, <1>5, <1>8, <1>10, <2>1, <2>2, LeafInsert
<1>12. ToSet(Append(xs, e)) = ToSet(xs) \cup {e}
    BY <1>1, <1>4, <1>10, InsertedSet
<1>13. ToSet(Tail(ks)) = ToSet(ks) \ {e} /\ e \in ToSet(ks)
    <2>1. Tail(ks) = RemoveAt(ks, 1)
        BY <1>1, TailIsRemoval
    <2>2. ToSet(RemoveAt(ks, 1)) = ToSet(ks) \ {ks[1]}
        BY <1>1, <1>2, LeafRemove
    <2>3. e \in ToSet(ks)
        BY <1>1, <1>2, <1>3, SetOf
    <2>4. QED
        BY <1>3, <2>1, <2>2, <2>3
<1>14. LeafOrdered(Tail(ks), Up(k), H)
    <2>1. LeafOrdered(SubSeq(ks, 2, a), Up(ks[2]), H)
        BY <1>1, <1>2, LeafHalvesOrdered
    <2>2. Tail(ks) = SubSeq(ks, 2, a)
        <3>1. Tail(ks) = [i \in 1 .. a - 1 |-> ks[i + 1]]
            BY <1>1, TailDef
        <3>2. SubSeq(ks, 2, a) = [i \in 1 .. a - 2 + 1 |-> ks[2 + i - 1]]
            BY <1>1, <1>2
        <3>3. a - 2 + 1 = a - 1 /\ \A i \in 1 .. a - 1 : 2 + i - 1 = i + 1
            BY <1>1
        <3>4. QED
            BY <3>1, <3>2, <3>3
    <2>3. QED
        BY <2>1, <2>2
<1>15. QED
    BY <1>2, <1>3, <1>4, <1>5, <1>11, <1>12, <1>13, <1>14

\* The last edge of the left one of two internal nodes moves over.
LEMMA EdgeLastMoves ==
    ASSUME NEW lo, NEW hi, NEW s \in Keys,
           NEW a, NEW ks, NEW es, NEW L, Divided(a, ks, es, L, Up(s), lo, hi), a >= 2,
           NEW b, NEW xs, NEW fs, NEW H, Divided(b, xs, fs, Up(s), H, lo, hi), s \notin H,
           NEW k, k = Last(ks), NEW e, e = Last(es)
    PROVE  /\ k \in Keys /\ Above(L, k) /\ k \notin H
           /\ Divides(Front(ks), Front(es), L, Up(k), lo, hi)
           /\ Divides(InsertAt(xs, 1, s), InsertAt(fs, 1, e), Up(k), H, lo, hi)
<1>1. /\ a \in Nat \ {0} /\ a + 1 \in Nat \ {0} /\ ks \in Seq(Keys) /\ Len(ks) = a
      /\ es \in Seq(Slots) /\ Len(es) = a + 1 /\ lo \in [Slots -> Cuts]
      /\ Divides(ks, es, L, Up(s), lo, hi)
    BY DEF Divided
<1>2. /\ DOMAIN ks = 1 .. a /\ a \in 1 .. a /\ k = ks[a] /\ k \in Keys
      /\ e = es[a + 1] /\ e \in Slots
    BY <1>1, FrontSeq
<1>3. Above(L, k) /\ k \notin Up(s)
    BY <1>2, DividesSpan
<1>4. k \in Int /\ s \in Int /\ k < s
    <2>1. k \in Int /\ s \in Int
        BY <1>2, KeysAssumption
    <2>2. ~(s <= k)
        BY <1>2, <1>3, UpIs
    <2>3. QED
        BY <2>1, <2>2
<1>5. k \notin H
    <2>1. \A y \in H : \A z \in Keys : y <= z => z \in H
        BY CutIs DEF Divided
    <2>2. QED
        BY <1>4, <2>1
<1>6. Divides(SubSeq(ks, 1, a - 1), SubSeq(es, 1, a), L, Up(ks[a]), lo, hi)
    BY <1>2, DividesHalves
<1>7. Front(ks) = SubSeq(ks, 1, a - 1) /\ Front(es) = SubSeq(es, 1, a)
    <2>1. Len(es) - 1 = a
        BY <1>1
    <2>2. QED
        BY <1>1, <2>1 DEF Front
<1>8. hi[e] = Up(s) /\ lo[e] = Up(k)
    BY <1>1, <1>2 DEF Divides, Separates
<1>9. Above(lo[e], s)
    BY <1>2, <1>4, <1>8, UpIs
<1>10. Divides(InsertAt(xs, 1, s), InsertAt(fs, 1, e), lo[e], H, lo, hi)
    BY <1>2, <1>8, <1>9, DividesAddFirst
<1>11. QED
    BY <1>2, <1>3, <1>5, <1>6, <1>7, <1>8, <1>10

\* The first edge of the right one moves over.
LEMMA EdgeFirstMoves ==
    ASSUME NEW lo, NEW hi, NEW s \in Keys,
           NEW a, NEW ks, NEW es, NEW H, Divided(a, ks, es, Up(s), H, lo, hi), a >= 2,
           NEW b, NEW xs, NEW fs, NEW L, Divided(b, xs, fs, L, Up(s), lo, hi), Above(L, s),
           NEW k, k = Head(ks), NEW e, e = Head(es)
    PROVE  /\ k \in Keys /\ Above(L, k) /\ k \notin H
           /\ Divides(Append(xs, s), Append(fs, e), L, Up(k), lo, hi)
           /\ Divides(Tail(ks), Tail(es), Up(k), H, lo, hi)
<1>1. /\ a \in Nat \ {0} /\ a + 1 \in Nat \ {0} /\ ks \in Seq(Keys) /\ Len(ks) = a
      /\ es \in Seq(Slots) /\ Len(es) = a + 1 /\ L \in Cuts
      /\ Divides(ks, es, Up(s), H, lo, hi)
    BY DEF Divided
<1>2. /\ DOMAIN ks = 1 .. a /\ 1 \in 1 .. a /\ k = ks[1] /\ k \in Keys
      /\ e = es[1] /\ e \in Slots
    BY <1>1, TailSeq
<1>3. Above(Up(s), k) /\ k \notin H
    <2>1. \A i \in 1 .. a : Above(Up(s), ks[i]) /\ ks[i] \notin H
        BY DividesSpan
    <2>2. QED
        BY <1>2, <2>1
<1>4. k \in Int /\ s \in Int /\ s < k
    BY <1>2, <1>3, UpIs, KeysAssumption
<1>5. Above(L, k)
    <2>1. \A y \in Keys : s <= y => Above(L, y)
        BY <1>1, AboveIs
    <2>2. QED
        BY <1>2, <1>4, <2>1
<1>6. Divides(SubSeq(ks, 2, a), SubSeq(es, 2, a + 1), Up(k), H, lo, hi)
    <2>1. Divides(SubSeq(ks, 1 + 1, a), SubSeq(es, 1 + 1, a + 1), Up(ks[1]), H, lo, hi)
        BY <1>2, DividesHalves
    <2>2. 1 + 1 = 2
        OBVIOUS
    <2>3. QED
        BY <1>2, <2>1, <2>2
<1>7. Tail(ks) = SubSeq(ks, 2, a) /\ Tail(es) = SubSeq(es, 2, a + 1)
    <2>1. ASSUME NEW S, NEW q \in Seq(S), NEW c \in Nat \ {0}, Len(q) = c
          PROVE  Tail(q) = SubSeq(q, 2, c)
        <3>1. Tail(q) = [i \in 1 .. c - 1 |-> q[i + 1]]
            BY <2>1, TailDef
        <3>2. SubSeq(q, 2, c) = [i \in 1 .. c - 2 + 1 |-> q[2 + i - 1]]
            BY <2>1
        <3>3. c - 2 + 1 = c - 1 /\ \A i \in 1 .. c - 1 : 2 + i - 1 = i + 1
            OBVIOUS
        <3>4. QED
            BY <3>1, <3>2, <3>3
    <2>2. QED
        BY <1>1, <2>1
<1>8. lo[e] = Up(s) /\ hi[e] = Up(k)
    BY <1>1, <1>2 DEF Divides, Separates
<1>9. s \notin hi[e]
    <2>1. s \in Up(k) <=> k <= s
        BY <1>2, UpIs
    <2>2. QED
        BY <1>4, <1>8, <2>1
<1>10. Divides(Append(xs, s), Append(fs, e), L, hi[e], lo, hi)
    BY <1>2, <1>8, <1>9, DividesAddLast
<1>11. QED
    BY <1>2, <1>3, <1>5, <1>6, <1>7, <1>8, <1>10

\* The node of post_removal's loop and the sibling before it, or after it
LEMMA PrevSiblings ==
    ASSUME NEW owner, NEW lo, NEW hi, OrderState(owner, lo, hi),
           op.pc = "underflow", parent[op.node] # NULL, HasPrev
    PROVE  \E n, i \in Nat :
              /\ parent_idx[op.node] = i
              /\ Siblings(owner, lo, hi, parent[op.node], n, i, PrevSibling, op.node)
<1>1. /\ Local /\ Wiring(owner) /\ OpOwned(owner)
      /\ Forest(live, level, parent, parent_idx, edges, owner)
    BY DEF OrderState, Wiring
<1>2. PICK n \in Nat, i \in Nat :
         /\ i >= 1 /\ i <= n
         /\ op.node \in live /\ op.node \in Slots
         /\ parent[op.node] \in live /\ level[parent[op.node]] # 0
         /\ parent_idx[op.node] = i
         /\ Len(keys[parent[op.node]]) = n
         /\ PrevSibling = edges[parent[op.node]][i]
         /\ level[PrevSibling] = level[op.node]
    BY <1>1, PrevData
<1>3. edges[parent[op.node]][i + 1] = op.node
    BY <1>1, <1>2 DEF Forest
<1>4. op.is_leaf <=> level[PrevSibling] = 0
    BY <1>1, <1>2, UnderflowData
<1>5. PICK j \in 1 .. n : j = i
    BY <1>2
<1>6. PICK p, left, right : p = parent[op.node] /\ left = PrevSibling /\ right = op.node
    OBVIOUS
<1>7. Siblings(owner, lo, hi, p, n, j, left, right)
    BY <1>2, <1>3, <1>4, <1>5, <1>6, SiblingsInOrder
<1>8. QED
    BY <1>2, <1>5, <1>6, <1>7

LEMMA NextSiblings ==
    ASSUME NEW owner, NEW lo, NEW hi, OrderState(owner, lo, hi),
           op.pc = "underflow", parent[op.node] # NULL, HasNext
    PROVE  \E n, i \in Nat :
              /\ parent_idx[op.node] = i
              /\ Siblings(owner, lo, hi, parent[op.node], n, i + 1, op.node, NextSibling)
<1>1. /\ Local /\ Wiring(owner) /\ OpOwned(owner)
      /\ Forest(live, level, parent, parent_idx, edges, owner)
    BY DEF OrderState, Wiring
<1>2. PICK n \in Nat, i \in Nat :
         /\ i + 1 <= n
         /\ op.node \in live /\ op.node \in Slots
         /\ parent[op.node] \in live /\ level[parent[op.node]] # 0
         /\ parent_idx[op.node] = i
         /\ Len(keys[parent[op.node]]) = n
         /\ NextSibling = edges[parent[op.node]][i + 2]
    BY <1>1, NextData
<1>3. edges[parent[op.node]][i + 1] = op.node
    BY <1>1, <1>2 DEF Forest
<1>4. op.is_leaf <=> level[op.node] = 0
    BY <1>1, UnderflowData
<1>5. PICK j \in 1 .. n : j = i + 1 /\ j + 1 = i + 2
    BY <1>2
<1>6. PICK p, left, right : p = parent[op.node] /\ left = op.node /\ right = NextSibling
    OBVIOUS
<1>7. Siblings(owner, lo, hi, p, n, j, left, right)
    BY <1>2, <1>3, <1>4, <1>5, <1>6, SiblingsInOrder
<1>8. QED
    BY <1>2, <1>5, <1>6, <1>7

\* What the two hold, on either side of their separator
LEMMA LeafPair ==
    ASSUME NEW owner, NEW lo, NEW hi, OrderState(owner, lo, hi),
           NEW p, NEW n, NEW j, NEW left, NEW right,
           Siblings(owner, lo, hi, p, n, j, left, right), level[left] = 0
    PROVE  \E s \in Keys, a, b \in Nat :
              /\ s = keys[p][j] /\ s \notin hi[right] /\ Above(lo[left], s)
              /\ Len(keys[left]) = a /\ Len(keys[right]) = b
              /\ LeafBetween(a, keys[left], lo[left], Up(s))
              /\ LeafBetween(b, keys[right], Up(s), hi[right])
              /\ edges[left] = <<>> /\ edges[right] = <<>>
<1>1. /\ left \in live /\ right \in live /\ level[right] = 0
      /\ keys[p][j] \in Keys /\ Separates(keys[p][j], left, right, lo, hi)
    BY DEF Siblings
<1>2. PICK s \in Keys : s = keys[p][j]
    BY <1>1
<1>3. hi[left] = Up(s) /\ lo[right] = Up(s) /\ s \notin hi[right] /\ Above(lo[left], s)
    BY <1>1, <1>2 DEF Separates
<1>4. PICK a \in Nat : /\ Len(keys[left]) = a /\ keys[left] \in Seq(Keys) /\ lo[left] \in Cuts
                       /\ hi[left] \in Cuts
                       /\ LeafOrdered(keys[left], lo[left], hi[left]) /\ edges[left] = <<>>
    BY <1>1, NodeInOrder
<1>5. PICK b \in Nat : /\ Len(keys[right]) = b /\ keys[right] \in Seq(Keys) /\ lo[right] \in Cuts
                       /\ hi[right] \in Cuts
                       /\ LeafOrdered(keys[right], lo[right], hi[right]) /\ edges[right] = <<>>
    BY <1>1, NodeInOrder
<1>6. LeafBetween(a, keys[left], lo[left], Up(s)) /\ LeafBetween(b, keys[right], Up(s), hi[right])
    BY <1>3, <1>4, <1>5 DEF LeafBetween
<1>7. QED
    BY <1>2, <1>3, <1>4, <1>5, <1>6

LEMMA InternalPair ==
    ASSUME NEW owner, NEW lo, NEW hi, OrderState(owner, lo, hi), op.pc # "overflow",
           NEW p, NEW n, NEW j, NEW left, NEW right,
           Siblings(owner, lo, hi, p, n, j, left, right), level[left] # 0
    PROVE  \E s \in Keys, a, b \in Nat :
              /\ s = keys[p][j] /\ s \notin hi[right] /\ Above(lo[left], s)
              /\ Len(keys[left]) = a /\ Len(keys[right]) = b
              /\ Divided(a, keys[left], edges[left], lo[left], Up(s), lo, hi)
              /\ Divided(b, keys[right], edges[right], Up(s), hi[right], lo, hi)
<1>1. /\ left \in live /\ right \in live /\ level[right] # 0
      /\ keys[p][j] \in Keys /\ Separates(keys[p][j], left, right, lo, hi)
    BY DEF Siblings
<1>2. PICK s \in Keys : s = keys[p][j]
    BY <1>1
<1>3. hi[left] = Up(s) /\ lo[right] = Up(s) /\ s \notin hi[right] /\ Above(lo[left], s)
    BY <1>1, <1>2 DEF Separates
<1>4. Far(hi) = hi
    BY CalmState
<1>5. PICK a \in Nat : /\ Len(keys[left]) = a
                       /\ Divided(a, keys[left], edges[left], lo[left], hi[left], lo, Far(hi))
    BY <1>1, NodeInOrder
<1>6. PICK b \in Nat : /\ Len(keys[right]) = b
                       /\ Divided(b, keys[right], edges[right], lo[right], hi[right], lo, Far(hi))
    BY <1>1, NodeInOrder
<1>7. /\ Divided(a, keys[left], edges[left], lo[left], Up(s), lo, hi)
      /\ Divided(b, keys[right], edges[right], Up(s), hi[right], lo, hi)
    BY <1>3, <1>4, <1>5, <1>6
<1>8. QED
    BY <1>2, <1>3, <1>5, <1>6, <1>7

LEMMA BorrowPrevLeafOrder ==
    ASSUME IInv, Ordered, BorrowPrevLeaf
    PROVE  Ordered'
<1>1. PICK owner, lo, hi : OrderState(owner, lo, hi)
    BY OrderFound
<1>2. IInv'
    BY BorrowPrevLeafInv
<1>3. PICK node, p, from : node = op.node /\ p = parent[op.node] /\ from = PrevSibling
    OBVIOUS
<1>4. /\ op.pc = "underflow" /\ op.is_leaf = TRUE /\ p # NULL /\ HasPrev
      /\ CanLend(Len(keys[from])) /\ op' = Idle
      /\ keys' = [keys EXCEPT ![from] = Front(@),
                              ![node] = InsertAt(@, 1, Last(keys[from])),
                              ![p][parent_idx[node]] = Last(keys[from])]
      /\ live' = live /\ level' = level /\ root' = root /\ length' = length
      /\ prev' = prev /\ next' = next /\ parent' = parent /\ edges' = edges
    BY <1>3 DEF BorrowPrevLeaf, Underflowing, AtRoot, PrevLends, mapVars
<1>5. PICK n, i \in Nat : parent_idx[node] = i /\ Siblings(owner, lo, hi, p, n, i, from, node)
    BY <1>1, <1>3, <1>4, PrevSiblings
<1>6. /\ from \in live /\ from \in Slots /\ node \in Slots /\ p \in Slots /\ from # node /\ from # p
      /\ node # p /\ level[from] = 0 /\ level[node] = 0
    <2>1. level[node] = 0
        BY <1>1, <1>3, <1>4, UnderflowData DEF OrderState
    <2>2. QED
        BY <1>5, <2>1 DEF Siblings
<1>7. PICK s \in Keys, a, b \in Nat :
         /\ s \notin hi[node] /\ Len(keys[from]) = a
         /\ LeafBetween(a, keys[from], lo[from], Up(s))
         /\ LeafBetween(b, keys[node], Up(s), hi[node])
         /\ edges[from] = <<>> /\ edges[node] = <<>>
    BY <1>1, <1>5, <1>6, LeafPair
<1>8. PICK k : k = Last(keys[from])
    OBVIOUS
<1>9. a >= 2
    BY <1>4, <1>7, LendingLengths
<1>10. /\ k \in Keys /\ Above(lo[from], k) /\ k \notin hi[node]
       /\ LeafOrdered(Front(keys[from]), lo[from], Up(k))
       /\ LeafOrdered(InsertAt(keys[node], 1, k), Up(k), hi[node])
       /\ ToSet(Front(keys[from])) \cup ToSet(InsertAt(keys[node], 1, k))
            = ToSet(keys[from]) \cup ToSet(keys[node])
    BY <1>7, <1>8, <1>9, LeafLastMoves
<1>11. /\ keys'[from] = Front(keys[from]) /\ keys'[node] = InsertAt(keys[node], 1, k)
       /\ keys'[p] = [keys[p] EXCEPT ![i] = k]
       /\ \A t \in Slots \ {from, node, p} : keys'[t] = keys[t]
    <2>1. DOMAIN keys = Slots
        BY <1>1 DEF OrderState, Local, DataTypes
    <2>2. QED
        BY <1>4, <1>5, <1>6, <1>8, <2>1
<1>12. /\ NodeOrdered(level[from], keys'[from], edges'[from], lo[from], Up(k), lo, hi)
       /\ NodeOrdered(level[node], keys'[node], edges'[node], Up(k), hi[node], lo, hi)
    BY <1>6, <1>10, <1>11 DEF NodeOrdered
<1>13. LeafKeys(from)' \cup LeafKeys(node)' = LeafKeys(from) \cup LeafKeys(node)
    BY <1>4, <1>6, <1>10, <1>11 DEF LeafKeys
<1>14. /\ edges'[p] = edges[p]
       /\ \A t \in Slots \ {from, node, p} : keys'[t] = keys[t] /\ edges'[t] = edges[t]
       /\ \A t \in Slots : \/ parent'[t] = parent[t]
                           \/ parent[t] \in {from, node} /\ parent'[t] \in {from, node}
    BY <1>4, <1>11
<1>15. EntryMoved(lo, hi, p, i, from, node, k)
    BY <1>4, <1>10, <1>11, <1>12, <1>13, <1>14 DEF EntryMoved
<1>16. QED
    BY <1>1, <1>2, <1>4, <1>5, <1>15, BorrowOrder

LEMMA BorrowNextLeafOrder ==
    ASSUME IInv, Ordered, BorrowNextLeaf
    PROVE  Ordered'
<1>1. PICK owner, lo, hi : OrderState(owner, lo, hi)
    BY OrderFound
<1>2. IInv'
    BY BorrowNextLeafInv
<1>3. PICK node, p, from : node = op.node /\ p = parent[op.node] /\ from = NextSibling
    OBVIOUS
<1>4. /\ op.pc = "underflow" /\ op.is_leaf = TRUE /\ p # NULL /\ HasNext
      /\ CanLend(Len(keys[from])) /\ op' = Idle
      /\ keys' = [keys EXCEPT ![p][parent_idx[node] + 1] = keys[from][2],
                              ![from] = Tail(@),
                              ![node] = Append(@, keys[from][1])]
      /\ live' = live /\ level' = level /\ root' = root /\ length' = length
      /\ prev' = prev /\ next' = next /\ parent' = parent /\ edges' = edges
    BY <1>3 DEF BorrowNextLeaf, Underflowing, AtRoot, NextLends, mapVars
<1>5. PICK n, i \in Nat : /\ parent_idx[node] = i
                          /\ Siblings(owner, lo, hi, p, n, i + 1, node, from)
    BY <1>1, <1>3, <1>4, NextSiblings
<1>6. /\ from \in live /\ from \in Slots /\ node \in Slots /\ p \in Slots /\ from # node /\ from # p
      /\ node # p /\ level[from] = 0 /\ level[node] = 0
    <2>1. level[node] = 0
        BY <1>1, <1>3, <1>4, UnderflowData DEF OrderState
    <2>2. QED
        BY <1>5, <2>1 DEF Siblings
<1>7. PICK s \in Keys, b, a \in Nat :
         /\ Above(lo[node], s) /\ Len(keys[from]) = a
         /\ LeafBetween(b, keys[node], lo[node], Up(s))
         /\ LeafBetween(a, keys[from], Up(s), hi[from])
    <2>1. PICK j : j = i + 1
        OBVIOUS
    <2>2. Siblings(owner, lo, hi, p, n, j, node, from)
        BY <1>5, <2>1
    <2>3. QED
        BY <1>1, <1>6, <2>2, LeafPair
<1>8. PICK k : k = keys[from][2]
    OBVIOUS
<1>9. a >= 2
    BY <1>4, <1>7, LendingLengths
<1>10. /\ k \in Keys /\ Above(lo[node], k) /\ k \notin hi[from]
       /\ LeafOrdered(Append(keys[node], keys[from][1]), lo[node], Up(k))
       /\ LeafOrdered(Tail(keys[from]), Up(k), hi[from])
       /\ ToSet(Append(keys[node], keys[from][1])) \cup ToSet(Tail(keys[from]))
            = ToSet(keys[node]) \cup ToSet(keys[from])
    BY <1>7, <1>8, <1>9, LeafFirstMoves
<1>11. /\ keys'[from] = Tail(keys[from]) /\ keys'[node] = Append(keys[node], keys[from][1])
       /\ keys'[p] = [keys[p] EXCEPT ![i + 1] = k]
       /\ \A t \in Slots \ {from, node, p} : keys'[t] = keys[t]
    <2>1. DOMAIN keys = Slots
        BY <1>1 DEF OrderState, Local, DataTypes
    <2>2. QED
        BY <1>4, <1>5, <1>6, <1>8, <2>1
<1>12. /\ NodeOrdered(level[node], keys'[node], edges'[node], lo[node], Up(k), lo, hi)
       /\ NodeOrdered(level[from], keys'[from], edges'[from], Up(k), hi[from], lo, hi)
    BY <1>6, <1>10, <1>11 DEF NodeOrdered
<1>13. LeafKeys(node)' \cup LeafKeys(from)' = LeafKeys(node) \cup LeafKeys(from)
    BY <1>4, <1>6, <1>10, <1>11 DEF LeafKeys
<1>14. /\ edges'[p] = edges[p]
       /\ \A t \in Slots \ {node, from, p} : keys'[t] = keys[t] /\ edges'[t] = edges[t]
       /\ \A t \in Slots : \/ parent'[t] = parent[t]
                           \/ parent[t] \in {node, from} /\ parent'[t] \in {node, from}
    BY <1>4, <1>11
<1>15. EntryMoved(lo, hi, p, i + 1, node, from, k)
    BY <1>4, <1>10, <1>11, <1>12, <1>13, <1>14 DEF EntryMoved
<1>16. QED
    BY <1>1, <1>2, <1>4, <1>5, <1>15, BorrowOrder

LEMMA BorrowPrevInternalOrder ==
    ASSUME IInv, Ordered, BorrowPrevInternal
    PROVE  Ordered'
<1>1. PICK owner, lo, hi : OrderState(owner, lo, hi)
    BY OrderFound
<1>2. IInv'
    BY BorrowPrevInternalInv
<1>3. PICK node, p, from, edge : node = op.node /\ p = parent[op.node] /\ from = PrevSibling
                                 /\ edge = Last(edges[PrevSibling])
    OBVIOUS
<1>4. /\ op.pc = "underflow" /\ op.is_leaf = FALSE /\ p # NULL /\ HasPrev
      /\ CanLend(Len(keys[from])) /\ op' = Idle
      /\ keys' = [keys EXCEPT ![from] = Front(@),
                              ![node] = InsertAt(@, 1, keys[p][parent_idx[node]]),
                              ![p][parent_idx[node]] = Last(keys[from])]
      /\ edges' = [edges EXCEPT ![from] = Front(@), ![node] = InsertAt(@, 1, edge)]
      /\ parent' = [parent EXCEPT ![edge] = node]
      /\ live' = live /\ level' = level /\ root' = root /\ length' = length
      /\ prev' = prev /\ next' = next
    BY <1>3 DEF BorrowPrevInternal, Underflowing, AtRoot, PrevLends, mapVars
<1>5. PICK n, i \in Nat : parent_idx[node] = i /\ Siblings(owner, lo, hi, p, n, i, from, node)
    BY <1>1, <1>3, <1>4, PrevSiblings
<1>6. /\ from \in live /\ from \in Slots /\ node \in Slots /\ p \in Slots /\ from # node /\ from # p
      /\ node # p /\ level[from] # 0 /\ level[node] # 0 /\ level[p] # 0
    <2>1. level[node] # 0
        BY <1>1, <1>3, <1>4, UnderflowData DEF OrderState
    <2>2. QED
        BY <1>5, <2>1 DEF Siblings
<1>7. PICK s \in Keys, a, b \in Nat :
         /\ s = keys[p][i] /\ s \notin hi[node] /\ Len(keys[from]) = a
         /\ Divided(a, keys[from], edges[from], lo[from], Up(s), lo, hi)
         /\ Divided(b, keys[node], edges[node], Up(s), hi[node], lo, hi)
    BY <1>1, <1>4, <1>5, <1>6, InternalPair
<1>8. PICK k : k = Last(keys[from])
    OBVIOUS
<1>9. a >= 2
    BY <1>4, <1>7, LendingLengths
<1>10. /\ k \in Keys /\ Above(lo[from], k) /\ k \notin hi[node]
       /\ Divides(Front(keys[from]), Front(edges[from]), lo[from], Up(k), lo, hi)
       /\ Divides(InsertAt(keys[node], 1, s), InsertAt(edges[node], 1, edge), Up(k), hi[node], lo, hi)
    BY <1>3, <1>7, <1>8, <1>9, EdgeLastMoves
<1>11. /\ keys \in [Slots -> Seq(Keys)] /\ edges \in [Slots -> Seq(Slots)]
       /\ parent \in [Slots -> Slots \cup {NULL}]
    BY <1>1 DEF OrderState, Local, DataTypes, Wiring, Forest
<1>12. /\ keys'[from] = Front(keys[from]) /\ keys'[node] = InsertAt(keys[node], 1, s)
       /\ keys'[p] = [keys[p] EXCEPT ![i] = k]
       /\ edges'[from] = Front(edges[from]) /\ edges'[node] = InsertAt(edges[node], 1, edge)
       /\ \A t \in Slots \ {from, node, p} : keys'[t] = keys[t]
       /\ \A t \in Slots \ {from, node} : edges'[t] = edges[t]
    BY <1>4, <1>5, <1>6, <1>7, <1>8, <1>11
<1>13. /\ NodeOrdered(level[from], keys'[from], edges'[from], lo[from], Up(k), lo, hi)
       /\ NodeOrdered(level[node], keys'[node], edges'[node], Up(k), hi[node], lo, hi)
    BY <1>6, <1>10, <1>12 DEF NodeOrdered
<1>14. LeafKeys(from)' \cup LeafKeys(node)' = LeafKeys(from) \cup LeafKeys(node)
    BY <1>4, <1>6 DEF LeafKeys
<1>15. parent[edge] = from
    <2>1. PICK c \in Nat \ {0} : c = a + 1
        BY <1>7
    <2>2. edges[from] \in Seq(Slots) /\ Len(edges[from]) = c
        BY <1>7, <2>1 DEF Divided
    <2>3. DOMAIN edges[from] = 1 .. c /\ c \in 1 .. c
        BY ONLY <2>1, <2>2
    <2>4. edge = Last(edges[from])
        BY ONLY <1>3
    <2>5. Last(edges[from]) = edges[from][c]
        BY ONLY <2>2 DEF Last
    <2>6. QED
        BY <1>1, <1>6, <2>3, <2>4, <2>5, ForestChild DEF OrderState, Wiring
<1>16. /\ edges'[p] = edges[p]
       /\ \A t \in Slots \ {from, node, p} : keys'[t] = keys[t] /\ edges'[t] = edges[t]
       /\ \A t \in Slots : \/ parent'[t] = parent[t]
                           \/ parent[t] \in {from, node} /\ parent'[t] \in {from, node}
    BY <1>4, <1>6, <1>11, <1>12, <1>15
<1>17. EntryMoved(lo, hi, p, i, from, node, k)
    BY <1>4, <1>10, <1>12, <1>13, <1>14, <1>16 DEF EntryMoved
<1>18. QED
    BY <1>1, <1>2, <1>4, <1>5, <1>17, BorrowOrder

LEMMA BorrowNextInternalOrder ==
    ASSUME IInv, Ordered, BorrowNextInternal
    PROVE  Ordered'
<1>1. PICK owner, lo, hi : OrderState(owner, lo, hi)
    BY OrderFound
<1>2. IInv'
    BY BorrowNextInternalInv
<1>3. PICK node, p, from, edge : node = op.node /\ p = parent[op.node] /\ from = NextSibling
                                 /\ edge = Head(edges[NextSibling])
    OBVIOUS
<1>4. /\ op.pc = "underflow" /\ op.is_leaf = FALSE /\ p # NULL /\ HasNext
      /\ CanLend(Len(keys[from])) /\ op' = Idle
      /\ keys' = [keys EXCEPT ![p][parent_idx[node] + 1] = Head(keys[from]),
                              ![from] = Tail(@),
                              ![node] = Append(@, keys[p][parent_idx[node] + 1])]
      /\ edges' = [edges EXCEPT ![from] = Tail(@), ![node] = Append(@, edge)]
      /\ parent' = [parent EXCEPT ![edge] = node]
      /\ live' = live /\ level' = level /\ root' = root /\ length' = length
      /\ prev' = prev /\ next' = next
    BY <1>3 DEF BorrowNextInternal, Underflowing, AtRoot, NextLends, mapVars
<1>5. PICK n, i \in Nat : /\ parent_idx[node] = i
                          /\ Siblings(owner, lo, hi, p, n, i + 1, node, from)
    BY <1>1, <1>3, <1>4, NextSiblings
<1>6. /\ from \in live /\ from \in Slots /\ node \in Slots /\ p \in Slots /\ from # node /\ from # p
      /\ node # p /\ level[from] # 0 /\ level[node] # 0 /\ level[p] # 0
    <2>1. level[node] # 0
        BY <1>1, <1>3, <1>4, UnderflowData DEF OrderState
    <2>2. QED
        BY <1>5, <2>1 DEF Siblings
<1>7. PICK s \in Keys, b, a \in Nat :
         /\ s = keys[p][i + 1] /\ Above(lo[node], s) /\ Len(keys[from]) = a
         /\ Divided(b, keys[node], edges[node], lo[node], Up(s), lo, hi)
         /\ Divided(a, keys[from], edges[from], Up(s), hi[from], lo, hi)
    <2>1. PICK j : j = i + 1
        OBVIOUS
    <2>2. Siblings(owner, lo, hi, p, n, j, node, from)
        BY <1>5, <2>1
    <2>3. op.pc # "overflow"
        BY <1>4
    <2>4. \E s \in Keys, b, a \in Nat :
             /\ s = keys[p][j] /\ Above(lo[node], s) /\ Len(keys[from]) = a
             /\ Divided(b, keys[node], edges[node], lo[node], Up(s), lo, hi)
             /\ Divided(a, keys[from], edges[from], Up(s), hi[from], lo, hi)
        BY ONLY <1>1, <1>6, <2>2, <2>3, InternalPair
    <2>5. QED
        BY <2>1, <2>4
<1>8. PICK k : k = Head(keys[from])
    OBVIOUS
<1>9. a >= 2
    BY <1>4, <1>7, LendingLengths
<1>10. /\ k \in Keys /\ Above(lo[node], k) /\ k \notin hi[from]
       /\ Divides(Append(keys[node], s), Append(edges[node], edge), lo[node], Up(k), lo, hi)
       /\ Divides(Tail(keys[from]), Tail(edges[from]), Up(k), hi[from], lo, hi)
    BY <1>3, <1>7, <1>8, <1>9, EdgeFirstMoves
<1>11. /\ keys \in [Slots -> Seq(Keys)] /\ edges \in [Slots -> Seq(Slots)]
       /\ parent \in [Slots -> Slots \cup {NULL}]
    BY <1>1 DEF OrderState, Local, DataTypes, Wiring, Forest
<1>12. /\ keys'[from] = Tail(keys[from]) /\ keys'[node] = Append(keys[node], s)
       /\ keys'[p] = [keys[p] EXCEPT ![i + 1] = k]
       /\ edges'[from] = Tail(edges[from]) /\ edges'[node] = Append(edges[node], edge)
       /\ \A t \in Slots \ {from, node, p} : keys'[t] = keys[t]
       /\ \A t \in Slots \ {from, node} : edges'[t] = edges[t]
    BY <1>4, <1>5, <1>6, <1>7, <1>8, <1>11
<1>13. /\ NodeOrdered(level[node], keys'[node], edges'[node], lo[node], Up(k), lo, hi)
       /\ NodeOrdered(level[from], keys'[from], edges'[from], Up(k), hi[from], lo, hi)
    BY <1>6, <1>10, <1>12 DEF NodeOrdered
<1>14. LeafKeys(node)' \cup LeafKeys(from)' = LeafKeys(node) \cup LeafKeys(from)
    BY <1>4, <1>6 DEF LeafKeys
<1>15. parent[edge] = from
    <2>1. DOMAIN edges[from] = 1 .. a + 1 /\ edge = edges[from][1]
        BY <1>3, <1>7, TailSeq DEF Divided
    <2>2. QED
        BY <1>1, <1>6, <2>1, ForestChild DEF OrderState, Wiring
<1>16. /\ edges'[p] = edges[p]
       /\ \A t \in Slots \ {node, from, p} : keys'[t] = keys[t] /\ edges'[t] = edges[t]
       /\ \A t \in Slots : \/ parent'[t] = parent[t]
                           \/ parent[t] \in {node, from} /\ parent'[t] \in {node, from}
    BY <1>4, <1>6, <1>11, <1>12, <1>15
<1>17. EntryMoved(lo, hi, p, i + 1, node, from, k)
    BY <1>4, <1>10, <1>12, <1>13, <1>14, <1>16 DEF EntryMoved
<1>18. QED
    BY <1>1, <1>2, <1>4, <1>5, <1>17, BorrowOrder

-----------------------------------------------------------------------------
(***************************************************************************)
(* A merge: `node` takes over what `gone` held, and the interval of both.  *)
(***************************************************************************)

\* The links around the two leaves lead to the one that is left.
LinkedAround(left, right, node, gone) ==
    /\ next'[gone] = NULL /\ prev'[gone] = NULL
    /\ next'[node] = next[right] /\ prev'[node] = prev[left]
    /\ \A s \in Slots \ {left, right} :
          /\ next'[s] = IF s = prev[left] THEN node ELSE next[s]
          /\ prev'[s] = IF s = next[right] THEN node ELSE prev[s]

\* The leaf before the left one and the leaf after the right one are others.
LEMMA EndsApart ==
    ASSUME NEW owner, NEW lo, NEW hi, OrderState(owner, lo, hi),
           NEW p, NEW n, NEW j, NEW left, NEW right,
           Siblings(owner, lo, hi, p, n, j, left, right), level[left] = 0
    PROVE  /\ next[left] = right /\ prev[right] = left
           /\ prev[left] \notin {left, right} /\ next[right] \notin {left, right}
           /\ prev[left] # NULL => prev[left] \in Slots /\ next[prev[left]] = left
           /\ next[right] # NULL => next[right] \in Slots /\ prev[next[right]] = right
<1>1. /\ left \in live /\ right \in live /\ left # right /\ level[right] = 0
      /\ next[left] = right /\ prev[right] = left
      /\ keys[p][j] \in Keys /\ Separates(keys[p][j], left, right, lo, hi)
    BY DEF Siblings
<1>2. /\ LinksOrdered(owner, lo, hi) /\ live \subseteq Slots
      /\ lo \in [Slots -> Cuts] /\ hi \in [Slots -> Cuts]
    BY DEF OrderState, Wiring, Forest
<1>3. left # NULL /\ right # NULL /\ left \in Slots /\ right \in Slots
    BY <1>1, <1>2, SlotsAssumption
<1>4. prev[left] # NULL => prev[left] \in live /\ next[prev[left]] = left
    BY <1>1, <1>2 DEF LinksOrdered
<1>5. next[right] # NULL => next[right] \in live /\ prev[next[right]] = right
                            /\ lo[next[right]] = hi[right]
    BY <1>1, <1>2 DEF LinksOrdered
<1>6. next[right] # left
    <2>1. ASSUME next[right] = left
          PROVE  FALSE
        <3>1. lo[left] = hi[right]
            BY <1>3, <1>5, <2>1
        <3>2. PICK k \in Keys : Above(lo[left], k) /\ k \notin hi[right]
            BY <1>1 DEF Separates
        <3>3. k \in lo[left]
            BY <1>2, <1>3, <3>2, AboveIs
        <3>4. QED
            BY <3>1, <3>2, <3>3
    <2>2. QED
        BY <2>1
<1>7. QED
    BY <1>1, <1>2, <1>3, <1>4, <1>5, <1>6

LEMMA MergeLinks ==
    ASSUME NEW owner, NEW lo, NEW hi, OrderState(owner, lo, hi),
           NEW p, NEW n, NEW j, NEW left, NEW right,
           Siblings(owner, lo, hi, p, n, j, left, right), level[left] = 0,
           NEW node, NEW gone, (node = left /\ gone = right) \/ (node = right /\ gone = left),
           live' = live \ {gone}, \A s \in Slots \ {gone} : level'[s] = level[s],
           LinkedAround(left, right, node, gone),
           NEW lo2, NEW hi2, lo2[node] = lo[left], hi2[node] = hi[right],
           \A s \in Slots \ {left, right} : lo2[s] = lo[s] /\ hi2[s] = hi[s]
    PROVE  LinksOrdered(owner, lo2, hi2)' /\ NoStrayLinks'
<1>1. /\ left \in live /\ right \in live /\ left # right /\ level[right] = 0
      /\ owner[left] = owner[right] /\ left \in Slots /\ right \in Slots
    BY DEF Siblings
<1>2. /\ next[left] = right /\ prev[right] = left
      /\ prev[left] \notin {left, right} /\ next[right] \notin {left, right}
    BY EndsApart
<1>3. /\ live \subseteq Slots /\ NoStrayLinks
      /\ \A s \in live : level[s] = 0 =>
            /\ next[s] = NULL <=> hi[s] = {}
            /\ next[s] # NULL => /\ next[s] \in live /\ level[next[s]] = 0
                                 /\ prev[next[s]] = s
                                 /\ lo[next[s]] = hi[s]
                                 /\ owner[next[s]] = owner[s]
            /\ prev[s] = NULL <=> lo[s] = Keys
            /\ prev[s] # NULL => /\ prev[s] \in live /\ level[prev[s]] = 0
                                 /\ next[prev[s]] = s
    BY DEF OrderState, LinksOrdered, Wiring, Forest
<1>4. /\ next'[gone] = NULL /\ prev'[gone] = NULL
      /\ next'[node] = next[right] /\ prev'[node] = prev[left]
      /\ \A s \in Slots \ {left, right} :
            /\ next'[s] = IF s = prev[left] THEN node ELSE next[s]
            /\ prev'[s] = IF s = next[right] THEN node ELSE prev[s]
    BY DEF LinkedAround
<1>5. NULL \notin Slots /\ node \in Slots /\ gone \in Slots /\ node # gone /\ node \in {left, right}
      /\ gone \in {left, right} /\ node \in live' /\ level'[node] = 0
    BY <1>1, SlotsAssumption
<1>6. ASSUME NEW t \in live, t \notin {left, right}
      PROVE  t \in Slots /\ t \in live' /\ level'[t] = level[t] /\ t # gone /\ t # node
    BY <1>3, <1>5, <1>6
<1>7. /\ next'[node] = NULL <=> hi2[node] = {}
      /\ next'[node] # NULL => /\ next'[node] \in live' /\ level'[next'[node]] = 0
                               /\ prev'[next'[node]] = node
                               /\ lo2[next'[node]] = hi2[node]
                               /\ owner[next'[node]] = owner[node]
    <2>1. next'[node] = NULL <=> hi2[node] = {}
        BY <1>1, <1>3, <1>4
    <2>2. ASSUME next'[node] # NULL
          PROVE  /\ next'[node] \in live' /\ level'[next'[node]] = 0
                 /\ prev'[next'[node]] = node
                 /\ lo2[next'[node]] = hi2[node]
                 /\ owner[next'[node]] = owner[node]
        <3>1. PICK t : t = next[right] /\ t = next'[node]
            BY <1>4
        <3>2. next[right] # NULL
            BY ONLY <1>4, <2>2
        <3>3. /\ t \in live /\ level[t] = 0 /\ lo[t] = hi[right] /\ owner[t] = owner[right]
              /\ t \notin {left, right}
            <4>1. /\ next[right] \in live /\ level[next[right]] = 0
                  /\ lo[next[right]] = hi[right] /\ owner[next[right]] = owner[right]
                BY ONLY <1>1, <1>3, <3>2
            <4>2. QED
                BY ONLY <1>2, <3>1, <4>1
        <3>4. QED
            BY <1>1, <1>4, <1>5, <1>6, <3>1, <3>3
    <2>3. QED
        BY <2>1, <2>2
<1>8. /\ prev'[node] = NULL <=> lo2[node] = Keys
      /\ prev'[node] # NULL => /\ prev'[node] \in live' /\ level'[prev'[node]] = 0
                               /\ next'[prev'[node]] = node
    <2>1. prev'[node] = NULL <=> lo2[node] = Keys
        BY <1>1, <1>3, <1>4
    <2>2. ASSUME prev'[node] # NULL
          PROVE  /\ prev'[node] \in live' /\ level'[prev'[node]] = 0
                 /\ next'[prev'[node]] = node
        <3>1. PICK t : t = prev[left] /\ t = prev'[node]
            BY <1>4
        <3>2. prev[left] # NULL /\ level[left] = 0
            BY <1>4, <2>2
        <3>3. t \in live /\ level[t] = 0 /\ t \notin {left, right}
            BY ONLY <1>1, <1>2, <1>3, <3>1, <3>2
        <3>4. QED
            BY <1>4, <1>5, <1>6, <3>1, <3>3
    <2>3. QED
        BY <2>1, <2>2
<1>9. ASSUME NEW s \in live, level[s] = 0, s \notin {left, right}
      PROVE  /\ next'[s] = NULL <=> hi2[s] = {}
             /\ next'[s] # NULL => /\ next'[s] \in live' /\ level'[next'[s]] = 0
                                   /\ prev'[next'[s]] = s
                                   /\ lo2[next'[s]] = hi2[s]
                                   /\ owner[next'[s]] = owner[s]
    <2>1. s \in Slots /\ hi2[s] = hi[s]
        BY <1>3, <1>9
    <2>2. CASE s = prev[left]
        <3>1. next[s] = left /\ lo[left] = hi[s] /\ owner[left] = owner[s] /\ hi[s] # {}
            BY <1>1, <1>3, <1>5, <1>9, <2>1, <2>2
        <3>2. next'[s] = node
            BY <1>4, <1>9, <2>1, <2>2
        <3>3. QED
            BY <1>1, <1>4, <1>5, <2>1, <2>2, <3>1, <3>2
    <2>3. CASE s # prev[left]
        <3>1. next'[s] = next[s]
            BY <1>4, <1>9, <2>1, <2>3
        <3>2. ASSUME next[s] # NULL
              PROVE  /\ next'[s] \in live' /\ level'[next'[s]] = 0
                     /\ prev'[next'[s]] = s
                     /\ lo2[next'[s]] = hi2[s]
                     /\ owner[next'[s]] = owner[s]
            <4>1. PICK t : t = next[s]
                OBVIOUS
            <4>2. /\ t \in live /\ level[t] = 0 /\ prev[t] = s /\ lo[t] = hi[s] /\ owner[t] = owner[s]
                BY <1>3, <1>9, <3>2, <4>1
            <4>3. t \notin {left, right}
                BY <1>2, <1>9, <2>3, <4>2
            <4>4. t # next[right]
                BY <1>1, <1>3, <1>5, <1>9, <3>2, <4>1, <4>2
            <4>5. QED
                BY <1>4, <1>6, <2>1, <3>1, <4>1, <4>2, <4>3, <4>4
        <3>3. QED
            BY <1>3, <1>9, <2>1, <3>1, <3>2
    <2>4. QED
        BY <2>2, <2>3
<1>10. ASSUME NEW s \in live, level[s] = 0, s \notin {left, right}
       PROVE  /\ prev'[s] = NULL <=> lo2[s] = Keys
              /\ prev'[s] # NULL => /\ prev'[s] \in live' /\ level'[prev'[s]] = 0
                                    /\ next'[prev'[s]] = s
    <2>1. s \in Slots /\ lo2[s] = lo[s]
        BY <1>3, <1>10
    <2>2. CASE s = next[right]
        <3>1. prev[s] = right /\ lo[s] # Keys
            BY <1>1, <1>3, <1>5, <1>10, <2>1, <2>2
        <3>2. prev'[s] = node
            BY <1>4, <1>10, <2>1, <2>2
        <3>3. QED
            BY <1>1, <1>4, <1>5, <2>1, <2>2, <3>1, <3>2
    <2>3. CASE s # next[right]
        <3>1. prev'[s] = prev[s]
            BY <1>4, <1>10, <2>1, <2>3
        <3>2. ASSUME prev[s] # NULL
              PROVE  /\ prev'[s] \in live' /\ level'[prev'[s]] = 0
                     /\ next'[prev'[s]] = s
            <4>1. PICK t : t = prev[s]
                OBVIOUS
            <4>2. /\ t \in live /\ level[t] = 0 /\ next[t] = s
                BY <1>3, <1>10, <3>2, <4>1
            <4>3. t \notin {left, right}
                BY <1>2, <1>10, <2>3, <4>2
            <4>4. t # prev[left]
                BY <1>1, <1>3, <1>5, <1>10, <3>2, <4>1, <4>2
            <4>5. QED
                BY <1>4, <1>6, <2>1, <3>1, <4>1, <4>2, <4>3, <4>4
        <3>3. QED
            BY <1>3, <1>10, <2>1, <3>1, <3>2
    <2>4. QED
        BY <2>2, <2>3
<1>11. ASSUME NEW s \in live', level'[s] = 0
       PROVE  s = node \/ (s \in live /\ level[s] = 0 /\ s \notin {left, right})
    BY <1>3, <1>5, <1>11
<1>12. LinksOrdered(owner, lo2, hi2)'
    BY <1>7, <1>8, <1>9, <1>10, <1>11 DEF LinksOrdered
<1>13. ASSUME NEW s \in Slots, s \notin live' \/ level'[s] # 0
       PROVE  next'[s] = NULL /\ prev'[s] = NULL
    <2>1. CASE s = gone
        BY <1>4, <2>1
    <2>2. CASE s # gone
        <3>1. s # node /\ s \notin {left, right} /\ (s \notin live \/ level[s] # 0)
            BY <1>5, <1>13, <2>2
        <3>2. next[s] = NULL /\ prev[s] = NULL
            BY <1>3, <3>1 DEF NoStrayLinks
        <3>3. s # prev[left] /\ s # next[right]
            BY <1>1, <1>3, <1>5, <1>13, <3>1
        <3>4. QED
            BY <1>4, <1>13, <3>1, <3>2, <3>3
    <2>3. QED
        BY <2>1, <2>2
<1>14. NoStrayLinks'
    BY <1>13 DEF NoStrayLinks
<1>15. QED
    BY <1>12, <1>14

\* `node` is left with what both had, `gone` is given back, and the parent
\* loses the separator between them.
Merged(lo, hi, p, j, left, right, node, gone) ==
    /\ op'.pc # "overflow" /\ (op'.pc # "idle" => op'.node = p /\ op'.map = op.map)
    /\ live' = live \ {gone} /\ root' = root /\ length' = length
    /\ keys'[p] = RemoveAt(keys[p], j)
    /\ edges'[p] = RemoveAt(edges[p], IF gone = left THEN j ELSE j + 1)
    /\ keys'[gone] = <<>>
    /\ \A s \in Slots \ {left, right, p} : keys'[s] = keys[s] /\ edges'[s] = edges[s]
    /\ \A s \in Slots \ {gone} :
          /\ level'[s] = level[s]
          /\ parent'[s] = parent[s] \/ (parent[s] = gone /\ parent'[s] = node)
    /\ NodeOrdered(level[node], keys'[node], edges'[node], lo[left], hi[right], lo, hi)
    /\ LeafKeys(node)' = LeafKeys(left) \cup LeafKeys(right)
    /\ IF level[left] = 0 THEN LinkedAround(left, right, node, gone)
                          ELSE prev' = prev /\ next' = next

LEMMA MergeOrder ==
    ASSUME IInv', NEW owner, NEW lo, NEW hi, OrderState(owner, lo, hi), op.pc = "underflow",
           NEW p, NEW n, NEW j, NEW left, NEW right,
           Siblings(owner, lo, hi, p, n, j, left, right),
           NEW node, NEW gone, (node = left /\ gone = right) \/ (node = right /\ gone = left),
           node = op.node, Merged(lo, hi, p, j, left, right, node, gone)
    PROVE  Ordered'
<1>1. /\ Local /\ Wiring(owner) /\ OpOwned(owner) /\ RootsOwned(owner)
      /\ lo \in [Slots -> Cuts] /\ hi \in [Slots -> Cuts]
      /\ LinksOrdered(owner, lo, hi) /\ EntriesCounted(owner) /\ NoStrayLinks
      /\ length \in [Maps -> Int] /\ edges \in [Slots -> Seq(Slots)]
      /\ live \subseteq Slots /\ owner \in [Slots -> Maps]
    BY DEF OrderState, Wiring, Forest, Local, DataTypes
<1>2. /\ p \in live /\ p \in Slots /\ level[p] # 0 /\ n \in Nat /\ j \in 1 .. n
      /\ Divided(n, keys[p], edges[p], lo[p], hi[p], lo, hi)
      /\ left = edges[p][j] /\ right = edges[p][j + 1]
      /\ left \in live /\ left \in Slots /\ left # p /\ parent[left] = p
      /\ right \in live /\ right \in Slots /\ right # p /\ parent[right] = p
      /\ left # right /\ level[left] = level[right]
      /\ owner[left] = owner[p] /\ owner[right] = owner[p]
      /\ \A i \in 1 .. n + 1 : /\ edges[p][i] \in Slots
                               /\ edges[p][i] = left => i = j
                               /\ edges[p][i] = right => i = j + 1
    BY DEF Siblings
<1>3. /\ op'.pc # "overflow" /\ (op'.pc # "idle" => op'.node = p /\ op'.map = op.map)
      /\ live' = live \ {gone} /\ root' = root /\ length' = length
      /\ keys'[p] = RemoveAt(keys[p], j)
      /\ edges'[p] = RemoveAt(edges[p], IF gone = left THEN j ELSE j + 1)
      /\ keys'[gone] = <<>>
      /\ \A s \in Slots \ {left, right, p} : keys'[s] = keys[s] /\ edges'[s] = edges[s]
      /\ \A s \in Slots \ {gone} :
            /\ level'[s] = level[s]
            /\ parent'[s] = parent[s] \/ (parent[s] = gone /\ parent'[s] = node)
      /\ NodeOrdered(level[node], keys'[node], edges'[node], lo[left], hi[right], lo, hi)
      /\ LeafKeys(node)' = LeafKeys(left) \cup LeafKeys(right)
      /\ IF level[left] = 0 THEN LinkedAround(left, right, node, gone)
                            ELSE prev' = prev /\ next' = next
    BY DEF Merged
<1>4. /\ node \in {left, right} /\ gone \in {left, right} /\ node # gone
      /\ \A s : s \in {left, right} <=> s = node \/ s = gone
      /\ p # NULL /\ node # NULL /\ gone # NULL /\ node \in live' /\ op.pc # "overflow"
    BY <1>2, <1>3, SlotsAssumption
<1>5. \A s \in live : /\ NodeOrdered(level[s], keys[s], edges[s], lo[s], hi[s], lo, hi)
                      /\ parent[s] = NULL => lo[s] = Keys /\ hi[s] = {}
    BY <1>4, CalmState
<1>6. PICK lo2, hi2 : lo2 = [lo EXCEPT ![node] = lo[left]] /\ hi2 = [hi EXCEPT ![node] = hi[right]]
    OBVIOUS
<1>7. /\ lo2 \in [Slots -> Cuts] /\ hi2 \in [Slots -> Cuts]
      /\ \A s \in Slots : /\ lo2[s] = IF s = node THEN lo[left] ELSE lo[s]
                          /\ hi2[s] = IF s = node THEN hi[right] ELSE hi[s]
    BY ONLY <1>1, <1>2, <1>4, <1>6
<1>8. NodeOrdered(level'[node], keys'[node], edges'[node], lo2[node], hi2[node], lo2, hi2)
    <2>1. level'[node] = level[node] /\ node \in Slots
        BY ONLY <1>2, <1>3, <1>4
    <2>2. PICK c \in Nat :
             /\ keys'[node] \in Seq(Keys) /\ Len(keys'[node]) = c /\ edges'[node] \in Seq(Slots)
             /\ level'[node] # 0 => /\ Len(edges'[node]) = c + 1
                                    /\ \A i \in 1 .. c + 1 : /\ level'[edges'[node][i]] # level'[node]
                                                             /\ edges'[node][i] \in live'
        <3>1. node \in live'
            BY <1>4
        <3>2. \E c \in Nat :
                 /\ node \in Slots /\ keys'[node] \in Seq(Keys) /\ Len(keys'[node]) = c
                 /\ edges'[node] \in Seq(Slots) /\ level'[node] \in Nat
                 /\ level'[node] # 0 => /\ Len(edges'[node]) = c + 1
                                        /\ \A i \in 1 .. c + 1 :
                                              /\ level'[edges'[node][i]] # level'[node]
                                              /\ edges'[node][i] \in live'
                                              /\ parent'[edges'[node][i]] = node
            BY <3>1, ChildrenNext
        <3>3. QED
            BY ONLY <3>2
    <2>3. PICK ks, es, lev : ks = keys'[node] /\ es = edges'[node] /\ lev = level[node]
        OBVIOUS
    <2>4. ASSUME lev # 0, NEW i \in 1 .. c + 1
          PROVE  lo2[es[i]] = lo[es[i]] /\ hi2[es[i]] = hi[es[i]]
        <3>1. es[i] \in live' /\ level'[es[i]] # lev
            BY ONLY <2>1, <2>2, <2>3, <2>4
        <3>2. es[i] \in Slots /\ es[i] # node
            BY ONLY <1>1, <1>3, <2>1, <2>3, <3>1
        <3>3. QED
            BY ONLY <1>7, <3>2
    <2>5. Shaped(lev, c, ks, es) /\ SameCuts(lev, c, es, lo, hi, lo2, hi2)
        BY ONLY <2>1, <2>2, <2>3, <2>4 DEF Shaped, SameCuts
    <2>6. NodeOrdered(lev, ks, es, lo2[node], hi2[node], lo, hi)
        BY ONLY <1>3, <1>7, <2>1, <2>3
    <2>7. NodeOrdered(lev, ks, es, lo2[node], hi2[node], lo2, hi2)
        BY ONLY <2>5, <2>6, NodeMoved
    <2>8. QED
        BY ONLY <2>1, <2>3, <2>7
<1>9. Divides(keys'[p], edges'[p], lo[p], hi[p], lo2, hi2)
    <2>0. edges[p] \in Seq(Slots) /\ Len(edges[p]) = n + 1 /\ n \in Nat /\ j \in 1 .. n
        BY ONLY <1>2 DEF Divided
    <2>1. PICK g \in Nat, z \in Nat, es \in Seq(Slots) :
             g = (IF gone = left THEN j ELSE j + 1) /\ z = n + 1 /\ es = edges[p]
        <3>1. (IF gone = left THEN j ELSE j + 1) \in Nat /\ n + 1 \in Nat
            BY ONLY <2>0
        <3>2. QED
            BY ONLY <2>0, <3>1
    <2>2. g \in 1 .. z /\ Len(es) = z /\ z - 1 = n
        BY ONLY <2>0, <2>1
    <2>3. edges'[p] = [i \in 1 .. n |-> IF i < g THEN es[i] ELSE es[i + 1]]
        <3>1. RemoveAt(es, g) = [i \in 1 .. z - 1 |-> IF i < g THEN es[i] ELSE es[i + 1]]
            BY <2>2, RemoveAtDef
        <3>2. QED
            BY ONLY <1>3, <2>1, <2>2, <3>1
    <2>4. /\ \A i \in 1 .. n : i < j => edges'[p][i] = edges[p][i]
          /\ edges'[p][j] = node
          /\ \A i \in 1 .. n : i > j => edges'[p][i] = edges[p][i + 1]
        <3>1. CASE gone = left
            <4>1. g = j /\ node = right
                BY <1>4, <2>1, <3>1
            <4>2. QED
                BY ONLY <1>2, <2>1, <2>3, <4>1
        <3>2. CASE gone # left
            <4>1. g = j + 1 /\ node = left
                BY <1>4, <2>1, <3>2
            <4>2. QED
                BY ONLY <1>2, <2>1, <2>3, <4>1
        <3>3. QED
            BY <3>1, <3>2
    <2>5. ASSUME NEW i \in 1 .. n + 1, i # j, i # j + 1
          PROVE  lo2[edges[p][i]] = lo[edges[p][i]] /\ hi2[edges[p][i]] = hi[edges[p][i]]
        BY ONLY <1>2, <1>4, <1>7, <2>5
    <2>6. PICK e2 : e2 = edges'[p]
        OBVIOUS
    <2>7. \A i \in 1 .. n : i < j => lo2[e2[i]] = lo[edges[p][i]] /\ hi2[e2[i]] = hi[edges[p][i]]
        <3>1. ASSUME NEW i \in 1 .. n, i < j
              PROVE  lo2[e2[i]] = lo[edges[p][i]] /\ hi2[e2[i]] = hi[edges[p][i]]
            <4>1. PICK h \in 1 .. n + 1 : h = i /\ h # j /\ h # j + 1
                BY ONLY <1>2, <3>1, i \in 1 .. n
            <4>2. e2[i] = edges[p][h]
                BY ONLY <2>4, <2>6, <3>1, <4>1, i \in 1 .. n
            <4>3. lo2[edges[p][h]] = lo[edges[p][h]] /\ hi2[edges[p][h]] = hi[edges[p][h]]
                BY ONLY <2>5, <4>1, h \in 1 .. n + 1
            <4>4. QED
                BY ONLY <4>1, <4>2, <4>3
        <3>2. QED
            BY ONLY <3>1
    <2>8. \A i \in 1 .. n : i > j => lo2[e2[i]] = lo[edges[p][i + 1]] /\ hi2[e2[i]] = hi[edges[p][i + 1]]
        <3>1. ASSUME NEW i \in 1 .. n, i > j
              PROVE  lo2[e2[i]] = lo[edges[p][i + 1]] /\ hi2[e2[i]] = hi[edges[p][i + 1]]
            <4>1. PICK h \in 1 .. n + 1 : h = i + 1 /\ h # j /\ h # j + 1
                BY ONLY <1>2, <3>1, i \in 1 .. n
            <4>2. e2[i] = edges[p][h]
                BY ONLY <2>4, <2>6, <3>1, <4>1, i \in 1 .. n
            <4>3. lo2[edges[p][h]] = lo[edges[p][h]] /\ hi2[edges[p][h]] = hi[edges[p][h]]
                BY ONLY <2>5, <4>1, h \in 1 .. n + 1
            <4>4. QED
                BY ONLY <4>1, <4>2, <4>3
        <3>2. QED
            BY ONLY <3>1
    <2>9. lo2[e2[j]] = lo[edges[p][j]] /\ hi2[e2[j]] = hi[edges[p][j + 1]]
        BY ONLY <1>2, <1>4, <1>7, <2>4, <2>6
    <2>10. Divides(RemoveAt(keys[p], j), e2, lo[p], hi[p], lo2, hi2)
        BY ONLY <1>2, <2>7, <2>8, <2>9, DividesMerge
    <2>11. QED
        BY ONLY <1>3, <2>6, <2>10
<1>10. ASSUME NEW s \in live'
       PROVE  /\ NodeOrdered(level'[s], keys'[s], edges'[s], lo2[s], hi2[s], lo2, hi2)
              /\ parent'[s] = NULL => lo2[s] = Keys /\ hi2[s] = {}
    <2>1. s \in live /\ s \in Slots /\ s # gone /\ level'[s] = level[s]
        BY ONLY <1>1, <1>3, <1>10
    <2>2. NodeOrdered(level'[s], keys'[s], edges'[s], lo2[s], hi2[s], lo2, hi2)
        <3>1. CASE s = node
            BY ONLY <1>8, <3>1
        <3>2. CASE s = p
            <4>1. lo2[p] = lo[p] /\ hi2[p] = hi[p]
                BY ONLY <1>2, <1>4, <1>7
            <4>2. QED
                BY ONLY <1>2, <1>9, <2>1, <3>2, <4>1 DEF NodeOrdered
        <3>3. CASE s # node /\ s # p
            <4>1. \A c \in Slots : parent[c] = s => lo2[c] = lo[c] /\ hi2[c] = hi[c]
                BY ONLY <1>2, <1>4, <1>7, <3>3
            <4>2. NodeOrdered(level[s], keys[s], edges[s], lo[s], hi[s], lo2, hi2)
                <5>1. NodeOrdered(level[s], keys[s], edges[s], lo[s], hi[s], lo, hi)
                    BY ONLY <1>5, <2>1
                <5>2. Local /\ Wiring(owner) /\ s \in live
                    BY ONLY <1>1, <2>1
                <5>3. QED
                    BY ONLY <4>1, <5>1, <5>2, NodeKept
            <4>3. keys'[s] = keys[s] /\ edges'[s] = edges[s] /\ lo2[s] = lo[s] /\ hi2[s] = hi[s]
                BY ONLY <1>3, <1>4, <1>7, <2>1, <3>3
            <4>4. QED
                BY ONLY <2>1, <4>2, <4>3
        <3>4. QED
            BY ONLY <3>1, <3>2, <3>3
    <2>3. ASSUME parent'[s] = NULL
          PROVE  lo2[s] = Keys /\ hi2[s] = {}
        <3>1. parent[s] = NULL
            BY ONLY <1>3, <1>4, <2>1, <2>3
        <3>2. s # node
            BY ONLY <1>2, <1>4, <3>1
        <3>3. QED
            BY ONLY <1>5, <1>7, <2>1, <3>1, <3>2
    <2>4. QED
        BY ONLY <2>2, <2>3
<1>11. OwnedBy(owner)'
    <2>1. \A q \in Maps : root'[q] # NULL => owner[root'[q]] = q
        BY ONLY <1>1, <1>3 DEF RootsOwned
    <2>2. ASSUME NEW s \in live', parent'[s] # NULL
          PROVE  owner[s] = owner[parent'[s]]
        <3>1. s \in Slots /\ s # gone
            BY ONLY <1>1, <1>3, <2>2
        <3>2. CASE parent'[s] = parent[s]
            <4>1. parent[s] # NULL
                BY ONLY <2>2, <3>2
            <4>2. QED
                BY ONLY <1>1, <3>1, <3>2, <4>1, ParentOf
        <3>3. CASE parent[s] = gone /\ parent'[s] = node
            <4>1. owner[s] = owner[parent[s]]
                BY ONLY <1>1, <1>4, <3>1, <3>3, ParentOf
            <4>2. QED
                BY ONLY <1>2, <1>4, <3>3, <4>1
        <3>4. QED
            BY ONLY <1>3, <3>1, <3>2, <3>3
    <2>3. owner[p] = op.map
        BY <1>1, <1>2, <1>4 DEF OpOwned
    <2>4. QED
        BY ONLY <1>3, <2>1, <2>2, <2>3 DEF OwnedBy
<1>12. LinksOrdered(owner, lo2, hi2)' /\ NoStrayLinks'
    <2>1. CASE level[left] # 0
        <3>1. \A s \in live : level[s] = 0 => lo2[s] = lo[s] /\ hi2[s] = hi[s]
            BY ONLY <1>1, <1>2, <1>4, <1>7, <2>1
        <3>2. \A s \in Slots : s \in live' /\ level'[s] = 0 <=> s \in live /\ level[s] = 0
            BY ONLY <1>2, <1>3, <1>4, <2>1
        <3>3. SameLeaves(owner, lo, hi, owner, lo2, hi2)
            BY ONLY <1>1, <1>3, <2>1, <3>1, <3>2 DEF SameLeaves
        <3>4. QED
            BY <3>3, LinksKept
    <2>2. CASE level[left] = 0
        <3>1. LinkedAround(left, right, node, gone) /\ \A s \in Slots \ {gone} : level'[s] = level[s]
            BY ONLY <1>3, <2>2
        <3>2. lo2[node] = lo[left] /\ hi2[node] = hi[right]
            BY ONLY <1>2, <1>4, <1>7
        <3>3. \A s \in Slots \ {left, right} : lo2[s] = lo[s] /\ hi2[s] = hi[s]
            BY ONLY <1>4, <1>7
        <3>4. QED
            BY <1>3, <2>2, <3>1, <3>2, <3>3, MergeLinks
    <2>3. QED
        BY ONLY <2>1, <2>2
<1>13. EntriesCounted(owner)'
    <2>1. \A s \in Slots : s # left /\ s # right => LeafKeys(s)' = LeafKeys(s)
        BY ONLY <1>2, <1>3, <1>4 DEF LeafKeys
    <2>2. PICK m \in Maps : m = owner[p]
        BY ONLY <1>1, <1>2
    <2>3. LeafKeys(left)' \cup LeafKeys(right)' = LeafKeys(left) \cup LeafKeys(right)
        <3>1. LeafKeys(gone)' = {}
            BY ONLY <1>3 DEF LeafKeys, ToSet
        <3>2. LeafKeys(left)' \cup LeafKeys(right)' = LeafKeys(node)' \cup LeafKeys(gone)'
            <4>1. CASE node = left /\ gone = right
                BY <4>1
            <4>2. CASE node = right /\ gone = left
                BY <4>2
            <4>3. QED
                BY <4>1, <4>2
        <3>3. QED
            BY ONLY <1>3, <3>1, <3>2
    <2>4. ASSUME NEW q \in Maps
          PROVE  KeysOf(owner, q)' = KeysOf(owner, q)
        <3>1. CASE q = m
            BY ONLY <1>2, <2>1, <2>2, <2>3, <3>1 DEF KeysOf
        <3>2. CASE q # m
            BY ONLY <1>2, <2>1, <2>2, <3>2 DEF KeysOf
        <3>3. QED
            BY ONLY <3>1, <3>2
    <2>5. QED
        BY ONLY <1>1, <1>3, <1>4, <2>4, CalmCount
<1>14. live' \subseteq Slots
    BY ONLY <1>1, <1>3
<1>15. owner \in [Slots -> Maps] /\ lo2 \in [Slots -> Cuts] /\ hi2 \in [Slots -> Cuts]
       /\ op'.pc # "overflow"
    BY ONLY <1>1, <1>3, <1>7
<1>16. QED
    BY ONLY <1>10, <1>11, <1>12, <1>13, <1>14, <1>15, CalmGiven

\* What the loop does after a merge, whatever the parent's length is.
LEMMA MergedStep ==
    ASSUME NEW p, MergedIntoParent(p)
    PROVE  op'.pc # "overflow" /\ (op'.pc # "idle" => op'.node = p /\ op'.map = op.map)
BY DEF MergedIntoParent, Rebalance, Idle

LEMMA LeavesJoin ==
    ASSUME NEW s \in Keys, NEW a, NEW ks, NEW L, LeafBetween(a, ks, L, Up(s)), Above(L, s),
           NEW b, NEW xs, NEW H, LeafBetween(b, xs, Up(s), H), s \notin H
    PROVE  LeafOrdered(ks \o xs, L, H) /\ ToSet(ks \o xs) = ToSet(ks) \cup ToSet(xs)
<1>1. /\ a \in Nat /\ ks \in Seq(Keys) /\ Len(ks) = a /\ LeafOrdered(ks, L, Up(s))
      /\ b \in Nat /\ xs \in Seq(Keys) /\ Len(xs) = b /\ LeafOrdered(xs, Up(s), H)
      /\ L \in Cuts /\ H \in Cuts
    BY DEF LeafBetween
<1>2. LeafOrdered(ks \o xs, L, H)
    BY <1>1, LeafJoin
<1>3. ToSet(ks \o xs) = ToSet(ks) \cup ToSet(xs)
    BY <1>1, JoinedSet
<1>4. QED
    BY <1>2, <1>3

LEMMA EdgesJoin ==
    ASSUME NEW lo, NEW hi, NEW s \in Keys,
           NEW a, NEW ks, NEW es, NEW L, Divided(a, ks, es, L, Up(s), lo, hi), Above(L, s),
           NEW b, NEW xs, NEW fs, NEW H, Divided(b, xs, fs, Up(s), H, lo, hi), s \notin H
    PROVE  Divides(Append(ks, s) \o xs, es \o fs, L, H, lo, hi)
BY DividesJoin

LEMMA MergePrevLeafOrder ==
    ASSUME IInv, Ordered, MergePrevLeaf
    PROVE  Ordered'
<1>1. PICK owner, lo, hi : OrderState(owner, lo, hi)
    BY OrderFound
<1>2. IInv'
    BY MergePrevLeafInv
<1>3. PICK node, p, gone : node = op.node /\ p = parent[op.node] /\ gone = PrevSibling
    OBVIOUS
<1>4. /\ op.pc = "underflow" /\ op.is_leaf = TRUE /\ p # NULL /\ HasPrev
      /\ keys' = [keys EXCEPT ![node] = keys[gone] \o @, ![gone] = <<>>,
                              ![p] = RemoveAt(@, parent_idx[node])]
      /\ edges' = [edges EXCEPT ![p] = RemoveAt(@, parent_idx[node])]
      /\ parent' = [parent EXCEPT ![gone] = NULL]
      /\ prev' = [prev EXCEPT ![node] = prev[gone], ![gone] = NULL]
      /\ next' = SetLink([next EXCEPT ![gone] = NULL], prev[gone], node)
      /\ live' = live \ {gone} /\ MergedIntoParent(p)
      /\ level' = level /\ root' = root /\ length' = length
    BY <1>3 DEF MergePrevLeaf, Underflowing, AtRoot, mapVars
<1>5. PICK n, i \in Nat : parent_idx[node] = i /\ Siblings(owner, lo, hi, p, n, i, gone, node)
    BY <1>1, <1>3, <1>4, PrevSiblings
<1>6. /\ gone \in Slots /\ node \in Slots /\ p \in Slots /\ gone # node /\ gone # p
      /\ node # p /\ level[gone] = 0 /\ level[node] = 0
    <2>1. level[node] = 0
        BY <1>1, <1>3, <1>4, UnderflowData DEF OrderState
    <2>2. QED
        BY <1>5, <2>1 DEF Siblings
<1>7. PICK s \in Keys, a, b \in Nat :
         /\ s \notin hi[node] /\ Above(lo[gone], s)
         /\ LeafBetween(a, keys[gone], lo[gone], Up(s))
         /\ LeafBetween(b, keys[node], Up(s), hi[node])
         /\ edges[gone] = <<>> /\ edges[node] = <<>>
    BY <1>1, <1>5, <1>6, LeafPair
<1>8. /\ LeafOrdered(keys[gone] \o keys[node], lo[gone], hi[node])
      /\ ToSet(keys[gone] \o keys[node]) = ToSet(keys[gone]) \cup ToSet(keys[node])
    BY ONLY <1>7, LeavesJoin
<1>9. /\ keys \in [Slots -> Seq(Keys)] /\ edges \in [Slots -> Seq(Slots)]
      /\ parent \in [Slots -> Slots \cup {NULL}]
      /\ prev \in [Slots -> Slots \cup {NULL}] /\ next \in [Slots -> Slots \cup {NULL}]
    BY <1>1 DEF OrderState, Local, DataTypes, Wiring, Forest
<1>10. /\ keys'[p] = RemoveAt(keys[p], i) /\ edges'[p] = RemoveAt(edges[p], i)
       /\ keys'[gone] = <<>> /\ keys'[node] = keys[gone] \o keys[node]
       /\ \A t \in Slots \ {gone, node, p} : keys'[t] = keys[t] /\ edges'[t] = edges[t]
       /\ \A t \in Slots \ {gone} : level'[t] = level[t] /\ parent'[t] = parent[t]
    BY ONLY <1>4, <1>5, <1>6, <1>9
<1>11. NodeOrdered(level[node], keys'[node], edges'[node], lo[gone], hi[node], lo, hi)
    BY ONLY <1>6, <1>8, <1>10 DEF NodeOrdered
<1>12. LeafKeys(node)' = LeafKeys(gone) \cup LeafKeys(node)
    BY ONLY <1>4, <1>6, <1>8, <1>10 DEF LeafKeys
<1>13. LinkedAround(gone, node, node, gone)
    <2>1. /\ prev[gone] \notin {gone, node}
          /\ next[node] # NULL => prev[next[node]] = node
          /\ prev[gone] # NULL => prev[gone] \in Slots
        BY <1>1, <1>5, <1>6, EndsApart
    <2>2. /\ prev'[node] = prev[gone] /\ prev'[gone] = NULL
          /\ \A t \in Slots \ {gone, node} : prev'[t] = prev[t]
        BY ONLY <1>4, <1>6, <1>9
    <2>3. \A t \in Slots : next'[t] = IF t = prev[gone] THEN node
                                      ELSE IF t = gone THEN NULL ELSE next[t]
        BY ONLY <1>4, <1>6, <1>9 DEF SetLink
    <2>4. \A t \in Slots \ {gone, node} : t = next[node] => prev[t] = node
        BY ONLY <2>1, SlotsAssumption
    <2>5. QED
        BY ONLY <1>6, <2>1, <2>2, <2>3, <2>4 DEF LinkedAround
<1>14. Merged(lo, hi, p, i, gone, node, node, gone)
    <2>1. op'.pc # "overflow" /\ (op'.pc # "idle" => op'.node = p /\ op'.map = op.map)
        BY <1>4, MergedStep
    <2>2. QED
        BY ONLY <1>4, <1>6, <1>10, <1>11, <1>12, <1>13, <2>1 DEF Merged
<1>15. QED
    BY <1>1, <1>2, <1>3, <1>4, <1>5, <1>14, MergeOrder

LEMMA MergeNextLeafOrder ==
    ASSUME IInv, Ordered, MergeNextLeaf
    PROVE  Ordered'
<1>1. PICK owner, lo, hi : OrderState(owner, lo, hi)
    BY OrderFound
<1>2. IInv'
    BY MergeNextLeafInv
<1>3. PICK node, p, gone : node = op.node /\ p = parent[op.node] /\ gone = NextSibling
    OBVIOUS
<1>4. /\ op.pc = "underflow" /\ op.is_leaf = TRUE /\ p # NULL /\ ~HasPrev
      /\ keys' = [keys EXCEPT ![node] = @ \o keys[gone], ![gone] = <<>>,
                              ![p] = RemoveAt(@, 1)]
      /\ edges' = [edges EXCEPT ![p] = RemoveAt(@, 2)]
      /\ parent' = [parent EXCEPT ![gone] = NULL]
      /\ next' = [next EXCEPT ![node] = next[gone], ![gone] = NULL]
      /\ prev' = SetLink([prev EXCEPT ![gone] = NULL], next[gone], node)
      /\ live' = live \ {gone} /\ MergedIntoParent(p)
      /\ level' = level /\ root' = root /\ length' = length
    BY <1>3 DEF MergeNextLeaf, Underflowing, AtRoot, mapVars
<1>5. PICK n : Siblings(owner, lo, hi, p, n, 1, node, gone)
    <2>1. HasNext /\ parent_idx[node] = 0
        BY <1>1, <1>3, <1>4, FirstHasNext DEF OrderState
    <2>2. PICK n, i \in Nat : /\ parent_idx[node] = i
                              /\ Siblings(owner, lo, hi, p, n, i + 1, node, gone)
        BY <1>1, <1>3, <1>4, <2>1, NextSiblings
    <2>3. i + 1 = 1
        BY <2>1, <2>2
    <2>4. QED
        BY <2>2, <2>3
<1>6. /\ gone \in Slots /\ node \in Slots /\ p \in Slots /\ gone # node /\ gone # p
      /\ node # p /\ level[gone] = 0 /\ level[node] = 0
    <2>1. level[node] = 0
        BY <1>1, <1>3, <1>4, UnderflowData DEF OrderState
    <2>2. QED
        BY <1>5, <2>1 DEF Siblings
<1>7. PICK s \in Keys, a, b \in Nat :
         /\ s \notin hi[gone] /\ Above(lo[node], s)
         /\ LeafBetween(a, keys[node], lo[node], Up(s))
         /\ LeafBetween(b, keys[gone], Up(s), hi[gone])
         /\ edges[node] = <<>> /\ edges[gone] = <<>>
    BY <1>1, <1>5, <1>6, LeafPair
<1>8. /\ LeafOrdered(keys[node] \o keys[gone], lo[node], hi[gone])
      /\ ToSet(keys[node] \o keys[gone]) = ToSet(keys[node]) \cup ToSet(keys[gone])
    BY ONLY <1>7, LeavesJoin
<1>9. /\ keys \in [Slots -> Seq(Keys)] /\ edges \in [Slots -> Seq(Slots)]
      /\ parent \in [Slots -> Slots \cup {NULL}]
      /\ prev \in [Slots -> Slots \cup {NULL}] /\ next \in [Slots -> Slots \cup {NULL}]
    BY <1>1 DEF OrderState, Local, DataTypes, Wiring, Forest
<1>10. /\ keys'[p] = RemoveAt(keys[p], 1) /\ edges'[p] = RemoveAt(edges[p], 1 + 1)
       /\ keys'[gone] = <<>> /\ keys'[node] = keys[node] \o keys[gone]
       /\ \A t \in Slots \ {node, gone, p} : keys'[t] = keys[t] /\ edges'[t] = edges[t]
       /\ \A t \in Slots \ {gone} : level'[t] = level[t] /\ parent'[t] = parent[t]
    <2>1. 1 + 1 = 2
        OBVIOUS
    <2>2. QED
        BY ONLY <1>4, <1>5, <1>6, <1>9, <2>1
<1>11. NodeOrdered(level[node], keys'[node], edges'[node], lo[node], hi[gone], lo, hi)
    BY ONLY <1>6, <1>8, <1>10 DEF NodeOrdered
<1>12. LeafKeys(node)' = LeafKeys(node) \cup LeafKeys(gone)
    BY ONLY <1>4, <1>6, <1>8, <1>10 DEF LeafKeys
<1>13. LinkedAround(node, gone, node, gone)
    <2>1. /\ next[gone] \notin {gone, node}
          /\ prev[node] # NULL => next[prev[node]] = node
          /\ next[gone] # NULL => next[gone] \in Slots
        BY <1>1, <1>5, <1>6, EndsApart
    <2>2. /\ next'[node] = next[gone] /\ next'[gone] = NULL
          /\ \A t \in Slots \ {gone, node} : next'[t] = next[t]
        BY ONLY <1>4, <1>6, <1>9
    <2>3. \A t \in Slots : prev'[t] = IF t = next[gone] THEN node
                                      ELSE IF t = gone THEN NULL ELSE prev[t]
        BY ONLY <1>4, <1>6, <1>9 DEF SetLink
    <2>4. \A t \in Slots \ {gone, node} : t = prev[node] => next[t] = node
        BY ONLY <2>1, SlotsAssumption
    <2>5. QED
        BY ONLY <1>6, <2>1, <2>2, <2>3, <2>4 DEF LinkedAround
<1>14. Merged(lo, hi, p, 1, node, gone, node, gone)
    <2>1. op'.pc # "overflow" /\ (op'.pc # "idle" => op'.node = p /\ op'.map = op.map)
        BY <1>4, MergedStep
    <2>2. QED
        BY ONLY <1>4, <1>6, <1>10, <1>11, <1>12, <1>13, <2>1 DEF Merged
<1>15. QED
    BY <1>1, <1>2, <1>3, <1>4, <1>5, <1>14, MergeOrder

LEMMA MergePrevInternalOrder ==
    ASSUME IInv, Ordered, MergePrevInternal
    PROVE  Ordered'
<1>1. PICK owner, lo, hi : OrderState(owner, lo, hi)
    BY OrderFound
<1>2. IInv'
    BY MergePrevInternalInv
<1>3. PICK node, p, gone, taken : node = op.node /\ p = parent[op.node] /\ gone = PrevSibling
                                  /\ taken = ToSet(edges[PrevSibling])
    OBVIOUS
<1>4. /\ op.pc = "underflow" /\ op.is_leaf = FALSE /\ p # NULL /\ HasPrev
      /\ keys' = [keys EXCEPT ![node] = Append(keys[gone], keys[p][parent_idx[node]]) \o @,
                              ![gone] = <<>>, ![p] = RemoveAt(@, parent_idx[node])]
      /\ edges' = [edges EXCEPT ![node] = edges[gone] \o @, ![gone] = <<>>,
                                ![p] = RemoveAt(@, parent_idx[node])]
      /\ parent' = [c \in Slots |-> IF c \in taken THEN node
                                    ELSE IF c = gone THEN NULL ELSE parent[c]]
      /\ level' = [level EXCEPT ![gone] = 0]
      /\ live' = live \ {gone} /\ MergedIntoParent(p)
      /\ prev' = prev /\ next' = next /\ root' = root /\ length' = length
    BY <1>3 DEF MergePrevInternal, Underflowing, AtRoot, mapVars
<1>5. PICK n, i \in Nat : parent_idx[node] = i /\ Siblings(owner, lo, hi, p, n, i, gone, node)
    BY <1>1, <1>3, <1>4, PrevSiblings
<1>6. /\ gone \in Slots /\ node \in Slots /\ p \in Slots /\ gone # node /\ gone # p
      /\ node # p /\ level[gone] # 0 /\ level[node] # 0
    <2>1. level[node] # 0
        BY <1>1, <1>3, <1>4, UnderflowData DEF OrderState
    <2>2. QED
        BY <1>5, <2>1 DEF Siblings
<1>7. PICK s \in Keys, a, b \in Nat :
         /\ s = keys[p][i] /\ s \notin hi[node] /\ Above(lo[gone], s)
         /\ Divided(a, keys[gone], edges[gone], lo[gone], Up(s), lo, hi)
         /\ Divided(b, keys[node], edges[node], Up(s), hi[node], lo, hi)
    <2>1. op.pc # "overflow"
        BY <1>4
    <2>2. QED
        BY ONLY <1>1, <1>5, <1>6, <2>1, InternalPair
<1>8. Divides(Append(keys[gone], s) \o keys[node], edges[gone] \o edges[node],
              lo[gone], hi[node], lo, hi)
    BY ONLY <1>7, EdgesJoin
<1>9. /\ keys \in [Slots -> Seq(Keys)] /\ edges \in [Slots -> Seq(Slots)]
      /\ parent \in [Slots -> Slots \cup {NULL}] /\ level \in [Slots -> Nat]
    BY <1>1 DEF OrderState, Local, DataTypes, Wiring, Forest
<1>10. /\ keys'[p] = RemoveAt(keys[p], i) /\ edges'[p] = RemoveAt(edges[p], i)
       /\ keys'[gone] = <<>> /\ keys'[node] = Append(keys[gone], s) \o keys[node]
       /\ edges'[node] = edges[gone] \o edges[node]
       /\ \A t \in Slots \ {gone, node, p} : keys'[t] = keys[t] /\ edges'[t] = edges[t]
       /\ \A t \in Slots \ {gone} : level'[t] = level[t]
    BY ONLY <1>4, <1>5, <1>6, <1>7, <1>9
<1>11. NodeOrdered(level[node], keys'[node], edges'[node], lo[gone], hi[node], lo, hi)
    BY ONLY <1>6, <1>8, <1>10 DEF NodeOrdered
<1>12. LeafKeys(node)' = LeafKeys(gone) \cup LeafKeys(node)
    BY ONLY <1>6, <1>10 DEF LeafKeys
<1>13. \A t \in Slots \ {gone} : \/ parent'[t] = parent[t]
                                 \/ parent[t] = gone /\ parent'[t] = node
    <2>1. \A t \in Slots : t \in taken => parent[t] = gone
        BY <1>1, <1>3, <1>6, EdgesAre DEF OrderState, Wiring
    <2>2. QED
        BY ONLY <1>4, <2>1
<1>14. Merged(lo, hi, p, i, gone, node, node, gone)
    <2>1. op'.pc # "overflow" /\ (op'.pc # "idle" => op'.node = p /\ op'.map = op.map)
        BY <1>4, MergedStep
    <2>2. QED
        BY ONLY <1>4, <1>6, <1>10, <1>11, <1>12, <1>13, <2>1 DEF Merged
<1>15. QED
    BY <1>1, <1>2, <1>3, <1>4, <1>5, <1>14, MergeOrder

LEMMA MergeNextInternalOrder ==
    ASSUME IInv, Ordered, MergeNextInternal
    PROVE  Ordered'
<1>1. PICK owner, lo, hi : OrderState(owner, lo, hi)
    BY OrderFound
<1>2. IInv'
    BY MergeNextInternalInv
<1>3. PICK node, p, gone, taken : node = op.node /\ p = parent[op.node] /\ gone = NextSibling
                                  /\ taken = ToSet(edges[NextSibling])
    OBVIOUS
<1>4. /\ op.pc = "underflow" /\ op.is_leaf = FALSE /\ p # NULL /\ ~HasPrev
      /\ keys' = [keys EXCEPT ![node] = Append(@, keys[p][1]) \o keys[gone],
                              ![gone] = <<>>, ![p] = RemoveAt(@, 1)]
      /\ edges' = [edges EXCEPT ![node] = @ \o edges[gone], ![gone] = <<>>,
                                ![p] = RemoveAt(@, 2)]
      /\ parent' = [c \in Slots |-> IF c \in taken THEN node
                                    ELSE IF c = gone THEN NULL ELSE parent[c]]
      /\ level' = [level EXCEPT ![gone] = 0]
      /\ live' = live \ {gone} /\ MergedIntoParent(p)
      /\ prev' = prev /\ next' = next /\ root' = root /\ length' = length
    BY <1>3 DEF MergeNextInternal, Underflowing, AtRoot, mapVars
<1>5. PICK n : Siblings(owner, lo, hi, p, n, 1, node, gone)
    <2>1. HasNext /\ parent_idx[node] = 0
        BY <1>1, <1>3, <1>4, FirstHasNext DEF OrderState
    <2>2. PICK n, i \in Nat : /\ parent_idx[node] = i
                              /\ Siblings(owner, lo, hi, p, n, i + 1, node, gone)
        BY <1>1, <1>3, <1>4, <2>1, NextSiblings
    <2>3. i + 1 = 1
        BY <2>1, <2>2
    <2>4. QED
        BY <2>2, <2>3
<1>6. /\ gone \in Slots /\ node \in Slots /\ p \in Slots /\ gone # node /\ gone # p
      /\ node # p /\ level[gone] # 0 /\ level[node] # 0
    <2>1. level[node] # 0
        BY <1>1, <1>3, <1>4, UnderflowData DEF OrderState
    <2>2. QED
        BY <1>5, <2>1 DEF Siblings
<1>7. PICK s \in Keys, a, b \in Nat :
         /\ s = keys[p][1] /\ s \notin hi[gone] /\ Above(lo[node], s)
         /\ Divided(a, keys[node], edges[node], lo[node], Up(s), lo, hi)
         /\ Divided(b, keys[gone], edges[gone], Up(s), hi[gone], lo, hi)
    <2>1. op.pc # "overflow"
        BY <1>4
    <2>2. QED
        BY ONLY <1>1, <1>5, <1>6, <2>1, InternalPair
<1>8. Divides(Append(keys[node], s) \o keys[gone], edges[node] \o edges[gone],
              lo[node], hi[gone], lo, hi)
    BY ONLY <1>7, EdgesJoin
<1>9. /\ keys \in [Slots -> Seq(Keys)] /\ edges \in [Slots -> Seq(Slots)]
      /\ parent \in [Slots -> Slots \cup {NULL}] /\ level \in [Slots -> Nat]
    BY <1>1 DEF OrderState, Local, DataTypes, Wiring, Forest
<1>10. /\ keys'[p] = RemoveAt(keys[p], 1) /\ edges'[p] = RemoveAt(edges[p], 1 + 1)
       /\ keys'[gone] = <<>> /\ keys'[node] = Append(keys[node], s) \o keys[gone]
       /\ edges'[node] = edges[node] \o edges[gone]
       /\ \A t \in Slots \ {node, gone, p} : keys'[t] = keys[t] /\ edges'[t] = edges[t]
       /\ \A t \in Slots \ {gone} : level'[t] = level[t]
    <2>1. 1 + 1 = 2
        OBVIOUS
    <2>2. QED
        BY ONLY <1>4, <1>6, <1>7, <1>9, <2>1
<1>11. NodeOrdered(level[node], keys'[node], edges'[node], lo[node], hi[gone], lo, hi)
    BY ONLY <1>6, <1>8, <1>10 DEF NodeOrdered
<1>12. LeafKeys(node)' = LeafKeys(node) \cup LeafKeys(gone)
    BY ONLY <1>6, <1>10 DEF LeafKeys
<1>13. \A t \in Slots \ {gone} : \/ parent'[t] = parent[t]
                                 \/ parent[t] = gone /\ parent'[t] = node
    <2>1. \A t \in Slots : t \in taken => parent[t] = gone
        BY <1>1, <1>3, <1>6, EdgesAre DEF OrderState, Wiring
    <2>2. QED
        BY ONLY <1>4, <2>1
<1>14. Merged(lo, hi, p, 1, node, gone, node, gone)
    <2>1. op'.pc # "overflow" /\ (op'.pc # "idle" => op'.node = p /\ op'.map = op.map)
        BY <1>4, MergedStep
    <2>2. QED
        BY ONLY <1>4, <1>6, <1>10, <1>11, <1>12, <1>13, <2>1 DEF Merged
<1>15. QED
    BY <1>1, <1>2, <1>3, <1>4, <1>5, <1>14, MergeOrder

-----------------------------------------------------------------------------
(***************************************************************************)
(* A split: the key between the halves divides the interval of the node.   *)
(***************************************************************************)
LEMMA InternalSplit ==
    ASSUME NEW z, z = M + 1, NEW ks, NEW es, NEW L, NEW H, NEW lo, NEW hi,
           Divided(z, ks, es, L, H, lo, hi), NEW k, k = InternalSplitKey(ks)
    PROVE  \E h \in Nat :
              /\ k \in Keys /\ Above(L, k) /\ k \notin H
              /\ InternalLeft(ks) \in Seq(Keys) /\ Len(InternalLeft(ks)) = h
              /\ InternalRight(ks) \in Seq(Keys) /\ Len(InternalRight(ks)) = h
              /\ EdgesLeft(es) \in Seq(Slots) /\ Len(EdgesLeft(es)) = h + 1
              /\ EdgesRight(es) \in Seq(Slots) /\ Len(EdgesRight(es)) = h + 1
              /\ \A i \in 1 .. h + 1 : EdgesLeft(es)[i] \in ToSet(es) /\ EdgesRight(es)[i] \in ToSet(es)
              /\ ToSet(EdgesRight(es)) \subseteq ToSet(es)
              /\ Divides(InternalLeft(ks), EdgesLeft(es), L, Up(k), lo, hi)
              /\ Divides(InternalRight(ks), EdgesRight(es), Up(k), H, lo, hi)
<1>1. /\ z \in Nat /\ ks \in Seq(Keys) /\ Len(ks) = z
      /\ es \in Seq(Slots) /\ Len(es) = z + 1 /\ DOMAIN es = 1 .. z + 1
    BY DEF Divided
<1>2. PICK h \in Nat : h >= 1 /\ M = h + h /\ M \div 2 = h
    BY HalfOfM
<1>3. PICK j, y \in Nat : /\ j = h + 1 /\ y = z + 1 /\ j \in 1 .. z /\ y = M + 2 /\ y = j + j
                          /\ j \in Nat /\ y \in Nat /\ h \in Nat /\ j >= 1
    <2>1. /\ h + 1 \in 1 .. z /\ z + 1 = M + 2 /\ z + 1 = (h + 1) + (h + 1)
          /\ h + 1 \in Nat /\ z + 1 \in Nat
        BY <1>1, <1>2
    <2>2. QED
        BY <2>1
<1>4. /\ InternalLeft(ks) \in Seq(Keys) /\ Len(InternalLeft(ks)) = h
      /\ InternalRight(ks) \in Seq(Keys) /\ Len(InternalRight(ks)) = h
      /\ k \in Keys
    BY <1>1, <1>2, InternalHalves
<1>5. /\ EdgesLeft(es) = SubSeq(es, 1, j) /\ EdgesRight(es) = SubSeq(es, j + 1, y)
    BY <1>1, <1>2, <1>3, EdgeHalves
<1>6. Median(ks) = h
    <2>1. Len(ks) - 1 = M
        BY <1>1, <1>2
    <2>2. QED
        BY <1>2, <2>1 DEF Median
<1>7. /\ InternalLeft(ks) = SubSeq(ks, 1, j - 1) /\ InternalRight(ks) = SubSeq(ks, j + 1, z)
      /\ k = ks[j]
    <2>1. h + 2 = j + 1
        BY <1>3
    <2>2. QED
        BY <1>1, <1>3, <1>6, <2>1 DEF InternalLeft, InternalRight, InternalSplitKey
<1>8. /\ Divides(SubSeq(ks, 1, j - 1), SubSeq(es, 1, j), L, Up(ks[j]), lo, hi)
      /\ Divides(SubSeq(ks, j + 1, z), SubSeq(es, j + 1, z + 1), Up(ks[j]), H, lo, hi)
    BY <1>3, DividesHalves
<1>9. Above(L, ks[j]) /\ ks[j] \notin H
    BY <1>3, DividesSpan
<1>10. /\ SubSeq(es, 1, j) \in Seq(Slots) /\ Len(SubSeq(es, 1, j)) = h + 1
       /\ SubSeq(es, 1, j) = [i \in 1 .. h + 1 |-> es[i]]
    <2>1. 1 \in 1 .. y + 1 /\ j \in 0 .. y /\ 1 <= j + 1 /\ j - 1 + 1 = h + 1 /\ Len(es) = y
        BY ONLY <1>1, <1>3
    <2>2. /\ SubSeq(es, 1, j) \in Seq(Slots) /\ Len(SubSeq(es, 1, j)) = j - 1 + 1
          /\ SubSeq(es, 1, j) = [i \in 1 .. j - 1 + 1 |-> es[1 + i - 1]]
        BY <1>1, <2>1, SegmentSeq, SegmentDef
    <2>3. QED
        BY <2>1, <2>2
<1>11. /\ SubSeq(es, j + 1, y) \in Seq(Slots) /\ Len(SubSeq(es, j + 1, y)) = h + 1
       /\ SubSeq(es, j + 1, y) = [i \in 1 .. h + 1 |-> es[j + i]]
    <2>1. PICK a \in Nat : a = j + 1 /\ a \in Nat
        BY <1>3
    <2>2. a \in 1 .. y + 1 /\ y \in 0 .. y /\ a <= y + 1 /\ y - a + 1 = h + 1 /\ Len(es) = y
        BY ONLY <1>1, <1>3, <2>1
    <2>3. /\ SubSeq(es, a, y) \in Seq(Slots) /\ Len(SubSeq(es, a, y)) = y - a + 1
          /\ SubSeq(es, a, y) = [i \in 1 .. y - a + 1 |-> es[a + i - 1]]
        BY <1>1, <2>2, SegmentSeq, SegmentDef
    <2>4. \A i \in 1 .. h + 1 : a + i - 1 = j + i
        BY <1>2, <1>3, <2>1
    <2>5. QED
        BY <2>1, <2>2, <2>3, <2>4
<1>12. \A i \in 1 .. h + 1 : es[i] \in ToSet(es) /\ es[j + i] \in ToSet(es)
    <2>1. \A i \in 1 .. h + 1 : i \in 1 .. z + 1 /\ j + i \in 1 .. z + 1
        BY <1>1, <1>2, <1>3
    <2>2. QED
        BY <1>1, <2>1 DEF ToSet
<1>13. ToSet(SubSeq(es, j + 1, y)) \subseteq ToSet(es)
    <2>1. DOMAIN SubSeq(es, j + 1, y) = 1 .. h + 1
        BY <1>11
    <2>2. QED
        BY ONLY <1>11, <1>12, <2>1 DEF ToSet
<1>14. /\ Divides(InternalLeft(ks), EdgesLeft(es), L, Up(k), lo, hi)
       /\ Divides(InternalRight(ks), EdgesRight(es), Up(k), H, lo, hi)
    BY ONLY <1>3, <1>5, <1>7, <1>8
<1>15. k \in Keys /\ Above(L, k) /\ k \notin H
    BY ONLY <1>4, <1>7, <1>9
<1>16. /\ EdgesLeft(es) \in Seq(Slots) /\ Len(EdgesLeft(es)) = h + 1
       /\ EdgesRight(es) \in Seq(Slots) /\ Len(EdgesRight(es)) = h + 1
       /\ \A i \in 1 .. h + 1 : EdgesLeft(es)[i] \in ToSet(es) /\ EdgesRight(es)[i] \in ToSet(es)
       /\ ToSet(EdgesRight(es)) \subseteq ToSet(es)
    BY ONLY <1>5, <1>10, <1>11, <1>12, <1>13
<1>17. QED
    BY ONLY <1>3, <1>4, <1>14, <1>15, <1>16

LEMMA SplitParentOrder ==
    ASSUME IInv, Ordered, SplitParent
    PROVE  Ordered'
<1>1. PICK owner, lo, hi : OrderState(owner, lo, hi)
    BY OrderFound
<1>2. /\ Local /\ Wiring(owner) /\ OpOwned(owner) /\ RootsOwned(owner)
      /\ lo \in [Slots -> Cuts] /\ hi \in [Slots -> Cuts] /\ NodesOrdered(lo, hi)
      /\ LinksOrdered(owner, lo, hi) /\ EntriesCounted(owner) /\ NoStrayLinks
    BY <1>1 DEF OrderState
<1>3. PICK left, right, p, m, key, new :
         /\ left = op.node /\ right = op.right /\ p = parent[op.node]
         /\ m = op.map /\ key = op.key /\ new = Fresh
    OBVIOUS
<1>4. PICK ks, es, k : /\ ks = InsertAt(keys[p], parent_idx[left] + 1, key)
                       /\ es = InsertAt(edges[p], parent_idx[left] + 2, right)
                       /\ k = InternalSplitKey(ks)
    OBVIOUS
<1>5. /\ op.pc = "overflow" /\ p # NULL /\ ~HasRoom(Len(keys[p])) /\ CanAlloc
      /\ live' = live \cup {new} /\ level' = [level EXCEPT ![new] = level[p]]
      /\ keys' = [keys EXCEPT ![p] = InternalLeft(ks), ![new] = InternalRight(ks)]
      /\ edges' = [edges EXCEPT ![p] = EdgesLeft(es), ![new] = EdgesRight(es)]
      /\ parent' = [c \in Slots |-> IF c \in ToSet(EdgesRight(es)) THEN new
                                    ELSE IF c = right THEN p ELSE parent[c]]
      /\ op' = [op EXCEPT !.node = p, !.right = new, !.key = k]
      /\ prev' = prev /\ next' = next /\ root' = root /\ length' = length
    BY <1>3, <1>4 DEF SplitParent
<1>6. /\ op \in OverflowOps /\ m \in Maps /\ key \in Keys /\ left \in live /\ right \in live
      /\ left # right /\ left \in Slots /\ right \in Slots
      /\ parent[right] = NULL
      /\ owner[left] = m /\ owner[right] = m
      /\ level[right] = level[left]
    BY <1>2, <1>3, <1>5, OverflowData
<1>7. /\ op'.pc = "overflow" /\ op'.map = m /\ op'.node = p /\ op'.right = new /\ op'.key = k
    BY <1>3, <1>5, <1>6 DEF OverflowOps
<1>8. /\ p \in live /\ p \in Slots /\ p # left /\ level[p] \in Nat /\ level[p] # 0
      /\ level[left] = level[p] - 1 /\ level[left] \in Nat /\ owner[p] = m
    BY <1>2, <1>3, <1>5, <1>6, ParentOf
<1>9. /\ new \in Slots /\ new \notin live /\ keys[new] = <<>> /\ edges[new] = <<>>
      /\ parent[new] = NULL /\ level[new] = 0
      /\ \A q \in Maps : root[q] # new
      /\ \A s \in Slots : parent[s] # new
    BY <1>2, <1>3, <1>5, FreshData
<1>10. p # right /\ new # p /\ new # right /\ new # left /\ NULL \notin Slots
    BY <1>6, <1>8, <1>9, SlotsAssumption
<1>11. /\ live \subseteq Slots /\ owner \in [Slots -> Maps] /\ level \in [Slots -> Nat]
       /\ keys \in [Slots -> Seq(Keys)] /\ edges \in [Slots -> Seq(Slots)]
       /\ parent \in [Slots -> Slots \cup {NULL}]
       /\ root \in [Maps -> Slots \cup {NULL}] /\ length \in [Maps -> Int]
    BY <1>2 DEF Local, DataTypes, Wiring, Forest
<1>12. /\ Separates(key, left, right, lo, hi)
       /\ \A c \in Slots : c # left => Far(hi)[c] = hi[c]
       /\ Far(hi)[left] = hi[right]
       /\ \A q \in Maps : Uncounted(q) = IF q = m THEN 1 ELSE 0
    BY <1>1, <1>3, <1>5, OverflowOrder
<1>13. PICK n, i \in Nat :
         /\ i <= n /\ n <= M /\ parent_idx[left] = i /\ edges[p][i + 1] = left
         /\ Len(keys[p]) = n
         /\ Divided(n, keys[p], edges[p], lo[p], hi[p], lo, Far(hi))
         /\ \A j \in 1 .. n + 1 : /\ edges[p][j] \in live /\ edges[p][j] \in Slots
                                  /\ parent[edges[p][j]] = p
                                  /\ parent_idx[edges[p][j]] = j - 1
    BY <1>1, <1>3, <1>5, <1>6, PlaceInOrder
<1>14. PICK j \in 1 .. n + 1 : j = i + 1 /\ j + 1 = i + 2
    BY <1>13
<1>15. PICK z \in Nat : z = n + 1 /\ z = M + 1 /\ z \in Nat
    <2>1. n = M
        BY <1>5, <1>13, MAssumption DEF HasRoom
    <2>2. QED
        BY <1>13, <2>1
<1>16. /\ Divided(z, ks, es, lo[p], hi[p], lo, hi)
       /\ \A c \in ToSet(es) : c \in Slots /\ (c = right \/ parent[c] = p)
    <2>1. PICK far : far = Far(hi)
        OBVIOUS
    <2>2. Divided(n, keys[p], edges[p], lo[p], hi[p], lo, far)
        BY <1>13, <2>1
    <2>3. \A c \in 1 .. n + 1 : c # j => hi[edges[p][c]] = far[edges[p][c]]
        <3>1. \A c \in 1 .. n + 1 : c # j => edges[p][c] # edges[p][j]
            BY <1>13
        <3>2. QED
            BY <1>13, <1>14, <1>12, <2>1, <3>1
    <2>4. hi[right] = far[edges[p][j]] /\ Separates(key, edges[p][j], right, lo, hi)
        BY <1>13, <1>14, <1>12, <2>1
    <2>5. Divides(InsertAt(keys[p], j, key), InsertAt(edges[p], j + 1, right), lo[p], hi[p], lo, hi)
        BY <1>2, <1>6, <2>2, <2>3, <2>4, DividesInsert
    <2>6. ks = InsertAt(keys[p], j, key) /\ es = InsertAt(edges[p], j + 1, right)
        BY <1>4, <1>13, <1>14
    <2>7. /\ keys[p] \in Seq(Keys) /\ Len(keys[p]) = n /\ edges[p] \in Seq(Slots) /\ Len(edges[p]) = z
          /\ lo[p] \in Cuts /\ hi[p] \in Cuts
        BY <1>13, <1>15 DEF Divided
    <2>8. ks \in Seq(Keys) /\ Len(ks) = z
        <3>1. InsertAt(keys[p], j, key) \in Seq(Keys) /\ Len(InsertAt(keys[p], j, key)) = n + 1
            BY <1>6, <2>7, InsertAtSeq
        <3>2. QED
            BY ONLY <1>15, <2>6, <3>1
    <2>9. PICK a \in 1 .. z + 1 : a = j + 1 /\ a \in 1 .. z + 1
        BY <1>14, <1>15
    <2>10. es \in Seq(Slots) /\ Len(es) = z + 1
        <3>1. InsertAt(edges[p], a, right) \in Seq(Slots) /\ Len(InsertAt(edges[p], a, right)) = z + 1
            <4>1. /\ z \in Nat /\ a \in 1 .. z + 1 /\ right \in Slots
                  /\ edges[p] \in Seq(Slots) /\ Len(edges[p]) = z
                BY ONLY <1>6, <1>15, <2>7, <2>9
            <4>2. QED
                BY ONLY <4>1, InsertAtSeq
        <3>2. QED
            BY ONLY <2>6, <2>9, <3>1
    <2>11. ToSet(es) = ToSet(edges[p]) \cup {right}
        BY <1>6, <1>15, <2>6, <2>7, <2>9, InsertedSet
    <2>12. \A c \in ToSet(edges[p]) : c \in Slots /\ parent[c] = p
        <3>1. DOMAIN edges[p] = 1 .. n + 1
            BY <1>15, <2>7
        <3>2. QED
            BY <1>13, <3>1 DEF ToSet
    <2>13. Divided(z, ks, es, lo[p], hi[p], lo, hi)
        BY <1>2, <1>15, <2>5, <2>6, <2>7, <2>8, <2>10 DEF Divided
    <2>14. QED
        BY <1>6, <2>11, <2>12, <2>13
<1>17. PICK h \in Nat :
          /\ k \in Keys /\ Above(lo[p], k) /\ k \notin hi[p]
          /\ InternalLeft(ks) \in Seq(Keys) /\ Len(InternalLeft(ks)) = h
          /\ InternalRight(ks) \in Seq(Keys) /\ Len(InternalRight(ks)) = h
          /\ EdgesLeft(es) \in Seq(Slots) /\ Len(EdgesLeft(es)) = h + 1
          /\ EdgesRight(es) \in Seq(Slots) /\ Len(EdgesRight(es)) = h + 1
          /\ \A c \in 1 .. h + 1 : EdgesLeft(es)[c] \in ToSet(es) /\ EdgesRight(es)[c] \in ToSet(es)
          /\ ToSet(EdgesRight(es)) \subseteq ToSet(es)
          /\ Divides(InternalLeft(ks), EdgesLeft(es), lo[p], Up(k), lo, hi)
          /\ Divides(InternalRight(ks), EdgesRight(es), Up(k), hi[p], lo, hi)
    BY <1>4, <1>15, <1>16, InternalSplit
<1>18. PICK lo2, hi2, ow2, far2 : /\ lo2 = [lo EXCEPT ![new] = Up(k)]
                                  /\ hi2 = [hi EXCEPT ![p] = Up(k), ![new] = hi[p]]
                                  /\ ow2 = [owner EXCEPT ![new] = m]
                                  /\ far2 = [hi2 EXCEPT ![p] = hi2[new]]
    OBVIOUS
<1>19. /\ lo2 \in [Slots -> Cuts] /\ hi2 \in [Slots -> Cuts] /\ ow2 \in [Slots -> Maps]
       /\ \A s \in Slots :
             /\ lo2[s] = IF s = new THEN Up(k) ELSE lo[s]
             /\ hi2[s] = IF s = p THEN Up(k) ELSE IF s = new THEN hi[p] ELSE hi[s]
             /\ ow2[s] = IF s = new THEN m ELSE owner[s]
             /\ far2[s] = IF s = new THEN hi[p] ELSE hi[s]
    <2>1. Up(k) \in Cuts /\ hi[p] \in Cuts
        BY <1>2, <1>8, <1>17 DEF Cuts
    <2>2. QED
        BY ONLY <1>2, <1>6, <1>8, <1>9, <1>10, <1>11, <1>18, <2>1
<1>20. Far(hi2)' = far2 /\ \A s \in Slots : InPlace(s)' <=> s # new
    BY <1>7, <1>18 DEF Far, InPlace
<1>21. /\ keys'[p] = InternalLeft(ks) /\ keys'[new] = InternalRight(ks)
       /\ edges'[p] = EdgesLeft(es) /\ edges'[new] = EdgesRight(es)
       /\ level'[new] = level[p]
       /\ \A s \in Slots \ {p, new} : keys'[s] = keys[s] /\ edges'[s] = edges[s]
       /\ \A s \in Slots \ {new} : level'[s] = level[s]
    BY ONLY <1>5, <1>8, <1>9, <1>10, <1>11
<1>22. \A c \in ToSet(es) : lo2[c] = lo[c] /\ far2[c] = hi[c]
    BY ONLY <1>8, <1>9, <1>10, <1>16, <1>19
<1>23. ASSUME NEW xs, NEW fs, xs \in Seq(Keys), Len(xs) = h, fs \in Seq(Slots), Len(fs) = h + 1,
              \A c \in 1 .. h + 1 : fs[c] \in ToSet(es),
              NEW L, NEW H, Divides(xs, fs, L, H, lo, hi)
       PROVE  Divides(xs, fs, L, H, lo2, far2)
    <2>1. \A c \in 1 .. h + 1 : lo2[fs[c]] = lo[fs[c]] /\ far2[fs[c]] = hi[fs[c]]
        BY ONLY <1>22, <1>23
    <2>2. QED
        BY ONLY <1>17, <1>23, <2>1, DividesFrame
<1>24. /\ NodeOrdered(level'[p], keys'[p], edges'[p], lo2[p], hi2[p], lo2, far2)
       /\ NodeOrdered(level'[new], keys'[new], edges'[new], lo2[new], hi2[new], lo2, far2)
    <2>1. /\ Divides(InternalLeft(ks), EdgesLeft(es), lo[p], Up(k), lo2, far2)
          /\ Divides(InternalRight(ks), EdgesRight(es), Up(k), hi[p], lo2, far2)
        BY <1>17, <1>23
    <2>2. lo2[p] = lo[p] /\ hi2[p] = Up(k) /\ lo2[new] = Up(k) /\ hi2[new] = hi[p]
          /\ level'[p] # 0 /\ level'[new] # 0
        BY ONLY <1>8, <1>9, <1>10, <1>19, <1>21
    <2>3. QED
        BY ONLY <1>21, <2>1, <2>2 DEF NodeOrdered
<1>25. NodesOrdered(lo2, hi2)'
    <2>1. ASSUME NEW s \in live'
          PROVE  /\ NodeOrdered(level'[s], keys'[s], edges'[s], lo2[s], hi2[s], lo2, far2)
                 /\ parent'[s] = NULL /\ s # new => lo2[s] = Keys /\ far2[s] = {}
        <3>1. s \in Slots /\ (s \in live \/ s = new)
            BY ONLY <1>5, <1>9, <1>11, <2>1
        <3>2. ASSUME s \notin {p, new}
              PROVE  NodeOrdered(level'[s], keys'[s], edges'[s], lo2[s], hi2[s], lo2, far2)
            <4>1. NodeOrdered(level[s], keys[s], edges[s], lo[s], hi[s], lo, Far(hi))
                BY <1>2, <3>1, <3>2 DEF NodesOrdered
            <4>2. \A c \in Slots : parent[c] = s => lo2[c] = lo[c] /\ far2[c] = Far(hi)[c]
                <5>1. ASSUME NEW c \in Slots, parent[c] = s
                      PROVE  c # new /\ c # left
                    BY <1>3, <1>9, <1>10, <3>1, <3>2, <5>1
                <5>2. QED
                    BY ONLY <1>12, <1>19, <5>1
            <4>3. Local /\ Wiring(owner) /\ s \in live
                BY <1>2, <3>1, <3>2
            <4>4. NodeOrdered(level[s], keys[s], edges[s], lo[s], hi[s], lo2, far2)
                BY ONLY <4>1, <4>2, <4>3, NodeKept
            <4>5. /\ level'[s] = level[s] /\ keys'[s] = keys[s] /\ edges'[s] = edges[s]
                  /\ lo2[s] = lo[s] /\ hi2[s] = hi[s]
                BY ONLY <1>19, <1>21, <3>1, <3>2
            <4>6. QED
                BY ONLY <4>4, <4>5
        <3>3. NodeOrdered(level'[s], keys'[s], edges'[s], lo2[s], hi2[s], lo2, far2)
            BY <1>24, <3>2
        <3>4. ASSUME parent'[s] = NULL, s # new
              PROVE  lo2[s] = Keys /\ far2[s] = {}
            <4>1. s # right /\ parent[s] = NULL
                BY ONLY <1>5, <1>8, <1>9, <1>10, <3>1, <3>4
            <4>2. s # left /\ s \in live
                BY <1>3, <1>5, <3>1, <3>4, <4>1
            <4>3. InPlace(s)
                BY <1>3, <4>1 DEF InPlace
            <4>4. lo[s] = Keys /\ Far(hi)[s] = {}
                BY <1>2, <4>1, <4>2, <4>3 DEF NodesOrdered
            <4>5. QED
                BY ONLY <1>12, <1>19, <3>1, <3>4, <4>2, <4>4
        <3>5. QED
            BY ONLY <3>3, <3>4
    <2>2. \A s \in live' : InPlace(s)' => s # new
        BY ONLY <1>5, <1>9, <1>11, <1>20
    <2>3. \A s \in live' :
             /\ NodeOrdered(level[s], keys[s], edges[s], lo2[s], hi2[s], lo2, Far(hi2))'
             /\ parent'[s] = NULL /\ InPlace(s)' => lo2[s] = Keys /\ Far(hi2)'[s] = {}
        BY <1>20, <2>1, <2>2
    <2>4. QED
        BY ONLY <2>3 DEF NodesOrdered
<1>26. HalvesOrdered(lo2, hi2)'
    <2>1. /\ hi2[p] = Up(k) /\ lo2[new] = Up(k) /\ lo2[p] = lo[p] /\ hi2[new] = hi[p]
        BY ONLY <1>8, <1>9, <1>10, <1>19
    <2>2. Separates(k, p, new, lo2, hi2)
        BY ONLY <1>17, <2>1 DEF Separates
    <2>3. QED
        BY ONLY <1>7, <2>2 DEF HalvesOrdered
<1>27. OwnedBy(ow2)'
    <2>1. ASSUME NEW q \in Maps, root'[q] # NULL
          PROVE  ow2[root'[q]] = q
        <3>1. root[q] \in Slots /\ root[q] # new /\ root'[q] = root[q] /\ owner[root[q]] = q
            BY <1>2, <1>5, <1>9, <1>11, <2>1 DEF RootsOwned
        <3>2. QED
            BY ONLY <1>19, <3>1
    <2>2. ASSUME NEW s \in live', parent'[s] # NULL
          PROVE  ow2[s] = ow2[parent'[s]]
        <3>1. s \in Slots /\ ow2[p] = m /\ ow2[new] = m /\ ow2[right] = m
            BY ONLY <1>5, <1>6, <1>8, <1>9, <1>10, <1>11, <1>19, <2>2
        <3>2. \A c \in Slots : parent[c] # NULL => c # new /\ parent[c] # new /\ parent[c] \in Slots
                                                  /\ owner[c] = owner[parent[c]]
            BY <1>2, <1>9, ParentOf
        <3>3. CASE s \in ToSet(EdgesRight(es))
            <4>1. parent'[s] = new /\ (s = right \/ parent[s] = p)
                BY ONLY <1>5, <1>16, <1>17, <3>1, <3>3
            <4>2. ow2[s] = m
                BY ONLY <1>5, <1>8, <1>19, <3>1, <3>2, <4>1
            <4>3. QED
                BY ONLY <3>1, <4>1, <4>2
        <3>4. CASE s \notin ToSet(EdgesRight(es)) /\ s = right
            BY ONLY <1>5, <3>1, <3>4
        <3>5. CASE s \notin ToSet(EdgesRight(es)) /\ s # right
            <4>1. parent'[s] = parent[s] /\ parent[s] # NULL
                BY ONLY <1>5, <2>2, <3>1, <3>5
            <4>2. QED
                BY ONLY <1>19, <3>1, <3>2, <4>1
        <3>6. QED
            BY ONLY <3>3, <3>4, <3>5
    <2>3. ow2[p] = m /\ ow2[new] = m
        BY ONLY <1>8, <1>9, <1>10, <1>19
    <2>4. QED
        BY ONLY <1>7, <2>1, <2>2, <2>3 DEF OwnedBy
<1>28. LinksOrdered(ow2, lo2, hi2)' /\ NoStrayLinks'
    <2>1. \A s \in Slots : s \in live' /\ level'[s] = 0 <=> s \in live /\ level[s] = 0
        BY ONLY <1>5, <1>8, <1>9, <1>21
    <2>2. \A s \in live : level[s] = 0 => /\ lo2[s] = lo[s] /\ hi2[s] = hi[s]
                                         /\ ow2[s] = owner[s]
        BY ONLY <1>8, <1>9, <1>11, <1>19
    <2>3. SameLeaves(owner, lo, hi, ow2, lo2, hi2)
        BY ONLY <1>5, <1>9, <1>11, <2>1, <2>2 DEF SameLeaves
    <2>4. QED
        BY <1>1, <2>3, LinksKept
<1>29. EntriesCounted(ow2)'
    <2>1. LeafKeys(new) = {} /\ LeafKeys(new)' = {}
        BY ONLY <1>8, <1>9, <1>21 DEF LeafKeys, ToSet
    <2>2. \A s \in Slots : /\ LeafKeys(s)' = LeafKeys(s)
                           /\ ow2[s] = owner[s] \/ LeafKeys(s) = {}
        BY ONLY <1>8, <1>10, <1>19, <1>21, <2>1 DEF LeafKeys
    <2>3. \A q \in Maps : KeysOf(ow2, q)' = KeysOf(owner, q)
        BY <2>2, KeysKept
    <2>4. \A q \in Maps : length'[q] + Uncounted(q)' = length[q] + Uncounted(q)
        BY <1>3, <1>5, <1>7 DEF Uncounted
    <2>5. QED
        BY <1>2, <2>3, <2>4, CountKept
<1>30. QED
    BY ONLY <1>19, <1>25, <1>26, <1>27, <1>28, <1>29, OrderGiven
=============================================================================
