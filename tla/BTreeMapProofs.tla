---------------------------- MODULE BTreeMapProofs ----------------------------
(***************************************************************************)
(* The structure of the maps of BTreeMap at every moment, and that they    *)
(* are the dictionaries of OrderedMap, for any number of maps, slots, keys *)
(* and values and any even M, as long as no map that was cleared while it  *)
(* was tall is used again (ReuseAfterClear).                               *)
(***************************************************************************)
EXTENDS BTreeOrderViews, BTreeMapRefinement

\* Nothing is allocated and every map is empty.
LEMMA InitInv ==
    ASSUME Init
    PROVE  IInv
<1>1. /\ live = {} /\ op = Idle
      /\ level = [s \in Slots |-> 0] /\ parent = [s \in Slots |-> NULL]
      /\ parent_idx = [s \in Slots |-> -1]
      /\ keys = [s \in Slots |-> <<>>] /\ vals = [s \in Slots |-> <<>>]
      /\ edges = [s \in Slots |-> <<>>]
      /\ prev = [s \in Slots |-> NULL] /\ next = [s \in Slots |-> NULL]
      /\ root = [m \in Maps |-> NULL] /\ height = [m \in Maps |-> 0]
      /\ length = [m \in Maps |-> 0]
    BY DEF Init, Uninit
<1>2. TypeOK
    <2>1. <<>> \in Seq(Keys) /\ <<>> \in Seq(Values) /\ <<>> \in Seq(Slots)
        OBVIOUS
    <2>2. QED
        BY <1>1, <2>1 DEF TypeOK, Uninit
<1>3. NodeShape
    <2>1. Len(<<>>) = 0 /\ 0 <= M
        BY MAssumption
    <2>2. QED
        BY <1>1, <2>1 DEF NodeShape
<1>4. ParentAgrees /\ Occupancy /\ Orphans
    BY <1>1 DEF ParentAgrees, Occupancy, Orphans
<1>5. RootsAgree
    BY <1>1 DEF RootsAgree
<1>6. PendingOverflow /\ PendingUnderflow
    BY <1>1 DEF PendingOverflow, PendingUnderflow, Idle
<1>7. Owned
    <2>1. PICK m \in Maps : TRUE
        BY MapsAssumption
    <2>2. PICK owner \in [Slots -> Maps] : owner = [s \in Slots |-> m]
        OBVIOUS
    <2>3. OwnedBy(owner)
        BY <1>1 DEF OwnedBy, Idle
    <2>4. QED
        BY <2>2, <2>3 DEF Owned
<1>8. FreeBlank
    BY <1>1 DEF FreeBlank
<1>9. QED
    BY <1>2, <1>3, <1>4, <1>5, <1>6, <1>7, <1>8 DEF IInv

\* A step of a call or of one of the two loops, or none
LEMMA NextInv ==
    ASSUME ReuseAfterClear = FALSE, IInv, [Next]_vars
    PROVE  IInv'
<1>1. CASE Call
    BY <1>1, CallInv
<1>2. CASE OverflowStep
    <2>1. CASE GrowRoot
        BY <2>1, GrowRootInv
    <2>2. CASE AbsorbIntoParent
        BY <2>2, AbsorbIntoParentInv
    <2>3. CASE SplitParent
        BY <2>3, SplitParentInv
    <2>4. QED
        BY <1>2, <2>1, <2>2, <2>3 DEF OverflowStep
<1>3. CASE UnderflowStep
    <2>1. CASE RootLeafUnderflow
        BY <2>1, RootLeafUnderflowInv
    <2>2. CASE RootInternalStays
        BY <2>2, RootInternalStaysInv
    <2>3. CASE ShrinkRoot
        BY <2>3, ShrinkRootInv
    <2>4. CASE BorrowPrevLeaf
        BY <2>4, BorrowPrevLeafInv
    <2>5. CASE BorrowPrevInternal
        BY <2>5, BorrowPrevInternalInv
    <2>6. CASE BorrowNextLeaf
        BY <2>6, BorrowNextLeafInv
    <2>7. CASE BorrowNextInternal
        BY <2>7, BorrowNextInternalInv
    <2>8. CASE MergePrevLeaf
        BY <2>8, MergePrevLeafInv
    <2>9. CASE MergePrevInternal
        BY <2>9, MergePrevInternalInv
    <2>10. CASE MergeNextLeaf
        BY <2>10, MergeNextLeafInv
    <2>11. CASE MergeNextInternal
        BY <2>11, MergeNextInternalInv
    <2>12. QED
        BY <1>3, <2>1, <2>2, <2>3, <2>4, <2>5, <2>6, <2>7, <2>8, <2>9, <2>10, <2>11
           DEF UnderflowStep
<1>4. CASE UNCHANGED vars
    <2>1. /\ live' = live /\ level' = level /\ parent' = parent /\ parent_idx' = parent_idx
          /\ keys' = keys /\ vals' = vals /\ edges' = edges /\ prev' = prev /\ next' = next
          /\ root' = root /\ height' = height /\ length' = length /\ op' = op
        BY <1>4 DEF vars
    <2>2. /\ TypeOK /\ NodeShape /\ ParentAgrees /\ RootsAgree /\ Occupancy
          /\ PendingOverflow /\ PendingUnderflow /\ Orphans /\ Owned /\ FreeBlank
        BY DEF IInv
    <2>3. TypeOK' /\ NodeShape'
        BY <2>1, <2>2 DEF TypeOK, NodeShape
    <2>4. ParentAgrees' /\ RootsAgree' /\ Occupancy'
        BY <2>1, <2>2 DEF ParentAgrees, RootsAgree, Occupancy
    <2>5. PendingOverflow' /\ PendingUnderflow' /\ Orphans'
        BY <2>1, <2>2 DEF PendingOverflow, PendingUnderflow, Orphans
    <2>6. Owned' /\ FreeBlank'
        BY <2>1, <2>2 DEF Owned, OwnedBy, FreeBlank
    <2>7. QED
        BY <2>3, <2>4, <2>5, <2>6 DEF IInv
<1>5. QED
    BY <1>1, <1>2, <1>3, <1>4 DEF Next

-----------------------------------------------------------------------------
\* The invariant holds in every state, those between two iterations of a
\* rebalancing loop included.
THEOREM InductiveInvariant ==
    ASSUME ReuseAfterClear = FALSE
    PROVE  Spec => []IInv
<1>1. Init => IInv
    BY InitInv
<1>2. IInv /\ [Next]_vars => IInv'
    BY NextInv
<1>3. QED
    BY <1>1, <1>2, PTL DEF Spec

\* All variables keep their types.
THEOREM TypeCorrect ==
    ASSUME ReuseAfterClear = FALSE
    PROVE  Spec => []TypeOK
<1>1. IInv => TypeOK
    BY DEF IInv
<1>2. QED
    BY <1>1, InductiveInvariant, PTL

\* A node holds as many values or edges as its kind and its keys ask for.
THEOREM NodesKeepShape ==
    ASSUME ReuseAfterClear = FALSE
    PROVE  Spec => []NodeShape
<1>1. IInv => NodeShape
    BY DEF IInv
<1>2. QED
    BY <1>1, InductiveInvariant, PTL

\* Edges and parent pointers agree, through every split, borrow and merge.
THEOREM ParentsAgree ==
    ASSUME ReuseAfterClear = FALSE
    PROVE  Spec => []ParentAgrees
<1>1. IInv => ParentAgrees
    BY DEF IInv
<1>2. QED
    BY <1>1, InductiveInvariant, PTL

\* A map's root is at the map's height, and no two maps share one.
THEOREM RootsAreAgreed ==
    ASSUME ReuseAfterClear = FALSE
    PROVE  Spec => []RootsAgree
<1>1. IInv => RootsAgree
    BY DEF IInv
<1>2. QED
    BY <1>1, InductiveInvariant, PTL

\* No node is left with too few keys but the one the loop is at.
THEOREM NodesKeepOccupied ==
    ASSUME ReuseAfterClear = FALSE
    PROVE  Spec => []Occupancy
<1>1. IInv => Occupancy
    BY DEF IInv
<1>2. QED
    BY <1>1, InductiveInvariant, PTL

-----------------------------------------------------------------------------
(***************************************************************************)
(* The store between two calls.                                            *)
(***************************************************************************)

\* What the invariant says of the store as a whole
LEMMA StoreFromInv ==
    ASSUME IInv
    PROVE  StoreAccounted
<1>1. SUFFICES ASSUME op = Idle
               PROVE  /\ \A m, n \in Maps : m # n => TreeOf(m) \cap TreeOf(n) = {}
                      /\ LET trees == UNION {TreeOf(m) : m \in Maps}
                         IN  /\ trees \subseteq live
                             /\ \A s \in live \ trees : keys[s] = <<>> /\ edges[s] = <<>>
    BY DEF StoreAccounted
<1>2. PICK owner : Wiring(owner) /\ OpOwned(owner) /\ RootsOwned(owner)
    BY InvToForest
<1>3. Local
    BY InvToForest
<1>4. \A m \in Maps : TreeOf(m) # {} => root[m] # NULL
    BY DEF TreeOf
<1>5. \A m \in Maps : TreeOf(m) \subseteq live /\ \A s \in TreeOf(m) : owner[s] = m
    BY <1>2, <1>3, <1>4, TreeData
<1>6. \A m, n \in Maps : m # n => TreeOf(m) \cap TreeOf(n) = {}
    BY <1>5
<1>7. ASSUME NEW s \in live, \A m \in Maps : s \notin TreeOf(m)
      PROVE  keys[s] = <<>> /\ edges[s] = <<>>
    <2>1. parent[s] = NULL
        BY <1>1, <1>2, <1>3, <1>7, ChildrenReached
    <2>2. s \in Slots /\ s # NULL
        BY <1>2, SlotsAssumption DEF Wiring, Forest
    <2>3. \A m \in Maps : root[m] # s
        BY <1>2, <1>3, <1>7, <2>2, TreeData
    <2>4. level[s] = 0 /\ keys[s] = <<>>
        BY <1>1, <1>3, <2>1, <2>3 DEF Local, Orphans, Idle
    <2>5. QED
        BY <1>3, <2>2, <2>4 DEF Local, NodeShape
<1>8. QED
    BY <1>5, <1>6, <1>7

\* Maps that share a store never share a node, what a map reaches is allocated,
\* and what none reaches is an empty leaf a map left behind.
THEOREM StoreIsAccounted ==
    ASSUME ReuseAfterClear = FALSE
    PROVE  Spec => []StoreAccounted
<1>1. IInv => StoreAccounted
    BY StoreFromInv
<1>2. QED
    BY <1>1, InductiveInvariant, PTL

-----------------------------------------------------------------------------
(***************************************************************************)
(* The order of the keys.                                                  *)
(***************************************************************************)

\* Every key is in the interval of the leaf it is in, the separators divide
\* the intervals, the leaves' links follow them, and `length` counts the
\* entries: also in the middle of a split, a borrow or a merge.
THEOREM OrderIsKept ==
    ASSUME ReuseAfterClear = FALSE
    PROVE  Spec => []Ordered
<1>1. Init => IInv /\ Ordered
    BY InitInv, InitOrder
<1>2. IInv /\ Ordered /\ [Next]_vars => (IInv /\ Ordered)'
    BY NextInv, NextOrder
<1>3. QED
    BY <1>1, <1>2, PTL DEF Spec

\* Between calls find() finds every key that the leaves hold and no other, be
\* the separators on its way as stale as removals make them.
THEOREM LookupIsComplete ==
    ASSUME ReuseAfterClear = FALSE
    PROVE  Spec => []LookupComplete
<1>1. IInv /\ Ordered => LookupComplete
    BY LookupFromOrder
<1>2. QED
    BY <1>1, InductiveInvariant, OrderIsKept, PTL

\* Between calls validate() finds nothing: the leaves are linked in the order
\* of the tree, the keys rise along them and agree with the separators, and
\* `length` is their number.
THEOREM MapsAreValid ==
    ASSUME ReuseAfterClear = FALSE
    PROVE  Spec => []Validates
<1>1. IInv /\ Ordered => Validates
    BY ValidFromOrder
<1>2. QED
    BY <1>1, InductiveInvariant, OrderIsKept, PTL

-----------------------------------------------------------------------------
(***************************************************************************)
(* Steps.                                                                  *)
(***************************************************************************)

\* No call changes a map other than the one it is made on, though they take
\* their nodes from one store: the root, the height, the length and every
\* node of each other map stay, in every iteration of its loop.
THEOREM MapsAreApart ==
    ASSUME ReuseAfterClear = FALSE
    PROVE  Spec => OnlyOwnMap
<1>1. ASSUME IInv, Ordered, [Next]_vars
      PROVE  [LET changed == {m \in Maps : View(m)' # View(m)}
              IN  /\ \A m, n \in changed : m = n
                  /\ op # Idle => changed \subseteq {op.map}]_vars
    <2>1. CASE UNCHANGED vars
        BY <2>1
    <2>2. CASE Next
        <3>1. PICK a \in Maps : /\ op # Idle => a = op.map
                                /\ \A m \in Maps : m # a => View(m)' = View(m)
            BY <1>1, <2>2, NextFrame
        <3>2. QED
            BY <3>1
    <2>3. QED
        BY <1>1, <2>1, <2>2
<1>2. QED
    BY <1>1, InductiveInvariant, OrderIsKept, PTL DEF Spec, OnlyOwnMap

-----------------------------------------------------------------------------
(***************************************************************************)
(* The entries of one leaf: a key of ks with the value of vs beside it.    *)
(***************************************************************************)
Pairs(ks, vs, x, u) == \E i \in DOMAIN vs : ks[i] = x /\ vs[i] = u

\* Two arrays of one length
Beside(ks, vs, n) == /\ n \in Nat
                     /\ ks \in Seq(Keys) /\ Len(ks) = n
                     /\ vs \in Seq(Values) /\ Len(vs) = n

\* What it says, place by place
LEMMA BesideIs ==
    ASSUME NEW ks, NEW vs, NEW n, Beside(ks, vs, n)
    PROVE  /\ n \in Nat /\ DOMAIN ks = 1 .. n /\ DOMAIN vs = 1 .. n
           /\ \A i \in 1 .. n : ks[i] \in Keys /\ vs[i] \in Values
           /\ \A x, u : Pairs(ks, vs, x, u) <=> \E i \in 1 .. n : ks[i] = x /\ vs[i] = u
BY DEF Beside, Pairs

\* insert_val
LEMMA PairsInsert ==
    ASSUME NEW ks, NEW vs, NEW n, Beside(ks, vs, n), NEW j \in 1 .. n + 1,
           NEW k \in Keys, NEW v \in Values
    PROVE  /\ Beside(InsertAt(ks, j, k), InsertAt(vs, j, v), n + 1)
           /\ \A x, u : Pairs(InsertAt(ks, j, k), InsertAt(vs, j, v), x, u)
                            <=> (x = k /\ u = v) \/ Pairs(ks, vs, x, u)
<1>1. n \in Nat /\ ks \in Seq(Keys) /\ Len(ks) = n /\ vs \in Seq(Values) /\ Len(vs) = n
    BY DEF Beside
<1>2. PICK a, b : a = InsertAt(ks, j, k) /\ b = InsertAt(vs, j, v)
    OBVIOUS
<1>3. a \in Seq(Keys) /\ Len(a) = n + 1
    BY <1>1, <1>2, InsertAtSeq
<1>4. b \in Seq(Values) /\ Len(b) = n + 1
    BY <1>1, <1>2, InsertAtSeq
<1>5. n + 1 \in Nat
    BY <1>1
<1>6. Beside(a, b, n + 1)
    BY <1>3, <1>4, <1>5 DEF Beside
<1>7. a = [i \in 1 .. n + 1 |-> IF i < j THEN ks[i] ELSE IF i = j THEN k ELSE ks[i - 1]]
    BY <1>1, <1>2, InsertAtDef
<1>8. b = [i \in 1 .. n + 1 |-> IF i < j THEN vs[i] ELSE IF i = j THEN v ELSE vs[i - 1]]
    BY <1>1, <1>2, InsertAtDef
<1>9. ASSUME NEW x, NEW u, Pairs(a, b, x, u)
      PROVE  (x = k /\ u = v) \/ Pairs(ks, vs, x, u)
    <2>1. PICK i \in 1 .. n + 1 : a[i] = x /\ b[i] = u
        BY <1>6, <1>9, BesideIs
    <2>2. CASE i < j
        <3>1. i \in 1 .. n /\ ks[i] = x /\ vs[i] = u
            BY <1>1, <1>7, <1>8, <2>1, <2>2
        <3>2. QED
            BY <3>1, BesideIs
    <2>3. CASE i = j
        BY <1>7, <1>8, <2>1, <2>3
    <2>4. CASE j < i
        <3>1. i - 1 \in 1 .. n /\ ks[i - 1] = x /\ vs[i - 1] = u
            BY <1>1, <1>7, <1>8, <2>1, <2>4
        <3>2. QED
            BY <3>1, BesideIs
    <2>5. QED
        BY <2>2, <2>3, <2>4
<1>10. Pairs(a, b, k, v)
    <2>1. j \in 1 .. n + 1 /\ a[j] = k /\ b[j] = v
        BY <1>7, <1>8
    <2>2. QED
        BY <1>6, <2>1, BesideIs
<1>11. ASSUME NEW x, NEW u, Pairs(ks, vs, x, u)
       PROVE  Pairs(a, b, x, u)
    <2>1. PICK i \in 1 .. n : ks[i] = x /\ vs[i] = u
        BY <1>11, BesideIs
    <2>2. CASE i < j
        <3>1. i \in 1 .. n + 1 /\ a[i] = x /\ b[i] = u
            BY <1>1, <1>7, <1>8, <2>1, <2>2
        <3>2. QED
            BY <1>6, <3>1, BesideIs
    <2>3. CASE ~(i < j)
        <3>1. i + 1 \in 1 .. n + 1 /\ ~(i + 1 < j) /\ i + 1 # j /\ (i + 1) - 1 = i
            BY <1>1, <2>3
        <3>2. a[i + 1] = x /\ b[i + 1] = u
            BY <1>7, <1>8, <2>1, <3>1
        <3>3. QED
            BY <1>6, <3>1, <3>2, BesideIs
    <2>4. QED
        BY <2>2, <2>3
<1>12. QED
    BY <1>2, <1>6, <1>9, <1>10, <1>11

\* remove_val
LEMMA PairsRemove ==
    ASSUME NEW ks, NEW vs, NEW n, Beside(ks, vs, n), NEW j \in 1 .. n
    PROVE  /\ Beside(RemoveAt(ks, j), RemoveAt(vs, j), n - 1)
           /\ \A x, u : Pairs(RemoveAt(ks, j), RemoveAt(vs, j), x, u)
                            <=> \E i \in 1 .. n : i # j /\ ks[i] = x /\ vs[i] = u
           /\ \A x, u : Pairs(ks, vs, x, u)
                            <=> \/ x = ks[j] /\ u = vs[j]
                                \/ Pairs(RemoveAt(ks, j), RemoveAt(vs, j), x, u)
<1>1. n \in Nat /\ ks \in Seq(Keys) /\ Len(ks) = n /\ vs \in Seq(Values) /\ Len(vs) = n
    BY DEF Beside
<1>2. PICK a, b : a = RemoveAt(ks, j) /\ b = RemoveAt(vs, j)
    OBVIOUS
<1>3. a \in Seq(Keys) /\ Len(a) = n - 1
    <2>1. RemoveAt(ks, j) \in Seq(Keys) /\ Len(RemoveAt(ks, j)) = n - 1
        BY ONLY <1>1, j \in 1 .. n, RemoveAtSeq
    <2>2. QED
        BY ONLY <1>2, <2>1
<1>4. b \in Seq(Values) /\ Len(b) = n - 1
    <2>1. RemoveAt(vs, j) \in Seq(Values) /\ Len(RemoveAt(vs, j)) = n - 1
        BY ONLY <1>1, j \in 1 .. n, RemoveAtSeq
    <2>2. QED
        BY ONLY <1>2, <2>1
<1>5. n - 1 \in Nat
    BY <1>1
<1>6. Beside(a, b, n - 1)
    BY <1>3, <1>4, <1>5 DEF Beside
<1>7. a = [i \in 1 .. n - 1 |-> IF i < j THEN ks[i] ELSE ks[i + 1]]
    BY <1>1, <1>2, RemoveAtDef
<1>8. b = [i \in 1 .. n - 1 |-> IF i < j THEN vs[i] ELSE vs[i + 1]]
    BY <1>1, <1>2, RemoveAtDef
<1>9. ASSUME NEW x, NEW u, Pairs(a, b, x, u)
      PROVE  \E i \in 1 .. n : i # j /\ ks[i] = x /\ vs[i] = u
    <2>1. PICK i \in 1 .. n - 1 : a[i] = x /\ b[i] = u
        BY <1>6, <1>9, BesideIs
    <2>2. CASE i < j
        <3>1. i \in 1 .. n /\ i # j /\ ks[i] = x /\ vs[i] = u
            BY <1>1, <1>7, <1>8, <2>1, <2>2
        <3>2. QED
            BY <3>1
    <2>3. CASE ~(i < j)
        <3>1. i + 1 \in 1 .. n /\ i + 1 # j /\ ks[i + 1] = x /\ vs[i + 1] = u
            BY <1>1, <1>7, <1>8, <2>1, <2>3
        <3>2. QED
            BY <3>1
    <2>4. QED
        BY <2>2, <2>3
<1>10. ASSUME NEW x, NEW u, NEW i \in 1 .. n, i # j, ks[i] = x, vs[i] = u
       PROVE  Pairs(a, b, x, u)
    <2>1. CASE i < j
        <3>1. i \in 1 .. n - 1 /\ a[i] = x /\ b[i] = u
            BY <1>1, <1>7, <1>8, <1>10, <2>1
        <3>2. QED
            BY <1>6, <3>1, BesideIs
    <2>2. CASE ~(i < j)
        <3>1. i - 1 \in 1 .. n - 1 /\ ~(i - 1 < j) /\ (i - 1) + 1 = i
            BY <1>1, <1>10, <2>2
        <3>2. a[i - 1] = x /\ b[i - 1] = u
            BY <1>7, <1>8, <1>10, <3>1
        <3>3. QED
            BY <1>6, <3>1, <3>2, BesideIs
    <2>3. QED
        BY <2>1, <2>2
<1>11. \A x, u : Pairs(ks, vs, x, u) <=> (x = ks[j] /\ u = vs[j]) \/ Pairs(a, b, x, u)
    BY <1>9, <1>10, BesideIs
<1>12. QED
    BY <1>2, <1>6, <1>9, <1>10, <1>11

\* Two halves
LEMMA PairsSplit ==
    ASSUME NEW ks, NEW vs, NEW n, Beside(ks, vs, n), NEW j \in 0 .. n
    PROVE  \A x, u : Pairs(ks, vs, x, u)
                        <=> \/ Pairs(SubSeq(ks, 1, j), SubSeq(vs, 1, j), x, u)
                            \/ Pairs(SubSeq(ks, j + 1, n), SubSeq(vs, j + 1, n), x, u)
<1>1. n \in Nat /\ ks \in Seq(Keys) /\ Len(ks) = n /\ vs \in Seq(Values) /\ Len(vs) = n
    BY DEF Beside
<1>2. PICK a, b, c, d : /\ a = SubSeq(ks, 1, j) /\ b = SubSeq(vs, 1, j)
                        /\ c = SubSeq(ks, j + 1, n) /\ d = SubSeq(vs, j + 1, n)
    OBVIOUS
<1>3. PICK f, g \in 1 .. n + 1 : f = 1 /\ g = j + 1
    BY <1>1
<1>4. PICK z \in 0 .. n : z = n
    BY <1>1
<1>5. /\ a = [i \in 1 .. j - f + 1 |-> ks[f + i - 1]] /\ b = [i \in 1 .. j - f + 1 |-> vs[f + i - 1]]
    <2>1. f <= j + 1
        BY <1>3
    <2>2. QED
        BY <1>1, <1>2, <1>3, <2>1, SegmentDef
<1>6. /\ c = [i \in 1 .. z - g + 1 |-> ks[g + i - 1]] /\ d = [i \in 1 .. z - g + 1 |-> vs[g + i - 1]]
    <2>1. g <= z + 1
        BY <1>1, <1>3, <1>4
    <2>2. QED
        BY <1>1, <1>2, <1>3, <1>4, <2>1, SegmentDef
<1>7. /\ a = [i \in 1 .. j |-> ks[i]] /\ b = [i \in 1 .. j |-> vs[i]]
    <2>1. j - f + 1 = j /\ \A i \in 1 .. j : f + i - 1 = i
        BY <1>3
    <2>2. QED
        BY <1>5, <2>1
<1>8. /\ c = [i \in 1 .. n - j |-> ks[j + i]] /\ d = [i \in 1 .. n - j |-> vs[j + i]]
    <2>1. z - g + 1 = n - j /\ \A i \in 1 .. n - j : g + i - 1 = j + i
        BY <1>1, <1>3, <1>4
    <2>2. QED
        BY <1>6, <2>1
<1>9. ASSUME NEW x, NEW u, Pairs(ks, vs, x, u)
      PROVE  Pairs(a, b, x, u) \/ Pairs(c, d, x, u)
    <2>1. PICK i \in 1 .. n : ks[i] = x /\ vs[i] = u
        BY <1>9, BesideIs
    <2>2. CASE i <= j
        <3>1. i \in 1 .. j
            BY <1>1, <2>2
        <3>2. QED
            BY <1>7, <2>1, <3>1 DEF Pairs
    <2>3. CASE ~(i <= j)
        <3>1. i - j \in 1 .. n - j /\ j + (i - j) = i
            BY <1>1, <2>3
        <3>2. c[i - j] = x /\ d[i - j] = u /\ i - j \in DOMAIN d
            BY <1>8, <2>1, <3>1
        <3>3. QED
            BY <3>2 DEF Pairs
    <2>4. QED
        BY <2>2, <2>3
<1>10. ASSUME NEW x, NEW u, Pairs(a, b, x, u)
       PROVE  Pairs(ks, vs, x, u)
    <2>1. PICK i \in 1 .. j : ks[i] = x /\ vs[i] = u
        BY <1>7, <1>10 DEF Pairs
    <2>2. i \in 1 .. n
        BY <1>1
    <2>3. QED
        BY <2>1, <2>2, BesideIs
<1>11. ASSUME NEW x, NEW u, Pairs(c, d, x, u)
       PROVE  Pairs(ks, vs, x, u)
    <2>1. PICK i \in 1 .. n - j : ks[j + i] = x /\ vs[j + i] = u
        BY <1>8, <1>11 DEF Pairs
    <2>2. j + i \in 1 .. n
        BY <1>1
    <2>3. QED
        BY <2>1, <2>2, BesideIs
<1>12. QED
    BY <1>2, <1>9, <1>10, <1>11

\* merge_prev_leaf and merge_next_leaf
LEMMA PairsJoin ==
    ASSUME NEW ks, NEW vs, NEW n, Beside(ks, vs, n), NEW ls, NEW ws, NEW z, Beside(ls, ws, z)
    PROVE  /\ Beside(ks \o ls, vs \o ws, n + z)
           /\ \A x, u : Pairs(ks \o ls, vs \o ws, x, u)
                            <=> Pairs(ks, vs, x, u) \/ Pairs(ls, ws, x, u)
<1>1. /\ n \in Nat /\ ks \in Seq(Keys) /\ Len(ks) = n /\ vs \in Seq(Values) /\ Len(vs) = n
      /\ z \in Nat /\ ls \in Seq(Keys) /\ Len(ls) = z /\ ws \in Seq(Values) /\ Len(ws) = z
    BY DEF Beside
<1>2. PICK a, b : a = ks \o ls /\ b = vs \o ws
    OBVIOUS
<1>3. /\ a \in Seq(Keys) /\ Len(a) = n + z
      /\ a = [i \in 1 .. n + z |-> IF i <= n THEN ks[i] ELSE ls[i - n]]
    <2>1. /\ ks \o ls \in Seq(Keys) /\ Len(ks \o ls) = n + z
        BY ONLY <1>1, ConcatSeq
    <2>2. ks \o ls = [i \in 1 .. n + z |-> IF i <= n THEN ks[i] ELSE ls[i - n]]
        BY ONLY <1>1, ConcatDef
    <2>3. QED
        BY ONLY <1>2, <2>1, <2>2
<1>6. /\ b \in Seq(Values) /\ Len(b) = n + z
      /\ b = [i \in 1 .. n + z |-> IF i <= n THEN vs[i] ELSE ws[i - n]]
    <2>1. /\ vs \o ws \in Seq(Values) /\ Len(vs \o ws) = n + z
        BY ONLY <1>1, ConcatSeq
    <2>2. vs \o ws = [i \in 1 .. n + z |-> IF i <= n THEN vs[i] ELSE ws[i - n]]
        BY ONLY <1>1, ConcatDef
    <2>3. QED
        BY ONLY <1>2, <2>1, <2>2
<1>4. Beside(a, b, n + z)
    BY <1>1, <1>3, <1>6 DEF Beside
<1>5. a = [i \in 1 .. n + z |-> IF i <= n THEN ks[i] ELSE ls[i - n]]
    BY <1>3
<1>7. ASSUME NEW x, NEW u, Pairs(a, b, x, u)
      PROVE  Pairs(ks, vs, x, u) \/ Pairs(ls, ws, x, u)
    <2>1. PICK i \in 1 .. n + z : a[i] = x /\ b[i] = u
        BY <1>4, <1>7, BesideIs
    <2>2. CASE i <= n
        <3>1. i \in 1 .. n /\ ks[i] = x /\ vs[i] = u
            BY <1>1, <1>5, <1>6, <2>1, <2>2
        <3>2. QED
            BY <3>1, BesideIs
    <2>3. CASE ~(i <= n)
        <3>1. i - n \in 1 .. z /\ ls[i - n] = x /\ ws[i - n] = u
            BY <1>1, <1>5, <1>6, <2>1, <2>3
        <3>2. QED
            BY <3>1, BesideIs
    <2>4. QED
        BY <2>2, <2>3
<1>8. ASSUME NEW x, NEW u, Pairs(ks, vs, x, u)
      PROVE  Pairs(a, b, x, u)
    <2>1. PICK i \in 1 .. n : ks[i] = x /\ vs[i] = u
        BY <1>8, BesideIs
    <2>2. i \in 1 .. n + z /\ a[i] = x /\ b[i] = u
        BY <1>1, <1>5, <1>6, <2>1
    <2>3. QED
        BY <1>4, <2>2, BesideIs
<1>9. ASSUME NEW x, NEW u, Pairs(ls, ws, x, u)
      PROVE  Pairs(a, b, x, u)
    <2>1. PICK i \in 1 .. z : ls[i] = x /\ ws[i] = u
        BY <1>9, BesideIs
    <2>2. n + i \in 1 .. n + z /\ ~(n + i <= n) /\ (n + i) - n = i
        BY <1>1
    <2>3. a[n + i] = x /\ b[n + i] = u
        BY <1>5, <1>6, <2>1, <2>2
    <2>4. QED
        BY <1>4, <2>2, <2>3, BesideIs
<1>10. QED
    BY <1>2, <1>4, <1>7, <1>8, <1>9

\* replace_val: the keys are all different.
LEMMA PairsWrite ==
    ASSUME NEW ks, NEW vs, NEW n, Beside(ks, vs, n), NEW j \in 1 .. n, NEW v \in Values,
           \A i \in 1 .. n : ks[i] = ks[j] => i = j
    PROVE  \A x, u : Pairs(ks, [vs EXCEPT ![j] = v], x, u)
                        <=> \/ x = ks[j] /\ u = v
                            \/ x # ks[j] /\ Pairs(ks, vs, x, u)
<1>1. n \in Nat /\ ks \in Seq(Keys) /\ Len(ks) = n /\ vs \in Seq(Values) /\ Len(vs) = n
    BY DEF Beside
<1>2. PICK b : b = [vs EXCEPT ![j] = v]
    OBVIOUS
<1>3. DOMAIN b = 1 .. n /\ \A i \in 1 .. n : b[i] = IF i = j THEN v ELSE vs[i]
    BY <1>1, <1>2
<1>4. \A x, u : Pairs(ks, b, x, u) <=> \E i \in 1 .. n : ks[i] = x /\ b[i] = u
    BY <1>3 DEF Pairs
<1>5. \A x, u : Pairs(ks, vs, x, u) <=> \E i \in 1 .. n : ks[i] = x /\ vs[i] = u
    BY BesideIs
<1>6. ASSUME NEW x, NEW u, Pairs(ks, b, x, u)
      PROVE  (x = ks[j] /\ u = v) \/ (x # ks[j] /\ Pairs(ks, vs, x, u))
    <2>1. PICK i \in 1 .. n : ks[i] = x /\ b[i] = u
        BY <1>4, <1>6
    <2>2. CASE i = j
        BY <1>3, <2>1, <2>2
    <2>3. CASE i # j
        <3>1. vs[i] = u /\ x # ks[j]
            BY <1>3, <2>1, <2>3
        <3>2. QED
            BY <1>5, <2>1, <3>1
    <2>4. QED
        BY <2>2, <2>3
<1>7. Pairs(ks, b, ks[j], v)
    BY <1>3, <1>4
<1>8. ASSUME NEW x, NEW u, x # ks[j], Pairs(ks, vs, x, u)
      PROVE  Pairs(ks, b, x, u)
    <2>1. PICK i \in 1 .. n : ks[i] = x /\ vs[i] = u
        BY <1>5, <1>8
    <2>2. i # j
        BY <1>8, <2>1
    <2>3. b[i] = u
        BY <1>3, <2>1, <2>2
    <2>4. QED
        BY <1>4, <2>1, <2>3
<1>9. QED
    BY <1>2, <1>6, <1>7, <1>8

-----------------------------------------------------------------------------
(***************************************************************************)
(* The entries of one map: those of the leaves on its chain.               *)
(***************************************************************************)
InLeaf(s, x, u) == Pairs(keys[s], vals[s], x, u)

LeavesOf(m) == ToSet(LeafChain(m))

\* The leaves of the other maps
Rest(m) == UNION {LeavesOf(n) : n \in Maps \ {m}}

Holds(m, x, u) == \E s \in LeavesOf(m) : InLeaf(s, x, u)

\* The leaves on the chain are in the map's tree, or about to be.
LEMMA LeavesTreed ==
    ASSUME NEW owner, NEW lo, NEW hi, OrderState(owner, lo, hi),
           NEW m \in Maps, NEW s \in LeavesOf(m)
    PROVE  s \in Slots /\ Treed(owner, m, s) /\ level[s] = 0
<1>1. root[m] # NULL
    <2>1. root[m] = NULL => LeafChain(m) = <<>>
        BY DEF LeafChain
    <2>2. ToSet(<<>>) = {}
        BY DEF ToSet
    <2>3. QED
        BY <2>1, <2>2 DEF LeavesOf
<1>2. PICK q, n : q = LeafChain(m) /\ Linked(owner, m, q, n)
    BY <1>1, ChainIs
<1>3. /\ n \in Nat /\ q \in Seq(Slots) /\ DOMAIN q = 1 .. n
      /\ \A i \in 1 .. n : Treed(owner, m, q[i]) /\ level[q[i]] = 0 /\ q[i] \in Slots
    BY <1>2 DEF Linked
<1>4. PICK i \in 1 .. n : q[i] = s
    BY <1>2, <1>3, SetOf DEF LeavesOf
<1>5. QED
    BY <1>3, <1>4

\* And every leaf with an entry is on the chain of its map.
LEMMA EntryHome ==
    ASSUME NEW owner, NEW lo, NEW hi, OrderState(owner, lo, hi),
           NEW s \in Slots, NEW x, NEW u, InLeaf(s, x, u)
    PROVE  /\ owner[s] \in Maps /\ s \in LeavesOf(owner[s]) /\ Treed(owner, owner[s], s)
           /\ level[s] = 0 /\ s \in live
           /\ x \in Keys /\ u \in Values /\ Spans(lo, hi, s, x)
<1>1. Local /\ Wiring(owner) /\ RootsOwned(owner) /\ OpOwned(owner)
    BY DEF OrderState
<1>2. PICK i \in DOMAIN vals[s] : keys[s][i] = x /\ vals[s][i] = u
    BY DEF InLeaf, Pairs
<1>3. vals[s] # <<>>
    BY <1>2
<1>4. PICK n \in Nat : /\ keys[s] \in Seq(Keys) /\ Len(keys[s]) = n /\ vals[s] \in Seq(Values)
                       /\ level[s] = 0 => Len(vals[s]) = n
                       /\ level[s] # 0 => vals[s] = <<>>
                       /\ owner[s] \in Maps
    BY <1>1, NodeData
<1>5. level[s] = 0 /\ Len(vals[s]) = n /\ i \in 1 .. n /\ keys[s] # <<>>
    BY <1>2, <1>3, <1>4
<1>6. s \in live
    BY <1>1, <1>3 DEF Local, DataBlank
<1>7. Treed(owner, owner[s], s)
    <2>1. CASE parent[s] # NULL
        BY <1>6, <2>1 DEF Treed
    <2>2. CASE \E m \in Maps : root[m] = s
        <3>1. PICK m \in Maps : root[m] = s
            BY <2>2
        <3>2. owner[s] = m
            BY <1>1, <3>1, SlotsAssumption DEF RootsOwned
        <3>3. QED
            BY <1>6, <3>1, <3>2 DEF Treed
    <2>3. CASE op.pc = "overflow" /\ s = op.right
        BY <1>6, <2>3 DEF Treed, InPlace
    <2>4. QED
        BY <1>1, <1>5, <1>6, <2>1, <2>2, <2>3 DEF Local, Orphans
<1>8. x \in Keys /\ u \in Values
    BY <1>2, <1>4, <1>5
<1>9. LeafOrdered(keys[s], lo[s], hi[s])
    BY <1>4, <1>5, <1>7, LeafLinks
<1>10. Spans(lo, hi, s, x)
    BY <1>2, <1>4, <1>5, <1>9 DEF LeafOrdered, Spans
<1>11. s \in LeavesOf(owner[s])
    <2>1. root[owner[s]] # NULL
        BY <1>4, <1>7, TreedLevel
    <2>2. PICK q, n2 : /\ q = LeafChain(owner[s]) /\ Linked(owner, owner[s], q, n2)
                       /\ next[q[n2]] = NULL
        BY <1>4, <2>1, ChainIs
    <2>3. PICK j \in 1 .. n2 : q[j] = s
        BY <1>4, <1>5, <1>7, <2>1, <2>2, LinkedAll
    <2>4. n2 \in Nat /\ DOMAIN q = 1 .. n2
        BY <2>2 DEF Linked
    <2>5. QED
        BY <2>2, <2>3, <2>4, SetOf DEF LeavesOf
<1>12. QED
    BY <1>4, <1>5, <1>6, <1>7, <1>8, <1>10, <1>11

\* The leaf of one map is in no other.
LEMMA LeavesElsewhere ==
    ASSUME NEW owner, NEW lo, NEW hi, OrderState(owner, lo, hi), NEW m \in Maps
    PROVE  \A s \in Rest(m) : s \in live /\ s \in Slots /\ owner[s] \in Maps /\ owner[s] # m
<1>1. ASSUME NEW s \in Rest(m)
      PROVE  s \in live /\ s \in Slots /\ owner[s] \in Maps /\ owner[s] # m
    <2>1. PICK n \in Maps \ {m} : s \in LeavesOf(n)
        BY DEF Rest
    <2>2. s \in Slots /\ Treed(owner, n, s)
        BY <2>1, LeavesTreed
    <2>3. QED
        BY <2>1, <2>2 DEF Treed
<1>2. QED
    BY <1>1

\* A key has one place among the leaves of a map.
LEMMA OnePlace ==
    ASSUME NEW owner, NEW lo, NEW hi, OrderState(owner, lo, hi),
           NEW m \in Maps, NEW x,
           NEW s, Treed(owner, m, s), level[s] = 0, NEW i \in DOMAIN keys[s], keys[s][i] = x,
           NEW t, Treed(owner, m, t), level[t] = 0, NEW j \in DOMAIN keys[t], keys[t][j] = x
    PROVE  s = t /\ i = j
<1>1. /\ keys[s] \in Seq(Keys) /\ LeafOrdered(keys[s], lo[s], hi[s])
      /\ keys[t] \in Seq(Keys) /\ LeafOrdered(keys[t], lo[t], hi[t])
    BY LeafLinks
<1>2. x \in Keys
    BY <1>1
<1>3. Spans(lo, hi, s, x) /\ Spans(lo, hi, t, x)
    BY <1>1 DEF LeafOrdered, Spans
<1>4. s = t
    BY <1>2, <1>3, TreedApart
<1>5. \A a, b \in DOMAIN keys[s] : a < b => keys[s][a] < keys[s][b]
    BY <1>1 DEF LeafOrdered
<1>6. PICK n \in Nat : DOMAIN keys[s] = 1 .. n
    BY <1>1
<1>7. x \in Int
    BY <1>2, KeysAssumption
<1>8. ~(i < j) /\ ~(j < i)
    BY <1>4, <1>5, <1>7
<1>9. i = j
    BY <1>4, <1>6, <1>8
<1>10. QED
    BY <1>4, <1>9

\* What Contents makes of the entries
Reads(m) ==
    /\ Contents[m] = [x \in DOMAIN Contents[m] |-> Contents[m][x]]
    /\ \A x : x \in DOMAIN Contents[m] <=> \E u : Holds(m, x, u)
    /\ \A x, u : Holds(m, x, u) => x \in Keys /\ u \in Values /\ Contents[m][x] = u

\* The entries of a map are those that are not in the leaves of the others,
\* each key in one of them.
HeldApart(m) ==
    /\ \A x, u : Holds(m, x, u) <=> \E s \in Slots \ Rest(m) : InLeaf(s, x, u)
    /\ \A x, u, w : \A s, t \in Slots \ Rest(m) :
          InLeaf(s, x, u) /\ InLeaf(t, x, w) => s = t /\ u = w

\* The contents of a map are the entries of its leaves, one for each key.
LEMMA ContentsRead ==
    ASSUME NEW owner, NEW lo, NEW hi, OrderState(owner, lo, hi), NEW m \in Maps
    PROVE  Reads(m)
<1>1. PICK leaves : leaves = LeavesOf(m)
    OBVIOUS
<1>2. \A s \in leaves : s \in Slots /\ Treed(owner, m, s) /\ level[s] = 0
    BY <1>1, LeavesTreed
<1>3. Local /\ Wiring(owner)
    BY DEF OrderState
<1>4. \A s \in leaves : \E n \in Nat :
          /\ keys[s] \in Seq(Keys) /\ DOMAIN keys[s] = 1 .. n
          /\ vals[s] \in Seq(Values) /\ DOMAIN vals[s] = 1 .. n
    <2>1. ASSUME NEW s \in leaves
          PROVE  \E n \in Nat :
                    /\ keys[s] \in Seq(Keys) /\ DOMAIN keys[s] = 1 .. n
                    /\ vals[s] \in Seq(Values) /\ DOMAIN vals[s] = 1 .. n
        <3>1. PICK n \in Nat : /\ keys[s] \in Seq(Keys) /\ Len(keys[s]) = n
                               /\ vals[s] \in Seq(Values)
                               /\ level[s] = 0 => Len(vals[s]) = n
            BY <1>2, <1>3, <2>1, NodeData
        <3>2. QED
            BY <1>2, <2>1, <3>1
    <2>2. QED
        BY <2>1
<1>5. PICK home : home = [x \in Keys |-> CHOOSE s \in leaves : x \in ToSet(keys[s])]
    OBVIOUS
<1>6. PICK dom : dom = UNION {ToSet(keys[s]) : s \in leaves}
    OBVIOUS
<1>7. dom \subseteq Keys
    <2>1. ASSUME NEW x \in dom
          PROVE  x \in Keys
        <3>1. PICK s \in leaves : x \in ToSet(keys[s])
            BY <1>6
        <3>2. PICK n \in Nat : keys[s] \in Seq(Keys) /\ DOMAIN keys[s] = 1 .. n
            BY <1>4
        <3>3. PICK i \in 1 .. n : keys[s][i] = x
            BY <3>1, <3>2, SetOf
        <3>4. QED
            BY <3>2, <3>3
    <2>2. QED
        BY <2>1
<1>8. Contents[m] = [x \in dom |-> ValueIn(home[x], x)]
    <2>1. Contents[m] = [x \in UNION {ToSet(keys[s]) : s \in leaves} |->
                            ValueIn(CHOOSE s \in leaves : x \in ToSet(keys[s]), x)]
        BY <1>1 DEF Contents, LeavesOf
    <2>2. \A x \in dom : home[x] = CHOOSE s \in leaves : x \in ToSet(keys[s])
        BY <1>5, <1>7
    <2>3. QED
        BY <1>6, <2>1, <2>2
<1>9. ASSUME NEW s \in leaves, NEW i \in DOMAIN keys[s]
      PROVE  keys[s][i] \in dom /\ ValueIn(home[keys[s][i]], keys[s][i]) = vals[s][i]
    <2>1. PICK n \in Nat : keys[s] \in Seq(Keys) /\ DOMAIN keys[s] = 1 .. n
        BY <1>4
    <2>2. PICK x \in Keys : x = keys[s][i]
        BY <2>1
    <2>3. x \in ToSet(keys[s])
        BY <2>1, <2>2, SetOf
    <2>4. PICK t : t = home[x]
        OBVIOUS
    <2>5. t \in leaves /\ x \in ToSet(keys[t])
        BY <1>5, <2>3, <2>4
    <2>6. PICK k \in Nat : DOMAIN keys[t] = 1 .. k
        BY <1>4, <2>5
    <2>7. PICK j \in DOMAIN keys[t] : keys[t][j] = x
        BY <2>5, <2>6, SetOf
    <2>8. \A l \in DOMAIN keys[t] : keys[t][l] = x => t = s /\ l = i
        BY <1>2, <2>2, <2>5, OnePlace
    <2>9. t = s /\ j = i
        BY <2>7, <2>8
    <2>10. (CHOOSE l \in DOMAIN keys[t] : keys[t][l] = x) = i
        BY <2>7, <2>8, <2>9
    <2>11. ValueIn(t, x) = vals[s][i]
        BY <2>9, <2>10 DEF ValueIn
    <2>12. x \in dom
        BY <1>6, <2>3
    <2>13. QED
        BY <2>2, <2>4, <2>11, <2>12
<1>10. ASSUME NEW x, NEW u, Holds(m, x, u)
       PROVE  x \in dom /\ x \in Keys /\ u \in Values /\ Contents[m][x] = u
    <2>1. PICK s \in leaves : InLeaf(s, x, u)
        BY <1>1, <1>10 DEF Holds
    <2>2. PICK i \in DOMAIN vals[s] : keys[s][i] = x /\ vals[s][i] = u
        BY <2>1 DEF InLeaf, Pairs
    <2>3. PICK n \in Nat : /\ keys[s] \in Seq(Keys) /\ DOMAIN keys[s] = 1 .. n
                           /\ vals[s] \in Seq(Values) /\ DOMAIN vals[s] = 1 .. n
        BY <1>4
    <2>4. i \in DOMAIN keys[s]
        BY <2>3
    <2>5. x \in dom /\ ValueIn(home[x], x) = u
        BY <1>9, <2>2, <2>4
    <2>6. x \in Keys /\ u \in Values
        BY <2>2, <2>3
    <2>7. QED
        BY <1>8, <2>5, <2>6
<1>11. ASSUME NEW x \in dom
       PROVE  \E u : Holds(m, x, u)
    <2>1. PICK s \in leaves : x \in ToSet(keys[s])
        BY <1>6
    <2>2. PICK n \in Nat : DOMAIN keys[s] = 1 .. n /\ DOMAIN vals[s] = 1 .. n
        BY <1>4
    <2>3. PICK i \in 1 .. n : keys[s][i] = x
        BY <2>1, <2>2, SetOf
    <2>4. InLeaf(s, x, vals[s][i])
        BY <2>2, <2>3 DEF InLeaf, Pairs
    <2>5. QED
        BY <1>1, <2>4 DEF Holds
<1>12. DOMAIN Contents[m] = dom /\ Contents[m] = [x \in DOMAIN Contents[m] |-> Contents[m][x]]
    BY <1>8
<1>13. QED
    BY <1>10, <1>11, <1>12 DEF Reads

\* No entry of a map is in a slot that another map has on its chain, nor in two.
LEMMA EntriesApart ==
    ASSUME NEW owner, NEW lo, NEW hi, OrderState(owner, lo, hi), NEW m \in Maps
    PROVE  HeldApart(m)
<1>1. \A s \in Rest(m) : owner[s] # m
    BY LeavesElsewhere
<1>2. ASSUME NEW x, NEW u, NEW s \in LeavesOf(m), InLeaf(s, x, u)
      PROVE  s \in Slots \ Rest(m)
    <2>1. s \in Slots /\ Treed(owner, m, s)
        BY LeavesTreed
    <2>2. QED
        BY <1>1, <2>1 DEF Treed
<1>3. ASSUME NEW x, NEW u, NEW s \in Slots \ Rest(m), InLeaf(s, x, u)
      PROVE  s \in LeavesOf(m) /\ Treed(owner, m, s) /\ level[s] = 0
    <2>1. /\ owner[s] \in Maps /\ s \in LeavesOf(owner[s]) /\ Treed(owner, owner[s], s)
          /\ level[s] = 0
        BY <1>3, EntryHome
    <2>2. owner[s] = m
        BY <1>3, <2>1 DEF Rest
    <2>3. QED
        BY <2>1, <2>2
<1>4. \A x, u : Holds(m, x, u) <=> \E s \in Slots \ Rest(m) : InLeaf(s, x, u)
    BY <1>2, <1>3 DEF Holds
<1>5. ASSUME NEW x, NEW u, NEW w, NEW s \in Slots \ Rest(m), NEW t \in Slots \ Rest(m),
             InLeaf(s, x, u), InLeaf(t, x, w)
      PROVE  s = t /\ u = w
    <2>1. /\ s \in LeavesOf(m) /\ Treed(owner, m, s) /\ level[s] = 0
          /\ t \in LeavesOf(m) /\ Treed(owner, m, t) /\ level[t] = 0
        BY <1>3, <1>5
    <2>2. PICK i \in DOMAIN vals[s] : keys[s][i] = x /\ vals[s][i] = u
        BY <1>5 DEF InLeaf, Pairs
    <2>3. PICK j \in DOMAIN vals[t] : keys[t][j] = x /\ vals[t][j] = w
        BY <1>5 DEF InLeaf, Pairs
    <2>4. Local /\ Wiring(owner)
        BY DEF OrderState
    <2>5. DOMAIN vals[s] = DOMAIN keys[s]
        <3>1. PICK n \in Nat : /\ keys[s] \in Seq(Keys) /\ Len(keys[s]) = n
                               /\ vals[s] \in Seq(Values) /\ (level[s] = 0 => Len(vals[s]) = n)
            BY <1>5, <2>4, NodeData
        <3>2. QED
            BY <2>1, <3>1
    <2>6. DOMAIN vals[t] = DOMAIN keys[t]
        <3>1. PICK n \in Nat : /\ keys[t] \in Seq(Keys) /\ Len(keys[t]) = n
                               /\ vals[t] \in Seq(Values) /\ (level[t] = 0 => Len(vals[t]) = n)
            BY <1>5, <2>4, NodeData
        <3>2. QED
            BY <2>1, <3>1
    <2>7. s = t /\ i = j
        BY <2>1, <2>2, <2>3, <2>5, <2>6, OnePlace
    <2>8. QED
        BY <2>2, <2>3, <2>7
<1>6. QED
    BY <1>4, <1>5 DEF HeldApart

\* Both hold whenever the order does,
LEMMA EntriesKnown ==
    ASSUME IInv, Ordered
    PROVE  \A m \in Maps : Reads(m) /\ HeldApart(m)
<1>1. PICK owner, lo, hi : OrderState(owner, lo, hi)
    BY OrderFound
<1>2. QED
    BY <1>1, ContentsRead, EntriesApart

\* after a step as well.
LEMMA EntriesKnownPrime ==
    ASSUME (IInv /\ Ordered)'
    PROVE  (\A m \in Maps : Reads(m) /\ HeldApart(m))'
BY EntriesKnown, PTL

-----------------------------------------------------------------------------
(***************************************************************************)
(* The maps a step does not touch.                                         *)
(***************************************************************************)
LEMMA FollowedAreWalks ==
    \A m \in Maps : \A q, n : Follows(m, q, n) => LeafChain(m) = q
BY FollowedIsWalk

LEMMA FollowedAreWalksPrime ==
    (\A m \in Maps : \A q, n : Follows(m, q, n) => LeafChain(m) = q)'
BY FollowedAreWalks, PTL

\* The chain of a map is followed by its links.
LEMMA ChainFollows ==
    ASSUME NEW owner, NEW lo, NEW hi, OrderState(owner, lo, hi), NEW m \in Maps
    PROVE  \E n : Follows(m, LeafChain(m), n)
<1>1. PICK N \in Nat : N = Cardinality(Slots)
    BY SlotsAssumption, FS_CardinalityType
<1>2. CASE root[m] = NULL
    <2>1. PICK q : q = <<>>
        OBVIOUS
    <2>2. q \in Seq(Slots) /\ Len(q) = 0
        BY <2>1
    <2>3. LeafChain(m) = q
        BY <1>2, <2>1 DEF LeafChain
    <2>4. 0 \in 0 .. N /\ \A i \in 1 .. 0 : FALSE
        BY <1>1
    <2>5. Follows(m, q, 0)
        BY <1>1, <1>2, <2>2, <2>4 DEF Follows
    <2>6. QED
        BY <2>3, <2>5
<1>3. CASE root[m] # NULL
    <2>1. PICK q, n : q = LeafChain(m) /\ Linked(owner, m, q, n) /\ next[q[n]] = NULL
        BY <1>3, ChainIs
    <2>2. n <= Cardinality(Slots)
        BY <1>3, <2>1, LinkedOnce
    <2>3. n \in 0 .. N /\ n # 0
        BY <1>1, <2>1, <2>2 DEF Linked
    <2>4. \A i \in 1 .. n : next[q[i]] = IF i = n THEN NULL ELSE q[i + 1]
        BY <2>1, <2>3 DEF Linked
    <2>5. Follows(m, q, n)
        BY <1>1, <1>3, <2>1, <2>3, <2>4 DEF Follows, Linked
    <2>6. QED
        BY <2>1, <2>5
<1>4. QED
    BY <1>2, <1>3

\* A step that leaves the nodes of a map leaves its chain and its entries.
LEMMA LeavesStay ==
    ASSUME NEW owner, NEW lo, NEW hi, OrderState(owner, lo, hi),
           NEW a, LeavesOthers(owner, a), NEW m \in Maps, m # a
    PROVE  /\ LeafChain(m)' = LeafChain(m)
           /\ \A s \in LeavesOf(m) : keys'[s] = keys[s] /\ vals'[s] = vals[s]
<1>1. PICK q, n : q = LeafChain(m) /\ Follows(m, q, n)
    BY ChainFollows
<1>2. ASSUME NEW s \in LeavesOf(m)
      PROVE  keys'[s] = keys[s] /\ vals'[s] = vals[s] /\ next'[s] = next[s]
    <2>1. s \in live /\ owner[s] = m
        BY LeavesTreed DEF Treed
    <2>2. NodeAt(s)' = NodeAt(s)
        BY <2>1 DEF LeavesOthers
    <2>3. QED
        BY <2>2 DEF NodeAt
<1>3. n \in Nat /\ q \in Seq(Slots) /\ DOMAIN q = 1 .. n
    <2>1. Cardinality(Slots) \in Nat
        BY SlotsAssumption, FS_CardinalityType
    <2>2. QED
        BY <1>1, <2>1 DEF Follows
<1>4. \A i \in 1 .. n : next'[q[i]] = next[q[i]]
    <2>1. ASSUME NEW i \in 1 .. n
          PROVE  q[i] \in LeavesOf(m)
        BY <1>1, <1>3, SetOf DEF LeavesOf
    <2>2. QED
        BY <1>2, <2>1
<1>5. root'[m] = root[m]
    BY DEF LeavesOthers
<1>6. n # 0 => q[1] = first_leaf(m)'
    BY <1>1, FirstLeafStays DEF Follows
<1>7. Follows(m, q, n)'
    BY <1>1, <1>4, <1>5, <1>6 DEF Follows
<1>8. LeafChain(m)' = q
    BY <1>7, FollowedAreWalksPrime
<1>9. QED
    BY <1>1, <1>2, <1>8

\* A map that holds what it held has the contents it had.
LEMMA SameEntries ==
    ASSUME NEW m \in Maps, Reads(m), Reads(m)',
           \A x, u : Holds(m, x, u)' <=> Holds(m, x, u)
    PROVE  Contents'[m] = Contents[m]
<1>1. PICK d, e : d = Contents[m] /\ e = Contents'[m]
    OBVIOUS
<1>2. /\ d = [x \in DOMAIN d |-> d[x]]
      /\ \A x : x \in DOMAIN d <=> \E u : Holds(m, x, u)
      /\ \A x, u : Holds(m, x, u) => d[x] = u
    BY <1>1 DEF Reads
<1>3. /\ e = [x \in DOMAIN e |-> e[x]]
      /\ \A x : x \in DOMAIN e <=> \E u : Holds(m, x, u)'
      /\ \A x, u : Holds(m, x, u)' => e[x] = u
    BY <1>1 DEF Reads
<1>4. DOMAIN d = DOMAIN e
    BY <1>2, <1>3
<1>5. \A x \in DOMAIN d : d[x] = e[x]
    BY <1>2, <1>3
<1>6. QED
    BY <1>1, <1>2, <1>3, <1>4, <1>5

\* What every map has but the one the step is about, it keeps.
LEMMA OthersKeep ==
    ASSUME IInv, Ordered, IInv', Ordered',
           NEW owner, NEW lo, NEW hi, OrderState(owner, lo, hi),
           NEW a \in Maps, LeavesOthers(owner, a)
    PROVE  /\ \A m \in Maps \ {a} : Contents'[m] = Contents[m]
           /\ Rest(a)' = Rest(a)
<1>1. ASSUME NEW m \in Maps \ {a}
      PROVE  Contents'[m] = Contents[m] /\ LeavesOf(m)' = LeavesOf(m)
    <2>1. /\ LeafChain(m)' = LeafChain(m)
          /\ \A s \in LeavesOf(m) : keys'[s] = keys[s] /\ vals'[s] = vals[s]
        BY LeavesStay
    <2>2. LeavesOf(m)' = LeavesOf(m)
        BY <2>1 DEF LeavesOf
    <2>3. \A s \in LeavesOf(m) : \A x, u : InLeaf(s, x, u)' <=> InLeaf(s, x, u)
        BY <2>1 DEF InLeaf
    <2>4. \A x, u : Holds(m, x, u)' <=> Holds(m, x, u)
        BY <2>2, <2>3 DEF Holds
    <2>5. Reads(m) /\ Reads(m)'
        BY EntriesKnown, EntriesKnownPrime
    <2>6. QED
        BY <2>2, <2>4, <2>5, SameEntries
<1>2. QED
    BY <1>1 DEF Rest

-----------------------------------------------------------------------------
(***************************************************************************)
(* The map a step is about: what the arrays of one or two leaves gain and  *)
(* lose, its contents gain and lose.                                       *)
(***************************************************************************)
LEMMA ContentsPut ==
    ASSUME NEW m \in Maps, Reads(m), Reads(m)', NEW k, NEW v,
           \A x, u : Holds(m, x, u)' <=> (x = k /\ u = v) \/ (x # k /\ Holds(m, x, u))
    PROVE  Contents'[m] = Abstract!Put(Contents[m], k, v)
<1>1. PICK d, e : d = Contents[m] /\ e = Contents'[m]
    OBVIOUS
<1>2. /\ \A x : x \in DOMAIN d <=> \E u : Holds(m, x, u)
      /\ \A x, u : Holds(m, x, u) => d[x] = u
    BY <1>1 DEF Reads
<1>3. /\ e = [x \in DOMAIN e |-> e[x]]
      /\ \A x : x \in DOMAIN e <=> \E u : Holds(m, x, u)'
      /\ \A x, u : Holds(m, x, u)' => e[x] = u
    BY <1>1 DEF Reads
<1>4. DOMAIN e = DOMAIN d \cup {k}
    BY <1>2, <1>3
<1>5. \A x \in DOMAIN e : e[x] = IF x = k THEN v ELSE d[x]
    BY <1>2, <1>3
<1>6. e = [x \in DOMAIN d \cup {k} |-> IF x = k THEN v ELSE d[x]]
    BY <1>3, <1>4, <1>5
<1>7. QED
    BY <1>1, <1>6 DEF Abstract!Put

\* A key taken away
LEMMA ContentsErase ==
    ASSUME NEW m \in Maps, Reads(m), Reads(m)', NEW k,
           \A x, u : Holds(m, x, u)' <=> x # k /\ Holds(m, x, u)
    PROVE  Contents'[m] = Abstract!Erase(Contents[m], k)
<1>1. PICK d, e : d = Contents[m] /\ e = Contents'[m]
    OBVIOUS
<1>2. /\ \A x : x \in DOMAIN d <=> \E u : Holds(m, x, u)
      /\ \A x, u : Holds(m, x, u) => d[x] = u
    BY <1>1 DEF Reads
<1>3. /\ e = [x \in DOMAIN e |-> e[x]]
      /\ \A x : x \in DOMAIN e <=> \E u : Holds(m, x, u)'
      /\ \A x, u : Holds(m, x, u)' => e[x] = u
    BY <1>1 DEF Reads
<1>4. DOMAIN e = DOMAIN d \ {k}
    BY <1>2, <1>3
<1>5. \A x \in DOMAIN e : e[x] = d[x]
    BY <1>2, <1>3
<1>6. e = [x \in DOMAIN d \ {k} |-> d[x]]
    BY <1>3, <1>4, <1>5
<1>7. QED
    BY <1>1, <1>6 DEF Abstract!Erase

\* Nothing left
LEMMA ContentsEmpty ==
    ASSUME NEW m \in Maps, Reads(m)', \A x, u : ~Holds(m, x, u)'
    PROVE  Contents'[m] = Abstract!Empty
<1>1. PICK e : e = Contents'[m]
    OBVIOUS
<1>2. /\ e = [x \in DOMAIN e |-> e[x]]
      /\ \A x : x \in DOMAIN e <=> \E u : Holds(m, x, u)'
    BY <1>1 DEF Reads
<1>3. DOMAIN e = {}
    BY <1>2
<1>4. e = [x \in {} |-> x]
    BY <1>2, <1>3
<1>5. QED
    BY <1>1, <1>4 DEF Abstract!Empty

\* A step on map a leaves the leaves of the others.
OwnStep(a) ==
    /\ a \in Maps
    /\ Reads(a) /\ HeldApart(a)
    /\ Reads(a)' /\ HeldApart(a)'
    /\ Rest(a)' = Rest(a)

\* No entries change but those of s and t.
OnlyAt(s, t) == \A r \in Slots \ {s, t} : \A x, u : InLeaf(r, x, u)' <=> InLeaf(r, x, u)

\* The entries of the map are those of the two leaves and some others, which stay.
LEMMA TwoLeaves ==
    ASSUME NEW a, OwnStep(a), NEW s \in Slots \ Rest(a), NEW t \in Slots \ Rest(a), OnlyAt(s, t)
    PROVE  \E away :
              /\ \A x, u : Holds(a, x, u) <=> InLeaf(s, x, u) \/ InLeaf(t, x, u)
                                              \/ <<x, u>> \in away
              /\ \A x, u : Holds(a, x, u)' <=> InLeaf(s, x, u)' \/ InLeaf(t, x, u)'
                                               \/ <<x, u>> \in away
              /\ \A x, u, w : InLeaf(s, x, u) \/ InLeaf(t, x, u) => <<x, w>> \notin away
<1>1. PICK away : away = {e \in Keys \X Values :
                            \E r \in Slots \ Rest(a) : /\ r # s /\ r # t
                                                       /\ InLeaf(r, e[1], e[2])}
    OBVIOUS
<1>2. ASSUME NEW x, NEW u, NEW r \in Slots \ Rest(a), InLeaf(r, x, u)
      PROVE  <<x, u>> \in Keys \X Values
    <2>1. Holds(a, x, u)
        BY <1>2 DEF OwnStep, HeldApart
    <2>2. QED
        BY <2>1 DEF OwnStep, Reads
<1>3. \A x, u : <<x, u>> \in away <=> \E r \in Slots \ Rest(a) : r # s /\ r # t /\ InLeaf(r, x, u)
    BY <1>1, <1>2
<1>4. \A x, u : Holds(a, x, u) <=> \E r \in Slots \ Rest(a) : InLeaf(r, x, u)
    BY DEF OwnStep, HeldApart
<1>5. \A x, u : Holds(a, x, u)' <=> \E r \in Slots \ Rest(a) : InLeaf(r, x, u)'
    BY DEF OwnStep, HeldApart
<1>6. \A x, u : Holds(a, x, u) <=> InLeaf(s, x, u) \/ InLeaf(t, x, u) \/ <<x, u>> \in away
    BY <1>3, <1>4
<1>7. \A r \in Slots \ Rest(a) : r # s /\ r # t =>
          \A x, u : InLeaf(r, x, u)' <=> InLeaf(r, x, u)
    BY DEF OnlyAt
<1>8. \A x, u : Holds(a, x, u)' <=> InLeaf(s, x, u)' \/ InLeaf(t, x, u)' \/ <<x, u>> \in away
    BY <1>3, <1>5, <1>7
<1>9. \A x, u, w : InLeaf(s, x, u) \/ InLeaf(t, x, u) => <<x, w>> \notin away
    <2>1. \A x, u, w : \A p, q \in Slots \ Rest(a) : InLeaf(p, x, u) /\ InLeaf(q, x, w) => p = q
        BY DEF OwnStep, HeldApart
    <2>2. QED
        BY <1>3, <2>1
<1>10. QED
    BY <1>6, <1>8, <1>9

\* Entries that only move
LEMMA EntriesMove ==
    ASSUME NEW a, OwnStep(a), NEW s \in Slots \ Rest(a), NEW t \in Slots \ Rest(a), OnlyAt(s, t),
           \A x, u : InLeaf(s, x, u)' \/ InLeaf(t, x, u)' <=> InLeaf(s, x, u) \/ InLeaf(t, x, u)
    PROVE  Contents'[a] = Contents[a]
<1>1. \A x, u : Holds(a, x, u)' <=> Holds(a, x, u)
    BY TwoLeaves
<1>2. QED
    BY <1>1, SameEntries DEF OwnStep

\* Entries that stay where they are
LEMMA EntriesStay ==
    ASSUME NEW a, OwnStep(a), \A r \in Slots : \A x, u : InLeaf(r, x, u)' <=> InLeaf(r, x, u)
    PROVE  Contents'[a] = Contents[a]
<1>1. \A x, u : Holds(a, x, u) <=> \E r \in Slots \ Rest(a) : InLeaf(r, x, u)
    BY DEF OwnStep, HeldApart
<1>2. \A x, u : Holds(a, x, u)' <=> \E r \in Slots \ Rest(a) : InLeaf(r, x, u)'
    BY DEF OwnStep, HeldApart
<1>3. \A x, u : Holds(a, x, u)' <=> Holds(a, x, u)
    BY <1>1, <1>2
<1>4. QED
    BY <1>3, SameEntries DEF OwnStep

\* An entry with a new key
LEMMA EntryAdded ==
    ASSUME NEW a, OwnStep(a), NEW s \in Slots \ Rest(a), NEW t \in Slots \ Rest(a), OnlyAt(s, t),
           NEW k, NEW v, k \notin DOMAIN Contents[a],
           \A x, u : InLeaf(s, x, u)' \/ InLeaf(t, x, u)'
                        <=> (x = k /\ u = v) \/ InLeaf(s, x, u) \/ InLeaf(t, x, u)
    PROVE  Contents'[a] = Abstract!Put(Contents[a], k, v)
<1>1. \A u : ~Holds(a, k, u)
    BY DEF OwnStep, Reads
<1>2. \A x, u : Holds(a, x, u)' <=> (x = k /\ u = v) \/ Holds(a, x, u)
    BY TwoLeaves
<1>3. \A x, u : Holds(a, x, u)' <=> (x = k /\ u = v) \/ (x # k /\ Holds(a, x, u))
    BY <1>1, <1>2
<1>4. QED
    BY <1>3, ContentsPut DEF OwnStep

\* Another value beside a key
LEMMA EntryWritten ==
    ASSUME NEW a, OwnStep(a), NEW s \in Slots \ Rest(a), OnlyAt(s, s),
           NEW k, NEW v, NEW w, InLeaf(s, k, w),
           \A x, u : InLeaf(s, x, u)' <=> (x = k /\ u = v) \/ (x # k /\ InLeaf(s, x, u))
    PROVE  Contents'[a] = Abstract!Put(Contents[a], k, v)
<1>1. PICK away :
              /\ \A x, u : Holds(a, x, u) <=> InLeaf(s, x, u) \/ <<x, u>> \in away
              /\ \A x, u : Holds(a, x, u)' <=> InLeaf(s, x, u)' \/ <<x, u>> \in away
              /\ \A u : <<k, u>> \notin away
    BY TwoLeaves
<1>2. \A x, u : Holds(a, x, u)' <=> (x = k /\ u = v) \/ (x # k /\ Holds(a, x, u))
    BY <1>1
<1>3. QED
    BY <1>2, ContentsPut DEF OwnStep

\* An entry taken out
LEMMA EntryErased ==
    ASSUME NEW a, OwnStep(a), NEW s \in Slots \ Rest(a), OnlyAt(s, s),
           NEW k, NEW w, InLeaf(s, k, w),
           \A x, u : InLeaf(s, x, u)' <=> x # k /\ InLeaf(s, x, u)
    PROVE  Contents'[a] = Abstract!Erase(Contents[a], k)
<1>1. PICK away :
              /\ \A x, u : Holds(a, x, u) <=> InLeaf(s, x, u) \/ <<x, u>> \in away
              /\ \A x, u : Holds(a, x, u)' <=> InLeaf(s, x, u)' \/ <<x, u>> \in away
              /\ \A u : <<k, u>> \notin away
    BY TwoLeaves
<1>2. \A x, u : Holds(a, x, u)' <=> x # k /\ Holds(a, x, u)
    BY <1>1
<1>3. QED
    BY <1>2, ContentsErase DEF OwnStep

\* A step that leaves the other maps is a step of this one.
LEMMA OwnStepGiven ==
    ASSUME IInv, Ordered, IInv', Ordered',
           NEW owner, NEW lo, NEW hi, OrderState(owner, lo, hi),
           NEW a \in Maps, LeavesOthers(owner, a)
    PROVE  OwnStep(a)
<1>1. Reads(a) /\ HeldApart(a)
    BY EntriesKnown
<1>2. Reads(a)' /\ HeldApart(a)'
    BY EntriesKnownPrime
<1>3. Rest(a)' = Rest(a)
    BY OthersKeep
<1>4. QED
    BY <1>1, <1>2, <1>3 DEF OwnStep

\* A slot of the map, or a free one
LEMMA NotElsewhere ==
    ASSUME NEW owner, NEW lo, NEW hi, OrderState(owner, lo, hi), NEW a \in Maps,
           NEW s \in Slots, owner[s] = a \/ s \notin live
    PROVE  s \in Slots \ Rest(a)
BY LeavesElsewhere

\* Only leaves in use have values.
LEMMA NoValues ==
    ASSUME NEW owner, NEW lo, NEW hi, OrderState(owner, lo, hi),
           NEW s \in Slots, level[s] # 0 \/ s \notin live
    PROVE  vals[s] = <<>>
BY DEF OrderState, Local, NodeShape, DataBlank

\* A leaf has a value beside every key.
LEMMA LeafBeside ==
    ASSUME NEW owner, NEW lo, NEW hi, OrderState(owner, lo, hi),
           NEW s \in Slots, level[s] = 0
    PROVE  \E n : Beside(keys[s], vals[s], n) /\ Len(keys[s]) = n
<1>1. Local /\ Wiring(owner)
    BY DEF OrderState
<1>2. PICK n \in Nat : /\ keys[s] \in Seq(Keys) /\ Len(keys[s]) = n /\ vals[s] \in Seq(Values)
                       /\ level[s] = 0 => Len(vals[s]) = n
    BY <1>1, NodeData
<1>3. Beside(keys[s], vals[s], n)
    BY <1>2 DEF Beside
<1>4. QED
    BY <1>2, <1>3

\* A node without values has no entries, whatever its keys.
LEMMA NoEntries ==
    ASSUME NEW ks
    PROVE  \A x, u : ~Pairs(ks, <<>>, x, u)
BY DEF Pairs

\* The steps that write no values touch the keys of internal nodes only.
LEMMA ValuesStay ==
    ASSUME NEW a, OwnStep(a), vals' = vals,
           \A s \in Slots : vals[s] = <<>> \/ keys'[s] = keys[s]
    PROVE  Contents'[a] = Contents[a]
<1>1. ASSUME NEW r \in Slots, NEW x, NEW u
      PROVE  InLeaf(r, x, u)' <=> InLeaf(r, x, u)
    <2>1. CASE vals[r] = <<>>
        BY <2>1, NoEntries DEF InLeaf
    <2>2. CASE keys'[r] = keys[r]
        BY <2>2 DEF InLeaf
    <2>3. QED
        BY <2>1, <2>2
<1>2. QED
    BY <1>1, EntriesStay

\* insert_before's loop moves no entry: it writes keys of internal nodes alone.
LEMMA OverflowEntries ==
    ASSUME NEW owner, NEW lo, NEW hi, OrderState(owner, lo, hi), OverflowStep, OwnStep(op.map)
    PROVE  Contents'[op.map] = Contents[op.map]
<1>1. Local /\ Wiring(owner) /\ DOMAIN keys = Slots
    BY DEF OrderState, Local, DataTypes
<1>2. CASE GrowRoot
    <2>1. vals' = vals /\ CanAlloc /\ keys' = [keys EXCEPT ![Fresh] = <<op.key>>]
        BY <1>2 DEF GrowRoot
    <2>2. Fresh \in Slots /\ Fresh \notin live
        BY <1>1, <2>1, FreshData
    <2>3. vals[Fresh] = <<>> /\ \A s \in Slots : s # Fresh => keys'[s] = keys[s]
        BY <1>1, <2>1, <2>2, NoValues
    <2>4. QED
        BY <2>1, <2>3, ValuesStay
<1>3. CASE AbsorbIntoParent
    <2>1. PICK p : p = parent[op.node]
        OBVIOUS
    <2>2. op.pc = "overflow" /\ p # NULL /\ vals' = vals /\ \A s \in Slots : s # p => keys'[s] = keys[s]
        BY <1>1, <1>3, <2>1 DEF AbsorbIntoParent
    <2>3. p \in Slots /\ level[p] # 0
        BY <1>1, <2>1, <2>2, OverflowKin, ParentOf
    <2>4. vals[p] = <<>>
        BY <2>3, NoValues
    <2>5. QED
        BY <2>2, <2>4, ValuesStay
<1>4. CASE SplitParent
    <2>1. PICK p, new : p = parent[op.node] /\ new = Fresh
        OBVIOUS
    <2>2. /\ op.pc = "overflow" /\ p # NULL /\ vals' = vals /\ CanAlloc
          /\ \A s \in Slots : s # p /\ s # new => keys'[s] = keys[s]
        BY <1>1, <1>4, <2>1 DEF SplitParent
    <2>3. p \in Slots /\ level[p] # 0 /\ new \in Slots /\ new \notin live
        BY <1>1, <2>1, <2>2, OverflowKin, ParentOf, FreshData
    <2>4. vals[p] = <<>> /\ vals[new] = <<>>
        BY <2>3, NoValues
    <2>5. QED
        BY <2>2, <2>4, ValuesStay
<1>5. QED
    BY <1>2, <1>3, <1>4 DEF OverflowStep

\* One iteration of post_removal's loop at an internal node, as far as the
\* entries go: it changes the keys of a sibling, the node and their parent.
InternalStep(from, node, p) ==
    /\ node = op.node /\ p = parent[op.node]
    /\ op.pc = "underflow" /\ op.is_leaf = FALSE /\ ~AtRoot
    /\ (from = PrevSibling /\ HasPrev) \/ (from = NextSibling /\ HasNext)
    /\ vals' = vals
    /\ \A s \in Slots : s # from /\ s # node /\ s # p => keys'[s] = keys[s]

\* It moves no entry either.
LEMMA InternalStepEntries ==
    ASSUME NEW owner, NEW lo, NEW hi, OrderState(owner, lo, hi), OwnStep(op.map),
           NEW from, NEW node, NEW p, InternalStep(from, node, p)
    PROVE  Contents'[op.map] = Contents[op.map]
<1>1. /\ node = op.node /\ p = parent[op.node]
      /\ op.pc = "underflow" /\ op.is_leaf = FALSE /\ ~AtRoot
      /\ (from = PrevSibling /\ HasPrev) \/ (from = NextSibling /\ HasNext)
    BY DEF InternalStep
<1>2. vals' = vals /\ \A s \in Slots : s # from /\ s # node /\ s # p => keys'[s] = keys[s]
    BY DEF InternalStep
<1>3. /\ from \in Slots /\ node \in Slots /\ p \in Slots
      /\ level[from] = level[node] /\ level[node] # 0
    BY <1>1, PrevKin, NextKin
<1>4. level[p] # 0
    BY <1>1, <1>3, ParentOf DEF AtRoot, OrderState
<1>5. vals[from] = <<>> /\ vals[node] = <<>> /\ vals[p] = <<>>
    BY <1>3, <1>4, NoValues
<1>6. \A s \in Slots : vals[s] = <<>> \/ keys'[s] = keys[s]
    BY ONLY <1>2, <1>5
<1>7. QED
    BY <1>2, <1>6, ValuesStay

\* The steps of post_removal's loop at internal nodes, and at the root
LEMMA UnderflowInternalEntries ==
    ASSUME NEW owner, NEW lo, NEW hi, OrderState(owner, lo, hi), OwnStep(op.map),
           \/ RootLeafUnderflow \/ RootInternalStays \/ ShrinkRoot
           \/ BorrowPrevInternal \/ BorrowNextInternal
           \/ MergePrevInternal \/ MergeNextInternal
    PROVE  Contents'[op.map] = Contents[op.map]
<1>1. Local /\ Wiring(owner) /\ OpOwned(owner) /\ DOMAIN keys = Slots
    BY DEF OrderState, Local, DataTypes
<1>2. CASE RootLeafUnderflow \/ RootInternalStays \/ ShrinkRoot
    <2>1. vals' = vals /\ keys' = keys
        BY <1>2 DEF RootLeafUnderflow, RootInternalStays, ShrinkRoot, nodeVars
    <2>2. QED
        BY <2>1, ValuesStay
<1>3. CASE BorrowPrevInternal
    <2>1. PICK from, node, p : from = PrevSibling /\ node = op.node /\ p = parent[op.node]
        OBVIOUS
    <2>2. /\ op.pc = "underflow" /\ op.is_leaf = FALSE /\ ~AtRoot /\ HasPrev /\ vals' = vals
          /\ \A s \in Slots : s # from /\ s # node /\ s # p => keys'[s] = keys[s]
        BY <1>1, <1>3, <2>1 DEF BorrowPrevInternal, Underflowing, PrevLends
    <2>3. InternalStep(from, node, p)
        BY <2>1, <2>2 DEF InternalStep
    <2>4. QED
        BY <2>3, InternalStepEntries
<1>4. CASE BorrowNextInternal
    <2>1. PICK from, node, p : from = NextSibling /\ node = op.node /\ p = parent[op.node]
        OBVIOUS
    <2>2. /\ op.pc = "underflow" /\ op.is_leaf = FALSE /\ ~AtRoot /\ HasNext /\ vals' = vals
          /\ \A s \in Slots : s # from /\ s # node /\ s # p => keys'[s] = keys[s]
        BY <1>1, <1>4, <2>1 DEF BorrowNextInternal, Underflowing, NextLends
    <2>3. InternalStep(from, node, p)
        BY <2>1, <2>2 DEF InternalStep
    <2>4. QED
        BY <2>3, InternalStepEntries
<1>5. CASE MergePrevInternal
    <2>1. PICK from, node, p : from = PrevSibling /\ node = op.node /\ p = parent[op.node]
        OBVIOUS
    <2>2. /\ op.pc = "underflow" /\ op.is_leaf = FALSE /\ ~AtRoot /\ HasPrev /\ vals' = vals
          /\ \A s \in Slots : s # from /\ s # node /\ s # p => keys'[s] = keys[s]
        BY <1>1, <1>5, <2>1 DEF MergePrevInternal, Underflowing
    <2>3. InternalStep(from, node, p)
        BY <2>1, <2>2 DEF InternalStep
    <2>4. QED
        BY <2>3, InternalStepEntries
<1>6. CASE MergeNextInternal
    <2>1. PICK from, node, p : from = NextSibling /\ node = op.node /\ p = parent[op.node]
        OBVIOUS
    <2>2. /\ op.pc = "underflow" /\ op.is_leaf = FALSE /\ ~AtRoot /\ ~HasPrev /\ vals' = vals
          /\ \A s \in Slots : s # from /\ s # node /\ s # p => keys'[s] = keys[s]
        BY <1>1, <1>6, <2>1 DEF MergeNextInternal, Underflowing
    <2>3. HasNext
        BY <1>1, <2>2, FirstHasNext DEF AtRoot
    <2>4. InternalStep(from, node, p)
        BY <2>1, <2>2, <2>3 DEF InternalStep
    <2>5. QED
        BY <2>4, InternalStepEntries
<1>7. QED
    BY <1>2, <1>3, <1>4, <1>5, <1>6

\* One iteration of post_removal's loop at a leaf: two siblings change, and of
\* their parent only the keys do, which hold no entry.
LeafStep(from, node, p) ==
    /\ node = op.node /\ p = parent[op.node]
    /\ op.pc = "underflow" /\ op.is_leaf = TRUE /\ ~AtRoot
    /\ (from = PrevSibling /\ HasPrev) \/ (from = NextSibling /\ HasNext)
    /\ \A s \in Slots : s # from /\ s # node => /\ vals'[s] = vals[s]
                                                /\ s # p => keys'[s] = keys[s]

\* The leaf, its sibling and their parent are three nodes of the map.
LEMMA LeafStepKin ==
    ASSUME NEW owner, NEW lo, NEW hi, OrderState(owner, lo, hi),
           NEW from, NEW node, NEW p, LeafStep(from, node, p)
    PROVE  /\ from \in Slots /\ node \in Slots /\ p \in Slots
           /\ from # node /\ from # p /\ node # p
           /\ level[from] = 0 /\ level[node] = 0 /\ level[p] # 0
           /\ owner[from] = op.map /\ owner[node] = op.map
<1>1. /\ node = op.node /\ p = parent[op.node]
      /\ op.pc = "underflow" /\ op.is_leaf = TRUE /\ ~AtRoot
      /\ (from = PrevSibling /\ HasPrev) \/ (from = NextSibling /\ HasNext)
    BY DEF LeafStep
<1>2. Local /\ Wiring(owner) /\ OpOwned(owner)
    BY DEF OrderState
<1>3. /\ op.node \in Slots /\ parent[op.node] \in Slots /\ from \in Slots
      /\ owner[op.node] = op.map /\ owner[from] = op.map
      /\ level[from] = level[op.node] /\ level[op.node] = 0
    BY <1>1, PrevKin, NextKin
<1>4. level[p] # 0
    BY <1>1, <1>2, <1>3, ParentOf DEF AtRoot
<1>5. from # op.node
    <2>1. CASE from = PrevSibling /\ HasPrev
        BY <1>1, <1>2, <2>1, PrevData DEF AtRoot
    <2>2. CASE from = NextSibling /\ HasNext
        BY <1>1, <1>2, <2>2, NextData DEF AtRoot
    <2>3. QED
        BY <1>1, <2>1, <2>2
<1>6. QED
    BY <1>1, <1>3, <1>4, <1>5

\* What the two leaves hold together is what they held.
LEMMA LeafStepEntries ==
    ASSUME NEW owner, NEW lo, NEW hi, OrderState(owner, lo, hi), OwnStep(op.map),
           NEW from, NEW node, NEW p, LeafStep(from, node, p),
           \A x, u : InLeaf(from, x, u)' \/ InLeaf(node, x, u)'
                        <=> InLeaf(from, x, u) \/ InLeaf(node, x, u)
    PROVE  Contents'[op.map] = Contents[op.map]
<1>1. /\ from \in Slots /\ node \in Slots /\ p \in Slots /\ level[p] # 0
      /\ from # p /\ node # p
      /\ owner[from] = op.map /\ owner[node] = op.map
    BY LeafStepKin
<1>2. \A s \in Slots : s # from /\ s # node => /\ vals'[s] = vals[s]
                                               /\ s # p => keys'[s] = keys[s]
    BY DEF LeafStep
<1>3. op.map \in Maps
    BY DEF OwnStep
<1>4. from \in Slots \ Rest(op.map) /\ node \in Slots \ Rest(op.map)
    BY <1>1, <1>3, NotElsewhere
<1>5. vals[p] = <<>> /\ vals'[p] = <<>>
    BY <1>1, <1>2, NoValues
<1>6. OnlyAt(from, node)
    <2>1. ASSUME NEW r \in Slots \ {from, node}, NEW x, NEW u
          PROVE  InLeaf(r, x, u)' <=> InLeaf(r, x, u)
        <3>1. CASE r = p
            BY <1>5, <3>1, NoEntries DEF InLeaf
        <3>2. CASE r # p
            BY <1>2, <2>1, <3>2 DEF InLeaf
        <3>3. QED
            BY <3>1, <3>2
    <2>2. QED
        BY <2>1 DEF OnlyAt
<1>7. QED
    BY <1>4, <1>6, EntriesMove

\* An entry moved from one leaf to another is in one of the two before and after.
LEMMA PairsMove ==
    ASSUME NEW ks, NEW vs, NEW a, Beside(ks, vs, a), NEW j \in 1 .. a,
           NEW xs, NEW ws, NEW b, Beside(xs, ws, b), NEW i \in 1 .. b + 1
    PROVE  \A x, u : \/ Pairs(RemoveAt(ks, j), RemoveAt(vs, j), x, u)
                     \/ Pairs(InsertAt(xs, i, ks[j]), InsertAt(ws, i, vs[j]), x, u)
                     <=> Pairs(ks, vs, x, u) \/ Pairs(xs, ws, x, u)
<1>1. ks[j] \in Keys /\ vs[j] \in Values
    BY BesideIs
<1>2. \A x, u : Pairs(ks, vs, x, u)
                    <=> \/ x = ks[j] /\ u = vs[j]
                        \/ Pairs(RemoveAt(ks, j), RemoveAt(vs, j), x, u)
    BY PairsRemove
<1>3. \A x, u : Pairs(InsertAt(xs, i, ks[j]), InsertAt(ws, i, vs[j]), x, u)
                    <=> (x = ks[j] /\ u = vs[j]) \/ Pairs(xs, ws, x, u)
    BY <1>1, PairsInsert
<1>4. QED
    BY ONLY <1>2, <1>3

\* borrow_prev_leaf moves the last entry of the one to the front of the other,
LEMMA BorrowPrevLeafEntries ==
    ASSUME NEW owner, NEW lo, NEW hi, OrderState(owner, lo, hi), OwnStep(op.map), BorrowPrevLeaf
    PROVE  Contents'[op.map] = Contents[op.map]
<1>1. DOMAIN keys = Slots /\ DOMAIN vals = Slots
    BY DEF OrderState, Local, DataTypes
<1>2. PICK from, node, p : from = PrevSibling /\ node = op.node /\ p = parent[op.node]
    OBVIOUS
<1>3. /\ op.pc = "underflow" /\ op.is_leaf = TRUE /\ ~AtRoot /\ HasPrev
      /\ CanLend(Len(keys[from]))
      /\ keys' = [keys EXCEPT ![from] = Front(@),
                              ![node] = InsertAt(@, 1, Last(keys[from])),
                              ![p][parent_idx[node]] = Last(keys[from])]
      /\ vals' = [vals EXCEPT ![from] = Front(@),
                              ![node] = InsertAt(@, 1, Last(vals[from]))]
    BY <1>2 DEF BorrowPrevLeaf, Underflowing, PrevLends
<1>4. LeafStep(from, node, p)
    BY ONLY <1>1, <1>2, <1>3 DEF LeafStep
<1>5. /\ from \in Slots /\ node \in Slots /\ from # node /\ from # p /\ node # p
      /\ level[from] = 0 /\ level[node] = 0
    BY <1>4, LeafStepKin
<1>6. /\ keys'[from] = Front(keys[from]) /\ vals'[from] = Front(vals[from])
      /\ keys'[node] = InsertAt(keys[node], 1, Last(keys[from]))
      /\ vals'[node] = InsertAt(vals[node], 1, Last(vals[from]))
    BY ONLY <1>1, <1>3, <1>5
<1>7. PICK a, b : /\ Beside(keys[from], vals[from], a) /\ Len(keys[from]) = a
                  /\ Beside(keys[node], vals[node], b)
    BY <1>5, LeafBeside
<1>8. a \in Nat /\ a >= 2 /\ a \in Nat \ {0} /\ a \in 1 .. a /\ 1 \in 1 .. b + 1
    <2>1. a \in Nat /\ b \in Nat
        BY <1>7 DEF Beside
    <2>2. a >= 2
        BY <1>3, <1>7, <2>1, LendingLengths
    <2>3. QED
        BY <2>1, <2>2
<1>9. /\ Front(keys[from]) = RemoveAt(keys[from], a) /\ Last(keys[from]) = keys[from][a]
      /\ Front(vals[from]) = RemoveAt(vals[from], a) /\ Last(vals[from]) = vals[from][a]
    <2>1. /\ keys[from] \in Seq(Keys) /\ Len(keys[from]) = a
          /\ vals[from] \in Seq(Values) /\ Len(vals[from]) = a
        BY <1>7 DEF Beside
    <2>2. Front(keys[from]) = RemoveAt(keys[from], a) /\ Last(keys[from]) = keys[from][a]
        BY <1>8, <2>1, FrontIsRemoval, FrontSeq
    <2>3. Front(vals[from]) = RemoveAt(vals[from], a) /\ Last(vals[from]) = vals[from][a]
        BY <1>8, <2>1, FrontIsRemoval, FrontSeq
    <2>4. QED
        BY <2>2, <2>3
<1>10. \A x, u : \/ Pairs(RemoveAt(keys[from], a), RemoveAt(vals[from], a), x, u)
                 \/ Pairs(InsertAt(keys[node], 1, keys[from][a]),
                          InsertAt(vals[node], 1, vals[from][a]), x, u)
                 <=> Pairs(keys[from], vals[from], x, u) \/ Pairs(keys[node], vals[node], x, u)
    BY <1>7, <1>8, PairsMove
<1>11. \A x, u : InLeaf(from, x, u)' \/ InLeaf(node, x, u)'
                    <=> InLeaf(from, x, u) \/ InLeaf(node, x, u)
    BY ONLY <1>6, <1>9, <1>10 DEF InLeaf
<1>12. QED
    BY <1>4, <1>11, LeafStepEntries

\* borrow_next_leaf the first of the one to the end of the other,
LEMMA BorrowNextLeafEntries ==
    ASSUME NEW owner, NEW lo, NEW hi, OrderState(owner, lo, hi), OwnStep(op.map), BorrowNextLeaf
    PROVE  Contents'[op.map] = Contents[op.map]
<1>1. DOMAIN keys = Slots /\ DOMAIN vals = Slots
    BY DEF OrderState, Local, DataTypes
<1>2. PICK from, node, p : from = NextSibling /\ node = op.node /\ p = parent[op.node]
    OBVIOUS
<1>3. /\ op.pc = "underflow" /\ op.is_leaf = TRUE /\ ~AtRoot /\ HasNext
      /\ CanLend(Len(keys[from]))
      /\ keys' = [keys EXCEPT ![p][parent_idx[node] + 1] = keys[from][2],
                              ![from] = Tail(@),
                              ![node] = Append(@, keys[from][1])]
      /\ vals' = [vals EXCEPT ![from] = Tail(@),
                              ![node] = Append(@, vals[from][1])]
    BY <1>2 DEF BorrowNextLeaf, Underflowing, NextLends
<1>4. LeafStep(from, node, p)
    BY ONLY <1>1, <1>2, <1>3 DEF LeafStep
<1>5. /\ from \in Slots /\ node \in Slots /\ from # node /\ from # p /\ node # p
      /\ level[from] = 0 /\ level[node] = 0
    BY <1>4, LeafStepKin
<1>6. /\ keys'[from] = Tail(keys[from]) /\ vals'[from] = Tail(vals[from])
      /\ keys'[node] = Append(keys[node], keys[from][1])
      /\ vals'[node] = Append(vals[node], vals[from][1])
    BY ONLY <1>1, <1>3, <1>5
<1>7. PICK a, b : /\ Beside(keys[from], vals[from], a) /\ Len(keys[from]) = a
                  /\ Beside(keys[node], vals[node], b)
    BY <1>5, LeafBeside
<1>8. /\ a \in Nat /\ a >= 2 /\ a \in Nat \ {0} /\ 1 \in 1 .. a
      /\ b \in Nat /\ b + 1 \in 1 .. b + 1
    <2>1. a \in Nat /\ b \in Nat
        BY <1>7 DEF Beside
    <2>2. a >= 2
        BY <1>3, <1>7, <2>1, LendingLengths
    <2>3. QED
        BY <2>1, <2>2
<1>9. /\ Tail(keys[from]) = RemoveAt(keys[from], 1) /\ Tail(vals[from]) = RemoveAt(vals[from], 1)
      /\ Append(keys[node], keys[from][1]) = InsertAt(keys[node], b + 1, keys[from][1])
      /\ Append(vals[node], vals[from][1]) = InsertAt(vals[node], b + 1, vals[from][1])
    <2>1. /\ keys[from] \in Seq(Keys) /\ Len(keys[from]) = a
          /\ vals[from] \in Seq(Values) /\ Len(vals[from]) = a
          /\ keys[node] \in Seq(Keys) /\ Len(keys[node]) = b
          /\ vals[node] \in Seq(Values) /\ Len(vals[node]) = b
        BY <1>7 DEF Beside
    <2>2. keys[from][1] \in Keys /\ vals[from][1] \in Values
        BY <1>7, <1>8, BesideIs
    <2>3. Tail(keys[from]) = RemoveAt(keys[from], 1) /\ Tail(vals[from]) = RemoveAt(vals[from], 1)
        BY <1>8, <2>1, TailIsRemoval
    <2>4. Append(keys[node], keys[from][1]) = InsertAt(keys[node], b + 1, keys[from][1])
        BY <1>8, <2>1, <2>2, AppendIsInsertion
    <2>5. Append(vals[node], vals[from][1]) = InsertAt(vals[node], b + 1, vals[from][1])
        BY <1>8, <2>1, <2>2, AppendIsInsertion
    <2>6. QED
        BY <2>3, <2>4, <2>5
<1>10. \A x, u : \/ Pairs(RemoveAt(keys[from], 1), RemoveAt(vals[from], 1), x, u)
                 \/ Pairs(InsertAt(keys[node], b + 1, keys[from][1]),
                          InsertAt(vals[node], b + 1, vals[from][1]), x, u)
                 <=> Pairs(keys[from], vals[from], x, u) \/ Pairs(keys[node], vals[node], x, u)
    BY <1>7, <1>8, PairsMove
<1>11. \A x, u : InLeaf(from, x, u)' \/ InLeaf(node, x, u)'
                    <=> InLeaf(from, x, u) \/ InLeaf(node, x, u)
    BY ONLY <1>6, <1>9, <1>10 DEF InLeaf
<1>12. QED
    BY <1>4, <1>11, LeafStepEntries

\* merge_prev_leaf puts all of the leaf behind its left sibling,
LEMMA MergePrevLeafEntries ==
    ASSUME NEW owner, NEW lo, NEW hi, OrderState(owner, lo, hi), OwnStep(op.map), MergePrevLeaf
    PROVE  Contents'[op.map] = Contents[op.map]
<1>1. DOMAIN keys = Slots /\ DOMAIN vals = Slots
    BY DEF OrderState, Local, DataTypes
<1>2. PICK gone, node, p : gone = PrevSibling /\ node = op.node /\ p = parent[op.node]
    OBVIOUS
<1>3. /\ op.pc = "underflow" /\ op.is_leaf = TRUE /\ ~AtRoot /\ HasPrev
      /\ keys' = [keys EXCEPT ![node] = keys[gone] \o @, ![gone] = <<>>,
                              ![p] = RemoveAt(@, parent_idx[node])]
      /\ vals' = [vals EXCEPT ![node] = vals[gone] \o @, ![gone] = <<>>]
    BY <1>2 DEF MergePrevLeaf, Underflowing
<1>4. LeafStep(gone, node, p)
    BY ONLY <1>1, <1>2, <1>3 DEF LeafStep
<1>5. /\ gone \in Slots /\ node \in Slots /\ gone # node /\ gone # p /\ node # p
      /\ level[gone] = 0 /\ level[node] = 0
    BY <1>4, LeafStepKin
<1>6. /\ vals'[gone] = <<>> /\ keys'[node] = keys[gone] \o keys[node]
      /\ vals'[node] = vals[gone] \o vals[node]
    BY ONLY <1>1, <1>3, <1>5
<1>7. PICK a, b : /\ Beside(keys[gone], vals[gone], a) /\ Beside(keys[node], vals[node], b)
    BY <1>5, LeafBeside
<1>8. \A x, u : Pairs(keys[gone] \o keys[node], vals[gone] \o vals[node], x, u)
                    <=> Pairs(keys[gone], vals[gone], x, u) \/ Pairs(keys[node], vals[node], x, u)
    BY <1>7, PairsJoin
<1>9. \A x, u : ~Pairs(keys'[gone], <<>>, x, u)
    BY NoEntries
<1>10. \A x, u : InLeaf(gone, x, u)' \/ InLeaf(node, x, u)'
                    <=> InLeaf(gone, x, u) \/ InLeaf(node, x, u)
    BY ONLY <1>6, <1>8, <1>9 DEF InLeaf
<1>11. QED
    BY <1>4, <1>10, LeafStepEntries

\* merge_next_leaf all of the right sibling behind the leaf.
LEMMA MergeNextLeafEntries ==
    ASSUME NEW owner, NEW lo, NEW hi, OrderState(owner, lo, hi), OwnStep(op.map), MergeNextLeaf
    PROVE  Contents'[op.map] = Contents[op.map]
<1>1. DOMAIN keys = Slots /\ DOMAIN vals = Slots /\ Local /\ Wiring(owner) /\ OpOwned(owner)
    BY DEF OrderState, Local, DataTypes
<1>2. PICK gone, node, p : gone = NextSibling /\ node = op.node /\ p = parent[op.node]
    OBVIOUS
<1>3. /\ op.pc = "underflow" /\ op.is_leaf = TRUE /\ ~AtRoot /\ ~HasPrev
      /\ keys' = [keys EXCEPT ![node] = @ \o keys[gone], ![gone] = <<>>,
                              ![p] = RemoveAt(@, 1)]
      /\ vals' = [vals EXCEPT ![node] = @ \o vals[gone], ![gone] = <<>>]
    BY <1>2 DEF MergeNextLeaf, Underflowing
<1>4. HasNext
    BY <1>1, <1>3, FirstHasNext DEF AtRoot
<1>5. LeafStep(gone, node, p)
    BY ONLY <1>1, <1>2, <1>3, <1>4 DEF LeafStep
<1>6. /\ gone \in Slots /\ node \in Slots /\ gone # node /\ gone # p /\ node # p
      /\ level[gone] = 0 /\ level[node] = 0
    BY <1>5, LeafStepKin
<1>7. /\ vals'[gone] = <<>> /\ keys'[node] = keys[node] \o keys[gone]
      /\ vals'[node] = vals[node] \o vals[gone]
    BY ONLY <1>1, <1>3, <1>6
<1>8. PICK a, b : /\ Beside(keys[gone], vals[gone], a) /\ Beside(keys[node], vals[node], b)
    BY <1>6, LeafBeside
<1>9. \A x, u : Pairs(keys[node] \o keys[gone], vals[node] \o vals[gone], x, u)
                    <=> Pairs(keys[node], vals[node], x, u) \/ Pairs(keys[gone], vals[gone], x, u)
    BY <1>8, PairsJoin
<1>10. \A x, u : ~Pairs(keys'[gone], <<>>, x, u)
    BY NoEntries
<1>11. \A x, u : InLeaf(gone, x, u)' \/ InLeaf(node, x, u)'
                    <=> InLeaf(gone, x, u) \/ InLeaf(node, x, u)
    BY ONLY <1>7, <1>9, <1>10 DEF InLeaf
<1>12. QED
    BY <1>5, <1>11, LeafStepEntries

\* No step of a rebalancing loop changes what the map holds.
LEMMA LoopEntries ==
    ASSUME NEW owner, NEW lo, NEW hi, OrderState(owner, lo, hi), OwnStep(op.map),
           OverflowStep \/ UnderflowStep
    PROVE  Contents'[op.map] = Contents[op.map]
<1>1. CASE OverflowStep
    BY <1>1, OverflowEntries
<1>2. CASE \/ RootLeafUnderflow \/ RootInternalStays \/ ShrinkRoot
           \/ BorrowPrevInternal \/ BorrowNextInternal
           \/ MergePrevInternal \/ MergeNextInternal
    BY <1>2, UnderflowInternalEntries
<1>3. CASE BorrowPrevLeaf
    BY <1>3, BorrowPrevLeafEntries
<1>4. CASE BorrowNextLeaf
    BY <1>4, BorrowNextLeafEntries
<1>5. CASE MergePrevLeaf
    BY <1>5, MergePrevLeafEntries
<1>6. CASE MergeNextLeaf
    BY <1>6, MergeNextLeafEntries
<1>7. QED
    BY <1>1, <1>2, <1>3, <1>4, <1>5, <1>6 DEF UnderflowStep

-----------------------------------------------------------------------------
(***************************************************************************)
(* What each call makes of the contents of its map.                        *)
(***************************************************************************)

\* A key in none of a map's leaves is not among its contents.
LEMMA AbsentKey ==
    ASSUME NEW owner, NEW lo, NEW hi, OrderState(owner, lo, hi),
           NEW m \in Maps, Reads(m), NEW k, k \notin KeysOf(owner, m)
    PROVE  k \notin DOMAIN Contents[m]
<1>1. SUFFICES ASSUME NEW u, Holds(m, k, u)
               PROVE  FALSE
    BY DEF Reads
<1>2. PICK s \in LeavesOf(m) : InLeaf(s, k, u)
    BY <1>1 DEF Holds
<1>3. s \in Slots /\ owner[s] = m /\ level[s] = 0
    BY LeavesTreed DEF Treed
<1>4. PICK n : Beside(keys[s], vals[s], n)
    BY <1>3, LeafBeside
<1>5. PICK i \in 1 .. n : keys[s][i] = k
    BY <1>2, <1>4, BesideIs DEF InLeaf
<1>6. k \in ToSet(keys[s])
    <2>1. n \in Nat /\ DOMAIN keys[s] = 1 .. n
        BY <1>4, BesideIs
    <2>2. QED
        BY <1>5, <2>1, SetOf
<1>7. k \in KeysOf(owner, m)
    BY <1>3, <1>6 DEF KeysOf, LeafKeys
<1>8. QED
    BY <1>7

\* A map without a root holds nothing.
LEMMA RootlessHolds ==
    ASSUME NEW m \in Maps, root[m] = NULL
    PROVE  \A x, u : ~Holds(m, x, u)
<1>1. LeafChain(m) = <<>>
    BY DEF LeafChain
<1>2. ToSet(<<>>) = {}
    BY DEF ToSet
<1>3. QED
    BY <1>1, <1>2 DEF Holds, LeavesOf

LEMMA RootlessHoldsPrime ==
    ASSUME NEW m \in Maps, root'[m] = NULL
    PROVE  \A x, u : ~Holds(m, x, u)'
<1>1. LeafChain(m)' = <<>>
    BY DEF LeafChain
<1>2. ToSet(<<>>) = {}
    BY DEF ToSet
<1>3. QED
    BY <1>1, <1>2 DEF Holds, LeavesOf

\* The first entry of a map makes its root.
LEMMA InsertRootEntries ==
    ASSUME NEW owner, NEW lo, NEW hi, OrderState(owner, lo, hi),
           NEW m, OwnStep(m), NEW k \in Keys, NEW v \in Values, insert_root(m, k, v)
    PROVE  Contents'[m] = Abstract!Put(Contents[m], k, v) /\ k \notin DOMAIN Contents[m]
<1>1. m \in Maps /\ Reads(m) /\ Local /\ Wiring(owner) /\ DOMAIN keys = Slots /\ DOMAIN vals = Slots
    BY DEF OwnStep, OrderState, Local, DataTypes
<1>2. PICK new : new = Fresh
    OBVIOUS
<1>3. /\ root[m] = NULL /\ CanAlloc
      /\ keys' = [keys EXCEPT ![new] = <<k>>] /\ vals' = [vals EXCEPT ![new] = <<v>>]
    BY <1>2 DEF insert_root
<1>4. new \in Slots /\ new \notin live /\ vals[new] = <<>>
    BY <1>1, <1>2, <1>3, FreshData
<1>5. new \in Slots \ Rest(m)
    BY <1>1, <1>4, NotElsewhere
<1>6. OnlyAt(new, new)
    BY ONLY <1>1, <1>3, <1>4 DEF OnlyAt, InLeaf
<1>7. k \notin DOMAIN Contents[m]
    BY <1>1, <1>3, RootlessHolds DEF Reads
<1>8. \A x, u : ~InLeaf(new, x, u)
    BY <1>4, NoEntries DEF InLeaf
<1>9. \A x, u : InLeaf(new, x, u)' <=> (x = k /\ u = v)
    <2>1. keys'[new] = <<k>> /\ vals'[new] = <<v>>
        BY ONLY <1>1, <1>3, <1>4
    <2>2. \A x, u : Pairs(<<k>>, <<v>>, x, u) <=> (x = k /\ u = v)
        BY DEF Pairs
    <2>3. QED
        BY ONLY <2>1, <2>2 DEF InLeaf
<1>10. \A x, u : InLeaf(new, x, u)' \/ InLeaf(new, x, u)'
                    <=> (x = k /\ u = v) \/ InLeaf(new, x, u) \/ InLeaf(new, x, u)
    BY <1>8, <1>9
<1>11. QED
    BY <1>5, <1>6, <1>7, <1>10, EntryAdded

\* A new key goes into a leaf that has room,
LEMMA InsertIntoLeafEntries ==
    ASSUME NEW owner, NEW lo, NEW hi, OrderState(owner, lo, hi), op = Idle,
           NEW m, OwnStep(m), root[m] # NULL, NEW k \in Keys, NEW v \in Values,
           NEW leaf, leaf = FindLeaf(m, k), ~IsAt(leaf, k), InsertIntoLeaf(m, leaf, k, v)
    PROVE  Contents'[m] = Abstract!Put(Contents[m], k, v) /\ k \notin DOMAIN Contents[m]
<1>1. m \in Maps /\ Reads(m) /\ DOMAIN keys = Slots /\ DOMAIN vals = Slots
    BY DEF OwnStep, OrderState, Local, DataTypes
<1>2. PICK n \in Nat : \E j \in 1 .. n + 1 : NewKeyAt(owner, lo, hi, m, k, leaf, n, j)
    BY <1>1, NewKeyPlace
<1>3. PICK j \in 1 .. n + 1 : NewKeyAt(owner, lo, hi, m, k, leaf, n, j)
    BY <1>2
<1>4. /\ leaf \in Slots /\ level[leaf] = 0 /\ owner[leaf] = m /\ Len(keys[leaf]) = n
      /\ InsertionIndex(keys[leaf], k) + 1 = j /\ k \notin KeysOf(owner, m)
    BY <1>3 DEF NewKeyAt
<1>5. /\ keys' = [keys EXCEPT ![leaf] = InsertAt(@, j, k)]
      /\ vals' = [vals EXCEPT ![leaf] = InsertAt(@, j, v)]
    BY <1>4 DEF InsertIntoLeaf
<1>6. leaf \in Slots \ Rest(m)
    BY <1>1, <1>4, NotElsewhere
<1>7. OnlyAt(leaf, leaf)
    BY ONLY <1>1, <1>4, <1>5 DEF OnlyAt, InLeaf
<1>8. k \notin DOMAIN Contents[m]
    BY <1>1, <1>4, AbsentKey
<1>9. Beside(keys[leaf], vals[leaf], n)
    BY <1>4, LeafBeside
<1>10. \A x, u : Pairs(InsertAt(keys[leaf], j, k), InsertAt(vals[leaf], j, v), x, u)
                    <=> (x = k /\ u = v) \/ Pairs(keys[leaf], vals[leaf], x, u)
    BY <1>3, <1>9, PairsInsert
<1>11. keys'[leaf] = InsertAt(keys[leaf], j, k) /\ vals'[leaf] = InsertAt(vals[leaf], j, v)
    BY ONLY <1>1, <1>4, <1>5
<1>12. \A x, u : InLeaf(leaf, x, u)' \/ InLeaf(leaf, x, u)'
                    <=> (x = k /\ u = v) \/ InLeaf(leaf, x, u) \/ InLeaf(leaf, x, u)
    BY ONLY <1>10, <1>11 DEF InLeaf
<1>13. QED
    BY <1>6, <1>7, <1>8, <1>12, EntryAdded

\* or into one of the halves of a full one.
LEMMA SplitLeafEntries ==
    ASSUME NEW owner, NEW lo, NEW hi, OrderState(owner, lo, hi), op = Idle,
           NEW m, OwnStep(m), root[m] # NULL, NEW k \in Keys, NEW v \in Values,
           NEW leaf, leaf = FindLeaf(m, k), ~IsAt(leaf, k), SplitLeaf(m, leaf, k, v)
    PROVE  Contents'[m] = Abstract!Put(Contents[m], k, v) /\ k \notin DOMAIN Contents[m]
<1>1. /\ m \in Maps /\ Reads(m) /\ DOMAIN keys = Slots /\ DOMAIN vals = Slots
      /\ Local /\ Wiring(owner)
    BY DEF OwnStep, OrderState, Local, DataTypes
<1>2. PICK n \in Nat : \E j \in 1 .. n + 1 : NewKeyAt(owner, lo, hi, m, k, leaf, n, j)
    BY <1>1, NewKeyPlace
<1>3. PICK j \in 1 .. n + 1 : NewKeyAt(owner, lo, hi, m, k, leaf, n, j)
    BY <1>2
<1>4. /\ leaf \in live /\ leaf \in Slots /\ level[leaf] = 0 /\ owner[leaf] = m
      /\ n <= M /\ Len(keys[leaf]) = n
      /\ InsertionIndex(keys[leaf], k) + 1 = j /\ k \notin KeysOf(owner, m)
    BY <1>3 DEF NewKeyAt
<1>5. PICK ks, vs, right : /\ ks = InsertAt(keys[leaf], j, k) /\ vs = InsertAt(vals[leaf], j, v)
                           /\ right = Fresh
    OBVIOUS
<1>6. /\ keys' = [keys EXCEPT ![leaf] = LeafLeft(ks), ![right] = LeafRight(ks)]
      /\ vals' = [vals EXCEPT ![leaf] = LeafLeft(vs), ![right] = LeafRight(vs)]
      /\ ~HasRoom(Len(keys[leaf])) /\ RoomToSplit(m, leaf)
    BY <1>4, <1>5 DEF SplitLeaf
<1>7. /\ right \in Slots /\ right \notin live /\ vals[right] = <<>> /\ right # leaf
    BY <1>1, <1>4, <1>5, <1>6, RoomForRight, FreshData
<1>8. leaf \in Slots \ Rest(m) /\ right \in Slots \ Rest(m)
    BY <1>1, <1>4, <1>7, NotElsewhere
<1>9. OnlyAt(leaf, right)
    BY ONLY <1>1, <1>4, <1>6, <1>7 DEF OnlyAt, InLeaf
<1>10. k \notin DOMAIN Contents[m]
    BY <1>1, <1>4, AbsentKey
<1>11. /\ Beside(ks, vs, n + 1)
       /\ \A x, u : Pairs(ks, vs, x, u) <=> (x = k /\ u = v) \/ Pairs(keys[leaf], vals[leaf], x, u)
    BY <1>3, <1>4, <1>5, LeafBeside, PairsInsert
<1>12. \A x, u : Pairs(ks, vs, x, u)
                    <=> Pairs(LeafLeft(ks), LeafLeft(vs), x, u)
                        \/ Pairs(LeafRight(ks), LeafRight(vs), x, u)
    <2>1. n + 1 \in Nat /\ Len(ks) = n + 1 /\ Len(vs) = n + 1
        BY <1>11 DEF Beside
    <2>2. PICK h : h = Median(ks)
        OBVIOUS
    <2>3. Median(vs) = h
        BY <2>1, <2>2 DEF Median
    <2>4. h \in 0 .. n + 1
        <3>1. h = n \div 2
            BY <2>1, <2>2 DEF Median
        <3>2. QED
            BY <3>1
    <2>5. \A x, u : Pairs(ks, vs, x, u)
                        <=> \/ Pairs(SubSeq(ks, 1, h), SubSeq(vs, 1, h), x, u)
                            \/ Pairs(SubSeq(ks, h + 1, n + 1), SubSeq(vs, h + 1, n + 1), x, u)
        BY <1>11, <2>4, PairsSplit
    <2>6. QED
        BY <2>1, <2>2, <2>3, <2>5 DEF LeafLeft, LeafRight
<1>13. /\ keys'[leaf] = LeafLeft(ks) /\ vals'[leaf] = LeafLeft(vs)
       /\ keys'[right] = LeafRight(ks) /\ vals'[right] = LeafRight(vs)
    BY ONLY <1>1, <1>4, <1>6, <1>7
<1>14. \A x, u : ~InLeaf(right, x, u)
    BY <1>7, NoEntries DEF InLeaf
<1>15. \A x, u : InLeaf(leaf, x, u)' \/ InLeaf(right, x, u)'
                    <=> (x = k /\ u = v) \/ InLeaf(leaf, x, u) \/ InLeaf(right, x, u)
    BY ONLY <1>11, <1>12, <1>13, <1>14 DEF InLeaf
<1>16. QED
    BY <1>8, <1>9, <1>10, <1>15, EntryAdded

\* An array of keys is one of integers.
LEMMA KeysAreInts ==
    ASSUME NEW n \in Nat, NEW ks \in Seq(Keys), Len(ks) = n
    PROVE  DOMAIN ks = 1 .. n /\ ks \in Seq(Int) /\ \A i \in 1 .. n : ks[i] \in Int
<1>1. DOMAIN ks = 1 .. n /\ \A i \in 1 .. n : ks[i] \in Keys
    OBVIOUS
<1>2. \A i \in 1 .. n : ks[i] \in Int
    BY ONLY <1>1, KeysAssumption
<1>3. ks = [i \in 1 .. n |-> ks[i]]
    BY <1>1
<1>4. ks \in Seq(Int)
    BY ONLY <1>2, <1>3, n \in Nat
<1>5. QED
    BY <1>1, <1>2, <1>4

\* Where a key that is there sits in its leaf.
LEMMA IndexOfKey ==
    ASSUME NEW n \in Nat, NEW ks \in Seq(Keys), Len(ks) = n,
           NEW L, NEW H, LeafOrdered(ks, L, H), NEW k \in ToSet(ks)
    PROVE  InsertionIndex(ks, k) + 1 \in 1 .. n /\ ks[InsertionIndex(ks, k) + 1] = k
<1>1. DOMAIN ks = 1 .. n /\ ks \in Seq(Int) /\ \A i \in 1 .. n : ks[i] \in Int
    BY KeysAreInts
<1>2. PICK p \in 1 .. n : ks[p] = k
    BY <1>1, SetOf
<1>3. Rises(ks, n) /\ k \in Int
    BY <1>1, <1>2 DEF LeafOrdered, Rises
<1>4. PICK j \in 1 .. n + 1 : /\ \A i \in 1 .. n : IF i < j THEN ks[i] < k ELSE k <= ks[i]
                              /\ InsertionIndex(ks, k) = j - 1
    BY <1>1, <1>3, PlaceOf
<1>5. ~(p < j)
    BY <1>1, <1>2, <1>4
<1>6. ~(j < p)
    <2>1. SUFFICES ASSUME j < p
                   PROVE  FALSE
        OBVIOUS
    <2>2. j \in 1 .. n
        BY <2>1
    <2>3. ks[j] < ks[p]
        BY <1>3, <2>1, <2>2 DEF Rises
    <2>4. k <= ks[j]
        BY <1>4, <2>2
    <2>5. QED
        BY <1>1, <1>2, <2>2, <2>3, <2>4
<1>7. j = p
    BY <1>5, <1>6
<1>8. InsertionIndex(ks, k) + 1 = p
    BY <1>4, <1>7
<1>9. QED
    BY <1>2, <1>8

\* What a leaf in the tree of a map is, as far as its entries go.
LEMMA LeafOfMap ==
    ASSUME NEW owner, NEW lo, NEW hi, OrderState(owner, lo, hi),
           NEW m \in Maps, NEW leaf \in live, level[leaf] = 0, owner[leaf] = m
    PROVE  /\ leaf \in Slots /\ leaf \in Slots \ Rest(m)
           /\ \E n \in Nat : /\ Beside(keys[leaf], vals[leaf], n)
                             /\ Len(keys[leaf]) = n /\ keys[leaf] \in Seq(Keys)
           /\ LeafOrdered(keys[leaf], lo[leaf], hi[leaf])
<1>1. leaf \in Slots
    BY DEF OrderState, Wiring, Forest
<1>2. leaf \in Slots \ Rest(m)
    BY <1>1, NotElsewhere
<1>3. \E n \in Nat : /\ Beside(keys[leaf], vals[leaf], n)
                     /\ Len(keys[leaf]) = n /\ keys[leaf] \in Seq(Keys)
    BY <1>1, LeafBeside DEF Beside
<1>4. LeafOrdered(keys[leaf], lo[leaf], hi[leaf])
    BY NodeInOrder
<1>5. QED
    BY <1>1, <1>2, <1>3, <1>4

\* replace() of the value of a key that is there
LEMMA WriteValEntries ==
    ASSUME NEW owner, NEW lo, NEW hi, OrderState(owner, lo, hi),
           NEW m, OwnStep(m), NEW k \in Keys, NEW v \in Values,
           NEW leaf \in live, level[leaf] = 0, owner[leaf] = m, WriteVal(leaf, k, v)
    PROVE  Contents'[m] = Abstract!Put(Contents[m], k, v)
<1>1. m \in Maps /\ DOMAIN vals = Slots
    BY DEF OwnStep, OrderState, Local, DataTypes
<1>2. PICK n \in Nat : /\ Beside(keys[leaf], vals[leaf], n)
                       /\ Len(keys[leaf]) = n /\ keys[leaf] \in Seq(Keys)
    BY <1>1, LeafOfMap
<1>3. leaf \in Slots \ Rest(m) /\ LeafOrdered(keys[leaf], lo[leaf], hi[leaf])
    BY <1>1, LeafOfMap
<1>4. PICK j : j = InsertionIndex(keys[leaf], k) + 1
    OBVIOUS
<1>5. keys' = keys /\ vals' = [vals EXCEPT ![leaf][j] = v] /\ k \in ToSet(keys[leaf])
    BY <1>4 DEF WriteVal, IsAt
<1>6. j \in 1 .. n /\ keys[leaf][j] = k
    BY <1>2, <1>3, <1>4, <1>5, IndexOfKey
<1>7. \A i \in 1 .. n : keys[leaf][i] = keys[leaf][j] => i = j
    <2>1. DOMAIN keys[leaf] = 1 .. n /\ \A i \in 1 .. n : keys[leaf][i] \in Int
        BY <1>2, KeysAreInts
    <2>2. QED
        BY <1>3, <1>6, <2>1 DEF LeafOrdered
<1>8. \A x, u : Pairs(keys[leaf], [vals[leaf] EXCEPT ![j] = v], x, u)
                    <=> \/ x = keys[leaf][j] /\ u = v
                        \/ x # keys[leaf][j] /\ Pairs(keys[leaf], vals[leaf], x, u)
    BY <1>2, <1>6, <1>7, PairsWrite
<1>9. keys'[leaf] = keys[leaf] /\ vals'[leaf] = [vals[leaf] EXCEPT ![j] = v]
    BY <1>1, <1>3, <1>5
<1>10. \A x, u : InLeaf(leaf, x, u)' <=> (x = k /\ u = v) \/ (x # k /\ InLeaf(leaf, x, u))
    BY ONLY <1>6, <1>8, <1>9 DEF InLeaf
<1>11. OnlyAt(leaf, leaf)
    BY ONLY <1>1, <1>3, <1>5 DEF OnlyAt, InLeaf
<1>12. PICK w : InLeaf(leaf, k, w)
    <2>1. \A x, u : Pairs(keys[leaf], vals[leaf], x, u)
                        <=> \E i \in 1 .. n : keys[leaf][i] = x /\ vals[leaf][i] = u
        BY ONLY <1>2, BesideIs
    <2>2. Pairs(keys[leaf], vals[leaf], k, vals[leaf][j])
        BY ONLY <1>6, <2>1
    <2>3. QED
        BY <2>2 DEF InLeaf
<1>13. PICK s \in Slots \ Rest(m) : s = leaf
    BY <1>3
<1>14. /\ OnlyAt(s, s) /\ InLeaf(s, k, w)
       /\ \A x, u : InLeaf(s, x, u)' <=> (x = k /\ u = v) \/ (x # k /\ InLeaf(s, x, u))
    BY ONLY <1>10, <1>11, <1>12, <1>13
<1>15. QED
    BY ONLY <1>14, s \in Slots \ Rest(m), OwnStep(m), EntryWritten

\* remove_val: the key goes, with its value
LEMMA RemoveValEntries ==
    ASSUME NEW owner, NEW lo, NEW hi, OrderState(owner, lo, hi),
           NEW m, OwnStep(m),
           NEW leaf \in live, level[leaf] = 0, owner[leaf] = m,
           NEW n \in Nat, Len(keys[leaf]) = n,
           NEW idx, NEW j \in 1 .. n, idx + 1 = j, RemoveVal(m, leaf, idx)
    PROVE  Contents'[m] = Abstract!Erase(Contents[m], keys[leaf][j])
<1>1. m \in Maps /\ DOMAIN vals = Slots /\ DOMAIN keys = Slots
    BY DEF OwnStep, OrderState, Local, DataTypes
<1>2. /\ Beside(keys[leaf], vals[leaf], n) /\ keys[leaf] \in Seq(Keys)
      /\ leaf \in Slots \ Rest(m) /\ LeafOrdered(keys[leaf], lo[leaf], hi[leaf])
    BY <1>1, LeafOfMap
<1>3. PICK k : k = keys[leaf][j]
    OBVIOUS
<1>4. keys' = [keys EXCEPT ![leaf] = RemoveAt(@, j)] /\ vals' = [vals EXCEPT ![leaf] = RemoveAt(@, j)]
    BY DEF RemoveVal
<1>5. keys'[leaf] = RemoveAt(keys[leaf], j) /\ vals'[leaf] = RemoveAt(vals[leaf], j)
    BY <1>1, <1>2, <1>4
<1>6. \A i \in 1 .. n : keys[leaf][i] = k <=> i = j
    <2>1. DOMAIN keys[leaf] = 1 .. n /\ \A i \in 1 .. n : keys[leaf][i] \in Int
        BY <1>2, KeysAreInts
    <2>2. QED
        BY <1>2, <1>3, <2>1 DEF LeafOrdered
<1>7. \A x, u : Pairs(RemoveAt(keys[leaf], j), RemoveAt(vals[leaf], j), x, u)
                    <=> \E i \in 1 .. n : i # j /\ keys[leaf][i] = x /\ vals[leaf][i] = u
    BY <1>2, PairsRemove
<1>8. \A x, u : Pairs(keys[leaf], vals[leaf], x, u)
                    <=> \E i \in 1 .. n : keys[leaf][i] = x /\ vals[leaf][i] = u
    BY <1>2, BesideIs
<1>9. \A x, u : InLeaf(leaf, x, u)' <=> x # k /\ InLeaf(leaf, x, u)
    BY ONLY <1>5, <1>6, <1>7, <1>8 DEF InLeaf
<1>10. OnlyAt(leaf, leaf)
    BY ONLY <1>1, <1>2, <1>4 DEF OnlyAt, InLeaf
<1>11. PICK w : InLeaf(leaf, k, w)
    BY ONLY <1>3, <1>8 DEF InLeaf
<1>12. QED
    BY <1>2, <1>3, <1>9, <1>10, <1>11, EntryErased

\* clear() and drop leave nothing.
LEMMA EmptiedEntries ==
    ASSUME NEW m, OwnStep(m), clear(m) \/ drop_and_new_in(m),
           NEW owner, NEW lo, NEW hi, OrderState(owner, lo, hi)
    PROVE  Contents'[m] = Abstract!EraseAll(Contents[m])
<1>1. m \in Maps /\ Reads(m)' /\ root \in [Maps -> Slots \cup {NULL}]
    BY DEF OwnStep, OrderState, Local, DataTypes
<1>2. root'[m] = NULL
    BY <1>1 DEF clear, drop_and_new_in
<1>3. \A x, u : ~Holds(m, x, u)'
    BY <1>1, <1>2, RootlessHoldsPrime
<1>4. Contents'[m] = Abstract!Empty
    BY <1>1, <1>3, ContentsEmpty
<1>5. QED
    BY <1>4 DEF Abstract!EraseAll

\* The least and the greatest key of a dictionary
LEMMA FirstIs ==
    ASSUME NEW d, DOMAIN d \subseteq Int, NEW y \in DOMAIN d, \A x \in DOMAIN d : y <= x
    PROVE  Abstract!First(d) = y
<1>1. ASSUME NEW z \in DOMAIN d, \A x \in DOMAIN d : z <= x
      PROVE  z = y
    <2>1. z \in Int /\ y \in Int /\ z <= y /\ y <= z
        BY <1>1
    <2>2. QED
        BY <2>1
<1>2. QED
    BY <1>1 DEF Abstract!First

LEMMA LastIs ==
    ASSUME NEW d, DOMAIN d \subseteq Int, NEW y \in DOMAIN d, \A x \in DOMAIN d : x <= y
    PROVE  Abstract!Last(d) = y
<1>1. ASSUME NEW z \in DOMAIN d, \A x \in DOMAIN d : x <= z
      PROVE  z = y
    <2>1. z \in Int /\ y \in Int /\ z <= y /\ y <= z
        BY <1>1
    <2>2. QED
        BY <2>1
<1>2. QED
    BY <1>1 DEF Abstract!Last

\* A key of a map's contents is in one of its leaves, within the bounds of it.
LEMMA KeyKept ==
    ASSUME NEW owner, NEW lo, NEW hi, OrderState(owner, lo, hi),
           NEW m \in Maps, Reads(m), NEW x \in DOMAIN Contents[m]
    PROVE  /\ x \in Keys
           /\ \E s \in Slots : /\ Treed(owner, m, s) /\ level[s] = 0 /\ Spans(lo, hi, s, x)
                               /\ \E i \in DOMAIN keys[s] : keys[s][i] = x
<1>1. PICK u : Holds(m, x, u)
    BY DEF Reads
<1>2. PICK s \in LeavesOf(m) : InLeaf(s, x, u)
    BY <1>1 DEF Holds
<1>3. s \in Slots /\ Treed(owner, m, s) /\ level[s] = 0
    BY LeavesTreed
<1>4. x \in Keys /\ Spans(lo, hi, s, x)
    BY <1>2, <1>3, EntryHome
<1>5. PICK n : Beside(keys[s], vals[s], n)
    BY <1>3, LeafBeside
<1>6. \E i \in DOMAIN keys[s] : keys[s][i] = x
    BY <1>2, <1>5, BesideIs DEF InLeaf
<1>7. QED
    BY <1>3, <1>4, <1>6

\* A key of a leaf is one of the map.
LEMMA KeyIsThere ==
    ASSUME NEW owner, NEW lo, NEW hi, OrderState(owner, lo, hi),
           NEW m \in Maps, Reads(m), NEW leaf \in Slots, owner[leaf] = m, level[leaf] = 0,
           NEW n \in Nat, Len(keys[leaf]) = n, NEW j \in 1 .. n
    PROVE  keys[leaf][j] \in DOMAIN Contents[m]
<1>1. PICK z : Beside(keys[leaf], vals[leaf], z) /\ Len(keys[leaf]) = z
    BY LeafBeside
<1>2. Beside(keys[leaf], vals[leaf], n)
    BY <1>1
<1>3. InLeaf(leaf, keys[leaf][j], vals[leaf][j])
    BY <1>2, BesideIs DEF InLeaf
<1>4. PICK x, u : x = keys[leaf][j] /\ u = vals[leaf][j]
    OBVIOUS
<1>5. leaf \in LeavesOf(m)
    BY <1>3, EntryHome
<1>6. Holds(m, x, u)
    BY <1>3, <1>4, <1>5 DEF Holds
<1>7. QED
    BY <1>4, <1>6 DEF Reads

\* The first key of the first leaf is the least of the map's keys.
LEMMA FirstKeyIsLeast ==
    ASSUME NEW owner, NEW lo, NEW hi, OrderState(owner, lo, hi),
           NEW m \in Maps, Reads(m), root[m] # NULL, NEW leaf, leaf = first_leaf(m),
           NEW n \in Nat, Len(keys[leaf]) = n, n >= 1
    PROVE  Abstract!First(Contents[m]) = keys[leaf][1]
<1>1. Treed(owner, m, leaf) /\ leaf \in Slots /\ level[leaf] = 0 /\ lo[leaf] = Keys
    BY FirstLeafLow
<1>2. owner[leaf] = m /\ leaf \in live
    BY <1>1 DEF Treed
<1>3. /\ keys[leaf] \in Seq(Keys) /\ LeafOrdered(keys[leaf], lo[leaf], hi[leaf])
      /\ DOMAIN keys[leaf] = 1 .. n /\ 1 \in 1 .. n /\ hi[leaf] \in Cuts
    <2>1. \E z \in Nat :
              /\ leaf \in Slots
              /\ z <= M
              /\ Len(keys[leaf]) = z /\ keys[leaf] \in Seq(Keys) /\ DOMAIN keys[leaf] = 1 .. z
              /\ edges[leaf] \in Seq(Slots)
              /\ lo[leaf] \in Cuts /\ hi[leaf] \in Cuts
              /\ lo \in [Slots -> Cuts] /\ Far(hi) \in [Slots -> Cuts]
              /\ level[leaf] = 0 => LeafOrdered(keys[leaf], lo[leaf], hi[leaf]) /\ edges[leaf] = <<>>
              /\ level[leaf] # 0 => /\ Len(edges[leaf]) = z + 1
                                    /\ Divided(z, keys[leaf], edges[leaf], lo[leaf], hi[leaf], lo, Far(hi))
        BY <1>2, NodeInOrder
    <2>2. PICK z \in Nat : /\ Len(keys[leaf]) = z /\ keys[leaf] \in Seq(Keys)
                           /\ DOMAIN keys[leaf] = 1 .. z
                           /\ lo[leaf] \in Cuts /\ hi[leaf] \in Cuts /\ leaf \in Slots
                           /\ LeafOrdered(keys[leaf], lo[leaf], hi[leaf])
        BY ONLY <1>1, <2>1
    <2>3. 1 \in 1 .. n
        OBVIOUS
    <2>4. QED
        BY ONLY <2>2, <2>3, Len(keys[leaf]) = n
<1>4. PICK y : y = keys[leaf][1]
    OBVIOUS
<1>5. y \in DOMAIN Contents[m]
    BY <1>1, <1>2, <1>3, <1>4, KeyIsThere
<1>6. DOMAIN Contents[m] \subseteq Int
    BY KeyKept, KeysAssumption
<1>7. ASSUME NEW x \in DOMAIN Contents[m]
      PROVE  y <= x
    <2>1. PICK s \in Slots : /\ Treed(owner, m, s) /\ level[s] = 0 /\ Spans(lo, hi, s, x)
                             /\ \E i \in DOMAIN keys[s] : keys[s][i] = x
        BY KeyKept
    <2>2. x \in Keys /\ x \in Int /\ y \in Int /\ y \in Keys
        BY <1>5, <1>6, KeyKept
    <2>3. SUFFICES ASSUME x < y
                   PROVE  FALSE
        BY <2>2
    <2>4. y \notin hi[leaf]
        BY ONLY <1>3, <1>4 DEF LeafOrdered
    <2>5. x \notin hi[leaf]
        BY <1>3, <2>2, <2>3, <2>4, CutIs
    <2>6. Spans(lo, hi, leaf, x)
        BY <1>1, <2>2, <2>5 DEF Spans
    <2>7. s = leaf
        BY <1>1, <2>1, <2>2, <2>6, TreedApart
    <2>8. PICK i \in 1 .. n : keys[leaf][i] = x
        BY <1>3, <2>1, <2>7
    <2>9. i # 1 /\ 1 < i
        BY <1>4, <2>2, <2>3, <2>8
    <2>10. y < x
        BY ONLY <1>3, <1>4, <2>8, <2>9 DEF LeafOrdered
    <2>11. QED
        BY <2>2, <2>3, <2>10
<1>8. Abstract!First(Contents[m]) = y
    BY <1>5, <1>6, <1>7, FirstIs
<1>9. QED
    BY <1>4, <1>8

\* The last key of the last leaf is the greatest of the map's keys.
LEMMA LastKeyIsGreatest ==
    ASSUME NEW owner, NEW lo, NEW hi, OrderState(owner, lo, hi), op = Idle,
           NEW m \in Maps, Reads(m), root[m] # NULL, NEW leaf, leaf = last_leaf(m),
           NEW n \in Nat, Len(keys[leaf]) = n, n >= 1
    PROVE  Abstract!Last(Contents[m]) = keys[leaf][n]
<1>1. Treed(owner, m, leaf) /\ level[leaf] = 0 /\ hi[leaf] = {}
    BY LastLeafHigh, TreedIsHeld DEF Idle
<1>2. owner[leaf] = m /\ leaf \in live
    BY <1>1 DEF Treed
<1>3. /\ keys[leaf] \in Seq(Keys) /\ LeafOrdered(keys[leaf], lo[leaf], hi[leaf])
      /\ DOMAIN keys[leaf] = 1 .. n /\ n \in 1 .. n /\ lo[leaf] \in Cuts /\ leaf \in Slots
    <2>1. \E z \in Nat :
              /\ leaf \in Slots
              /\ z <= M
              /\ Len(keys[leaf]) = z /\ keys[leaf] \in Seq(Keys) /\ DOMAIN keys[leaf] = 1 .. z
              /\ edges[leaf] \in Seq(Slots)
              /\ lo[leaf] \in Cuts /\ hi[leaf] \in Cuts
              /\ lo \in [Slots -> Cuts] /\ Far(hi) \in [Slots -> Cuts]
              /\ level[leaf] = 0 => LeafOrdered(keys[leaf], lo[leaf], hi[leaf]) /\ edges[leaf] = <<>>
              /\ level[leaf] # 0 => /\ Len(edges[leaf]) = z + 1
                                    /\ Divided(z, keys[leaf], edges[leaf], lo[leaf], hi[leaf], lo, Far(hi))
        BY <1>2, NodeInOrder
    <2>2. PICK z \in Nat : /\ Len(keys[leaf]) = z /\ keys[leaf] \in Seq(Keys)
                           /\ DOMAIN keys[leaf] = 1 .. z
                           /\ lo[leaf] \in Cuts /\ hi[leaf] \in Cuts /\ leaf \in Slots
                           /\ LeafOrdered(keys[leaf], lo[leaf], hi[leaf])
        BY ONLY <1>1, <2>1
    <2>3. n \in 1 .. n
        OBVIOUS
    <2>4. QED
        BY ONLY <2>2, <2>3, Len(keys[leaf]) = n
<1>4. PICK y : y = keys[leaf][n]
    OBVIOUS
<1>5. y \in DOMAIN Contents[m]
    BY <1>1, <1>2, <1>3, <1>4, KeyIsThere
<1>6. DOMAIN Contents[m] \subseteq Int
    BY KeyKept, KeysAssumption
<1>7. ASSUME NEW x \in DOMAIN Contents[m]
      PROVE  x <= y
    <2>1. PICK s \in Slots : /\ Treed(owner, m, s) /\ level[s] = 0 /\ Spans(lo, hi, s, x)
                             /\ \E i \in DOMAIN keys[s] : keys[s][i] = x
        BY KeyKept
    <2>2. x \in Keys /\ x \in Int /\ y \in Int /\ y \in Keys
        BY <1>5, <1>6, KeyKept
    <2>3. SUFFICES ASSUME y < x
                   PROVE  FALSE
        BY <2>2
    <2>4. y \in lo[leaf]
        BY ONLY <1>3, <1>4 DEF LeafOrdered
    <2>5. x \in lo[leaf]
        BY <1>3, <2>2, <2>3, <2>4, CutIs
    <2>6. Spans(lo, hi, leaf, x)
        BY <1>1, <2>5 DEF Spans
    <2>7. s = leaf
        BY <1>1, <2>1, <2>2, <2>6, TreedApart
    <2>8. PICK i \in 1 .. n : keys[leaf][i] = x
        BY <1>3, <2>1, <2>7
    <2>9. i < n
        BY <1>4, <2>2, <2>3, <2>8
    <2>10. x < y
        BY ONLY <1>3, <1>4, <2>8, <2>9 DEF LeafOrdered
    <2>11. QED
        BY <2>2, <2>3, <2>10
<1>8. Abstract!Last(Contents[m]) = y
    BY <1>5, <1>6, <1>7, LastIs
<1>9. QED
    BY <1>4, <1>8

-----------------------------------------------------------------------------
\* The calls, each with what its name says.
LEMMA InsertEntries ==
    ASSUME NEW owner, NEW lo, NEW hi, OrderState(owner, lo, hi),
           NEW m, OwnStep(m), NEW k \in Keys, NEW v \in Values
    PROVE  /\ insert(m, k, v) => Contents'[m] = Abstract!Put(Contents[m], k, v)
           /\ get_or_insert(m, k, v) =>
                 /\ Contents'[m] = Abstract!Put(Contents[m], k, v)
                 /\ Contents'[m] = Abstract!PutIfAbsent(Contents[m], k, v)
<1>1. m \in Maps /\ Local /\ Wiring(owner) /\ RootsOwned(owner)
    BY DEF OwnStep, OrderState
<1>2. PICK leaf : leaf = FindLeaf(m, k)
    OBVIOUS
<1>3. ASSUME insert_root(m, k, v) \/ (Found(m) /\ insert_before(m, leaf, k, v))
      PROVE  /\ Contents'[m] = Abstract!Put(Contents[m], k, v)
             /\ Contents'[m] = Abstract!PutIfAbsent(Contents[m], k, v)
    <2>1. Contents'[m] = Abstract!Put(Contents[m], k, v) /\ k \notin DOMAIN Contents[m]
        <3>1. CASE insert_root(m, k, v)
            BY <3>1, InsertRootEntries
        <3>2. CASE Found(m) /\ insert_before(m, leaf, k, v)
            <4>1. /\ op = Idle /\ root[m] # NULL /\ ~IsAt(leaf, k)
                  /\ InsertIntoLeaf(m, leaf, k, v) \/ SplitLeaf(m, leaf, k, v)
                BY <3>2 DEF Found, insert_before
            <4>2. CASE InsertIntoLeaf(m, leaf, k, v)
                BY <1>2, <4>1, <4>2, InsertIntoLeafEntries
            <4>3. CASE SplitLeaf(m, leaf, k, v)
                BY <1>2, <4>1, <4>3, SplitLeafEntries
            <4>4. QED
                BY <4>1, <4>2, <4>3
        <3>3. QED
            BY <1>3, <3>1, <3>2
    <2>2. QED
        BY <2>1 DEF Abstract!PutIfAbsent
<1>4. ASSUME Found(m), WriteVal(leaf, k, v)
      PROVE  Contents'[m] = Abstract!Put(Contents[m], k, v)
    <2>1. leaf \in live /\ level[leaf] = 0 /\ owner[leaf] = m
        BY <1>1, <1>2, <1>4, FindLeafEnds DEF Found
    <2>2. QED
        BY <1>4, <2>1, WriteValEntries
<1>5. QED
    BY <1>2, <1>3, <1>4 DEF insert, get_or_insert

\* remove_key_value takes the key it finds.
LEMMA RemoveEntries ==
    ASSUME NEW owner, NEW lo, NEW hi, OrderState(owner, lo, hi),
           NEW m, OwnStep(m), NEW k \in Keys, remove_key_value(m, k)
    PROVE  Contents'[m] = Abstract!Erase(Contents[m], k) /\ k \in DOMAIN Contents[m]
<1>1. m \in Maps /\ Reads(m) /\ Local /\ Wiring(owner) /\ RootsOwned(owner)
    BY DEF OwnStep, OrderState
<1>2. PICK leaf : leaf = FindLeaf(m, k)
    OBVIOUS
<1>3. PICK idx : idx = InsertionIndex(keys[leaf], k)
    OBVIOUS
<1>4. /\ root[m] # NULL /\ k \in ToSet(keys[leaf]) /\ RemoveVal(m, leaf, idx)
    BY <1>2, <1>3 DEF remove_key_value, Found, IsAt
<1>5. leaf \in live /\ level[leaf] = 0 /\ owner[leaf] = m
    BY <1>1, <1>2, <1>4, FindLeafEnds
<1>6. PICK n \in Nat : Len(keys[leaf]) = n /\ keys[leaf] \in Seq(Keys)
    BY <1>1, <1>5, LeafOfMap
<1>7. LeafOrdered(keys[leaf], lo[leaf], hi[leaf]) /\ leaf \in Slots
    BY <1>1, <1>5, LeafOfMap
<1>8. PICK j : j = idx + 1
    OBVIOUS
<1>9. j \in 1 .. n /\ keys[leaf][j] = k
    BY <1>3, <1>4, <1>6, <1>7, <1>8, IndexOfKey
<1>10. Contents'[m] = Abstract!Erase(Contents[m], keys[leaf][j])
    BY <1>4, <1>5, <1>6, <1>8, <1>9, RemoveValEntries
<1>11. keys[leaf][j] \in DOMAIN Contents[m]
    BY <1>1, <1>5, <1>6, <1>7, <1>9, KeyIsThere
<1>12. QED
    BY <1>9, <1>10, <1>11

\* pop_first and pop_last take the ends, when there are any.
LEMMA PopEntries ==
    ASSUME NEW owner, NEW lo, NEW hi, OrderState(owner, lo, hi), NEW m, OwnStep(m)
    PROVE  /\ pop_first(m) => /\ Contents'[m] = Abstract!EraseFirst(Contents[m])
                              /\ Abstract!First(Contents[m]) \in DOMAIN Contents[m]
           /\ pop_last(m) => /\ Contents'[m] = Abstract!EraseLast(Contents[m])
                             /\ Abstract!Last(Contents[m]) \in DOMAIN Contents[m]
<1>1. m \in Maps /\ Reads(m) /\ Local /\ Wiring(owner) /\ RootsOwned(owner)
    BY DEF OwnStep, OrderState
<1>2. ASSUME pop_first(m)
      PROVE  /\ Contents'[m] = Abstract!EraseFirst(Contents[m])
             /\ Abstract!First(Contents[m]) \in DOMAIN Contents[m]
    <2>1. PICK leaf : leaf = first_leaf(m)
        OBVIOUS
    <2>2. op = Idle /\ root[m] # NULL /\ RemoveVal(m, leaf, 0)
        BY <1>2, <2>1 DEF pop_first, Found
    <2>3. leaf \in live /\ level[leaf] = 0 /\ owner[leaf] = m /\ (leaf = root[m] \/ parent[leaf] # NULL)
        BY <1>1, <2>1, <2>2, FirstLeafEnds
    <2>4. PICK n \in Nat : n >= 1 /\ Len(keys[leaf]) = n /\ leaf \in Slots
        BY <1>1, <2>2, <2>3, LeafData
    <2>5. Abstract!First(Contents[m]) = keys[leaf][1]
        BY <1>1, <2>1, <2>2, <2>4, FirstKeyIsLeast
    <2>6. 1 \in 1 .. n /\ 0 + 1 = 1
        BY <2>4
    <2>7. Contents'[m] = Abstract!Erase(Contents[m], keys[leaf][1])
        BY <2>2, <2>3, <2>4, <2>6, RemoveValEntries
    <2>8. keys[leaf][1] \in DOMAIN Contents[m]
        BY <1>1, <2>3, <2>4, <2>6, KeyIsThere
    <2>9. QED
        BY <2>5, <2>7, <2>8 DEF Abstract!EraseFirst
<1>3. ASSUME pop_last(m)
      PROVE  /\ Contents'[m] = Abstract!EraseLast(Contents[m])
             /\ Abstract!Last(Contents[m]) \in DOMAIN Contents[m]
    <2>1. PICK leaf : leaf = last_leaf(m)
        OBVIOUS
    <2>2. op = Idle /\ root[m] # NULL /\ RemoveVal(m, leaf, Len(keys[leaf]) - 1)
        BY <1>3, <2>1 DEF pop_last, Found
    <2>3. leaf \in live /\ level[leaf] = 0 /\ owner[leaf] = m /\ (leaf = root[m] \/ parent[leaf] # NULL)
        BY <1>1, <2>1, <2>2, LastLeafEnds
    <2>4. PICK n \in Nat : n >= 1 /\ Len(keys[leaf]) = n /\ leaf \in Slots
        BY <1>1, <2>2, <2>3, LeafData
    <2>5. Abstract!Last(Contents[m]) = keys[leaf][n]
        BY <1>1, <2>1, <2>2, <2>4, LastKeyIsGreatest
    <2>6. PICK idx : idx = n - 1
        OBVIOUS
    <2>7. n \in 1 .. n /\ idx + 1 = n /\ RemoveVal(m, leaf, idx)
        BY <2>2, <2>4, <2>6
    <2>8. Contents'[m] = Abstract!Erase(Contents[m], keys[leaf][n])
        BY <2>3, <2>4, <2>7, RemoveValEntries
    <2>9. keys[leaf][n] \in DOMAIN Contents[m]
        BY <1>1, <2>3, <2>4, <2>7, KeyIsThere
    <2>10. QED
        BY <2>5, <2>8, <2>9 DEF Abstract!EraseLast
<1>4. QED
    BY <1>2, <1>3

-----------------------------------------------------------------------------
(***************************************************************************)
(* The maps implement the dictionaries.                                    *)
(***************************************************************************)

\* Contents is a function of the map.
LEMMA ContentsByMap ==
    /\ Contents = [m \in Maps |-> Contents[m]]
    /\ Contents' = [m \in Maps |-> Contents'[m]]
BY DEF Contents

\* What one step does to the dictionaries, the state before and after it being
\* known to keep the order.
OrderedStep == IInv /\ Ordered /\ IInv' /\ Ordered'

\* A step of a loop shows in no dictionary.
LEMMA LoopShowsNothing ==
    ASSUME OrderedStep, OverflowStep \/ UnderflowStep \/ UNCHANGED vars
    PROVE  Contents' = Contents
<1>1. PICK owner, lo, hi : OrderState(owner, lo, hi)
    BY OrderFound DEF OrderedStep
<1>2. ASSUME NEW m \in Maps
      PROVE  Contents'[m] = Contents[m]
    <2>1. CASE OverflowStep \/ UnderflowStep
        <3>1. op.map \in Maps /\ LeavesOthers(owner, op.map)
            BY <1>1, <2>1, LoopMap, LoopFrame
        <3>2. CASE m = op.map
            <4>1. OwnStep(op.map)
                BY <1>1, <3>1, OwnStepGiven DEF OrderedStep
            <4>2. QED
                BY <1>1, <2>1, <3>2, <4>1, LoopEntries
        <3>3. CASE m # op.map
            <4>1. \A n \in Maps \ {op.map} : Contents'[n] = Contents[n]
                BY <1>1, <3>1, OthersKeep DEF OrderedStep
            <4>2. QED
                BY <3>3, <4>1
        <3>4. QED
            BY <3>2, <3>3
    <2>2. CASE UNCHANGED vars
        <3>1. LeavesOthers(owner, m)
            BY <2>2 DEF LeavesOthers, NodeAt, vars
        <3>2. OwnStep(m)
            BY <1>1, <3>1, OwnStepGiven DEF OrderedStep
        <3>3. \A r \in Slots : \A x, u : InLeaf(r, x, u)' <=> InLeaf(r, x, u)
            BY <2>2 DEF InLeaf, Pairs, vars
        <3>4. QED
            BY <3>2, <3>3, EntriesStay
    <2>3. QED
        BY <2>1, <2>2
<1>3. [m \in Maps |-> Contents'[m]] = [m \in Maps |-> Contents[m]]
    BY <1>2
<1>4. QED
    BY ONLY <1>3, ContentsByMap

\* A call shows in the dictionary of its own map alone.
LEMMA CallShowsInItsOwn ==
    ASSUME OrderedStep, NEW a \in Maps, CallOn(a)
    PROVE  /\ OwnStep(a)
           /\ \A d : Contents'[a] = d => Contents' = [Contents EXCEPT ![a] = d]
<1>1. PICK owner, lo, hi : OrderState(owner, lo, hi)
    BY OrderFound DEF OrderedStep
<1>2. LeavesOthers(owner, a)
    BY <1>1, CallFrame
<1>3. OwnStep(a)
    BY <1>1, <1>2, OwnStepGiven DEF OrderedStep
<1>4. \A m \in Maps \ {a} : Contents'[m] = Contents[m]
    BY <1>1, <1>2, OthersKeep DEF OrderedStep
<1>5. ASSUME NEW d, Contents'[a] = d
      PROVE  Contents' = [Contents EXCEPT ![a] = d]
    <2>1. [m \in Maps |-> Contents'[m]] = [m \in Maps |-> IF m = a THEN d ELSE Contents[m]]
        BY <1>4, <1>5
    <2>2. [Contents EXCEPT ![a] = d] = [m \in Maps |-> IF m = a THEN d ELSE Contents[m]]
        <3>1. PICK was : was = Contents
            OBVIOUS
        <3>2. was = [m \in Maps |-> was[m]]
            BY <3>1, ContentsByMap
        <3>3. [was EXCEPT ![a] = d] = [m \in Maps |-> IF m = a THEN d ELSE was[m]]
            BY ONLY <3>2
        <3>4. QED
            BY ONLY <3>1, <3>3
    <2>3. QED
        BY ONLY <2>1, <2>2, ContentsByMap
<1>6. QED
    BY <1>3, <1>5

\* The calls that CallsDoWhatTheySay names are among the steps of the map.
LEMMA NamedCalls ==
    ASSUME NEW m \in Maps
    PROVE  /\ \A k \in Keys, v \in Values :
                 insert(m, k, v) \/ get_or_insert(m, k, v) => CallOn(m)
           /\ \A k \in Keys : remove_key_value(m, k) => CallOn(m)
           /\ pop_first(m) \/ pop_last(m) \/ clear(m) \/ drop_and_new_in(m) => CallOn(m)
BY DEF CallOn

\* Each call does to the dictionary of its map what its name says.
LEMMA CallsDo ==
    ASSUME OrderedStep, NEW m \in Maps
    PROVE  /\ \A k \in Keys, v \in Values :
                 /\ insert(m, k, v) =>
                       Contents' = [Contents EXCEPT ![m] = Abstract!Put(Contents[m], k, v)]
                 /\ get_or_insert(m, k, v) =>
                       Contents' = [Contents EXCEPT ![m] = Abstract!PutIfAbsent(Contents[m], k, v)]
                 /\ update_and_return(m, k, v, "some") =>
                       Contents' = [Contents EXCEPT ![m] = Abstract!Put(Contents[m], k, v)]
                 /\ \A outcome \in {"none", "panic"} :
                       update_and_return(m, k, v, outcome) =>
                          Contents' = [Contents EXCEPT ![m] = Abstract!Erase(Contents[m], k)]
           /\ \A k \in Keys :
                 remove_key_value(m, k) =>
                    Contents' = [Contents EXCEPT ![m] = Abstract!Erase(Contents[m], k)]
           /\ pop_first(m) =>
                 Contents' = [Contents EXCEPT ![m] = Abstract!EraseFirst(Contents[m])]
           /\ pop_last(m) =>
                 Contents' = [Contents EXCEPT ![m] = Abstract!EraseLast(Contents[m])]
           /\ clear(m) \/ drop_and_new_in(m) =>
                 Contents' = [Contents EXCEPT ![m] = Abstract!EraseAll(Contents[m])]
<1>1. PICK owner, lo, hi : OrderState(owner, lo, hi)
    BY OrderFound DEF OrderedStep
<1>2. ASSUME NEW k \in Keys, NEW v \in Values, insert(m, k, v)
      PROVE  Contents' = [Contents EXCEPT ![m] = Abstract!Put(Contents[m], k, v)]
    <2>1. CallOn(m)
        BY <1>2, NamedCalls
    <2>2. /\ OwnStep(m)
          /\ \A d : Contents'[m] = d => Contents' = [Contents EXCEPT ![m] = d]
        BY <2>1, CallShowsInItsOwn
    <2>3. Contents'[m] = Abstract!Put(Contents[m], k, v)
        BY <1>1, <1>2, <2>2, InsertEntries
    <2>4. QED
        BY ONLY <2>2, <2>3
<1>3. ASSUME NEW k \in Keys, NEW v \in Values, get_or_insert(m, k, v)
      PROVE  Contents' = [Contents EXCEPT ![m] = Abstract!PutIfAbsent(Contents[m], k, v)]
    <2>1. CallOn(m)
        BY <1>3, NamedCalls
    <2>2. /\ OwnStep(m)
          /\ \A d : Contents'[m] = d => Contents' = [Contents EXCEPT ![m] = d]
        BY <2>1, CallShowsInItsOwn
    <2>3. Contents'[m] = Abstract!PutIfAbsent(Contents[m], k, v)
        BY <1>1, <1>3, <2>2, InsertEntries
    <2>4. QED
        BY ONLY <2>2, <2>3
<1>4. ASSUME NEW k \in Keys, remove_key_value(m, k)
      PROVE  Contents' = [Contents EXCEPT ![m] = Abstract!Erase(Contents[m], k)]
    <2>1. CallOn(m)
        BY <1>4, NamedCalls
    <2>2. /\ OwnStep(m)
          /\ \A d : Contents'[m] = d => Contents' = [Contents EXCEPT ![m] = d]
        BY <2>1, CallShowsInItsOwn
    <2>3. Contents'[m] = Abstract!Erase(Contents[m], k)
        BY <1>1, <1>4, <2>2, RemoveEntries
    <2>4. QED
        BY ONLY <2>2, <2>3
<1>5. ASSUME pop_first(m)
      PROVE  Contents' = [Contents EXCEPT ![m] = Abstract!EraseFirst(Contents[m])]
    <2>1. CallOn(m)
        BY <1>5, NamedCalls
    <2>2. /\ OwnStep(m)
          /\ \A d : Contents'[m] = d => Contents' = [Contents EXCEPT ![m] = d]
        BY <2>1, CallShowsInItsOwn
    <2>3. Contents'[m] = Abstract!EraseFirst(Contents[m])
        BY <1>1, <1>5, <2>2, PopEntries
    <2>4. QED
        BY ONLY <2>2, <2>3
<1>6. ASSUME pop_last(m)
      PROVE  Contents' = [Contents EXCEPT ![m] = Abstract!EraseLast(Contents[m])]
    <2>1. CallOn(m)
        BY <1>6, NamedCalls
    <2>2. /\ OwnStep(m)
          /\ \A d : Contents'[m] = d => Contents' = [Contents EXCEPT ![m] = d]
        BY <2>1, CallShowsInItsOwn
    <2>3. Contents'[m] = Abstract!EraseLast(Contents[m])
        BY <1>1, <1>6, <2>2, PopEntries
    <2>4. QED
        BY ONLY <2>2, <2>3
<1>7. ASSUME clear(m) \/ drop_and_new_in(m)
      PROVE  Contents' = [Contents EXCEPT ![m] = Abstract!EraseAll(Contents[m])]
    <2>1. CallOn(m)
        BY <1>7, NamedCalls
    <2>2. /\ OwnStep(m)
          /\ \A d : Contents'[m] = d => Contents' = [Contents EXCEPT ![m] = d]
        BY <2>1, CallShowsInItsOwn
    <2>3. Contents'[m] = Abstract!EraseAll(Contents[m])
        BY <1>1, <1>7, <2>2, EmptiedEntries
    <2>4. QED
        BY ONLY <2>2, <2>3
<1>8. ASSUME NEW k \in Keys, NEW v \in Values
      PROVE  /\ update_and_return(m, k, v, "some") =>
                   Contents' = [Contents EXCEPT ![m] = Abstract!Put(Contents[m], k, v)]
             /\ \A outcome \in {"none", "panic"} :
                   update_and_return(m, k, v, outcome) =>
                      Contents' = [Contents EXCEPT ![m] = Abstract!Erase(Contents[m], k)]
    <2>1. update_and_return(m, k, v, "some") => insert(m, k, v)
        BY DEF update_and_return
    <2>2. \A outcome \in {"none", "panic"} :
              update_and_return(m, k, v, outcome) => remove_key_value(m, k)
        BY DEF update_and_return
    <2>3. QED
        BY ONLY <1>2, <1>4, <2>1, <2>2, k \in Keys, v \in Values
<1>9. QED
    BY ONLY <1>2, <1>3, <1>4, <1>5, <1>6, <1>7, <1>8

\* Whatever the call, its effect is one that the dictionaries allow.
LEMMA CallHasEffect ==
    ASSUME OrderedStep, NEW a \in Maps, CallOn(a)
    PROVE  Contents'[a] \in Abstract!Effects(Contents[a])
<1>1. PICK owner, lo, hi : OrderState(owner, lo, hi)
    BY OrderFound DEF OrderedStep
<1>2. OwnStep(a)
    BY CallShowsInItsOwn
<1>3. ASSUME NEW k \in Keys, NEW v \in Values, insert(a, k, v) \/ get_or_insert(a, k, v)
      PROVE  Contents'[a] \in Abstract!Effects(Contents[a])
    <2>1. Contents'[a] = Abstract!Put(Contents[a], k, v)
        BY <1>1, <1>2, <1>3, InsertEntries
    <2>2. QED
        BY <2>1 DEF Abstract!Effects
<1>4. ASSUME NEW k \in Keys, remove_key_value(a, k)
      PROVE  Contents'[a] \in Abstract!Effects(Contents[a])
    <2>1. Contents'[a] = Abstract!Erase(Contents[a], k) /\ k \in DOMAIN Contents[a]
        BY <1>1, <1>2, <1>4, RemoveEntries
    <2>2. QED
        BY <2>1 DEF Abstract!Effects
<1>5. ASSUME pop_first(a) \/ pop_last(a)
      PROVE  Contents'[a] \in Abstract!Effects(Contents[a])
    <2>1. \/ /\ Contents'[a] = Abstract!EraseFirst(Contents[a])
             /\ Abstract!First(Contents[a]) \in DOMAIN Contents[a]
          \/ /\ Contents'[a] = Abstract!EraseLast(Contents[a])
             /\ Abstract!Last(Contents[a]) \in DOMAIN Contents[a]
        BY <1>1, <1>2, <1>5, PopEntries
    <2>2. PICK y \in DOMAIN Contents[a] : Contents'[a] = Abstract!Erase(Contents[a], y)
        BY <2>1 DEF Abstract!EraseFirst, Abstract!EraseLast
    <2>3. QED
        BY <2>2 DEF Abstract!Effects
<1>6. ASSUME clear(a) \/ drop_and_new_in(a)
      PROVE  Contents'[a] \in Abstract!Effects(Contents[a])
    <2>1. Contents'[a] = Abstract!EraseAll(Contents[a])
        BY <1>1, <1>2, <1>6, EmptiedEntries
    <2>2. QED
        BY <2>1 DEF Abstract!Effects
<1>7. QED
    BY <1>3, <1>4, <1>5, <1>6 DEF CallOn, update_and_return

\* Every map starts empty.
LEMMA InitContents ==
    ASSUME Init
    PROVE  Abstract!Init
<1>1. IInv /\ Ordered
    BY InitInv, InitOrder
<1>2. ASSUME NEW m \in Maps
      PROVE  Contents[m] = Abstract!Empty
    <2>1. Reads(m)
        BY <1>1, EntriesKnown
    <2>2. root[m] = NULL
        BY DEF Init
    <2>3. \A x, u : ~Holds(m, x, u)
        BY <2>2, RootlessHolds
    <2>4. PICK d : d = Contents[m]
        OBVIOUS
    <2>5. d = [x \in DOMAIN d |-> d[x]] /\ DOMAIN d = {}
        BY <2>1, <2>3, <2>4 DEF Reads
    <2>6. d = Abstract!Empty
        BY <2>5 DEF Abstract!Empty
    <2>7. QED
        BY <2>4, <2>6
<1>3. [m \in Maps |-> Contents[m]] = [m \in Maps |-> Abstract!Empty]
    BY <1>2
<1>4. QED
    BY <1>3, ContentsByMap DEF Abstract!Init

\* Every call is one step of the dictionaries and a loop is none: a client of
\* the maps sees sorted dictionaries of its own, whatever the trees do.
THEOREM MapsAreDictionaries ==
    ASSUME ReuseAfterClear = FALSE
    PROVE  Spec => Implements
<1>1. Init => Abstract!Init
    BY InitContents
<1>2. ASSUME IInv, Ordered, IInv', Ordered', [Next]_vars
      PROVE  [Abstract!Next]_Contents
    <2>1. OrderedStep
        BY <1>2 DEF OrderedStep
    <2>2. CASE OverflowStep \/ UnderflowStep \/ UNCHANGED vars
        <3>1. Contents' = Contents
            BY <2>1, <2>2, LoopShowsNothing
        <3>2. QED
            BY <3>1
    <2>3. CASE Call
        <3>1. PICK a \in Maps : CallOn(a)
            BY <2>3 DEF Call
        <3>2. Contents'[a] \in Abstract!Effects(Contents[a])
            BY <2>1, <3>1, CallHasEffect
        <3>3. Contents' = [Contents EXCEPT ![a] = Contents'[a]]
            BY <2>1, <3>1, CallShowsInItsOwn
        <3>4. QED
            BY <3>2, <3>3 DEF Abstract!Next
    <2>4. QED
        BY <1>2, <2>2, <2>3 DEF Next
<1>3. QED
    BY <1>1, <1>2, InductiveInvariant, OrderIsKept, PTL DEF Spec, Implements, Abstract!Spec

\* insert, get_or_insert, update_and_return, remove_key_value, pop_first, pop_last,
\* clear and a dropped map do to the dictionary what the documentation of the map says, in
\* the step that writes the leaf; no iteration of a loop changes any entry.
THEOREM CallsKeepTheirWord ==
    ASSUME ReuseAfterClear = FALSE
    PROVE  Spec => CallsDoWhatTheySay
<1>1. ASSUME IInv, Ordered, IInv', Ordered', [Next]_vars
      PROVE  [LET was == Contents
                  now == Contents'
              IN  /\ op # Idle => now = was
                  /\ \A m \in Maps :
                        LET Becomes(d) == now = [was EXCEPT ![m] = d]
                        IN  /\ \A k \in Keys, v \in Values :
                                  /\ insert(m, k, v) => Becomes(Abstract!Put(was[m], k, v))
                                  /\ get_or_insert(m, k, v) =>
                                          Becomes(Abstract!PutIfAbsent(was[m], k, v))
                                  /\ update_and_return(m, k, v, "some") =>
                                          Becomes(Abstract!Put(was[m], k, v))
                                  /\ \A outcome \in {"none", "panic"} :
                                          update_and_return(m, k, v, outcome) =>
                                              Becomes(Abstract!Erase(was[m], k))
                            /\ \A k \in Keys :
                                  remove_key_value(m, k) => Becomes(Abstract!Erase(was[m], k))
                            /\ pop_first(m) => Becomes(Abstract!EraseFirst(was[m]))
                            /\ pop_last(m) => Becomes(Abstract!EraseLast(was[m]))
                            /\ clear(m) \/ drop_and_new_in(m) =>
                                  Becomes(Abstract!EraseAll(was[m]))]_vars
    <2>1. OrderedStep
        BY <1>1 DEF OrderedStep
    <2>2. op # Idle => Contents' = Contents
        <3>1. ASSUME op # Idle
              PROVE  OverflowStep \/ UnderflowStep \/ UNCHANGED vars
            BY <1>1, <3>1, CallWaits DEF Next, Call
        <3>2. QED
            BY <2>1, <3>1, LoopShowsNothing
    <2>3. \A m \in Maps :
             /\ \A k \in Keys, v \in Values :
                   /\ insert(m, k, v) =>
                         Contents' = [Contents EXCEPT ![m] = Abstract!Put(Contents[m], k, v)]
                   /\ get_or_insert(m, k, v) =>
                         Contents' = [Contents EXCEPT ![m] = Abstract!PutIfAbsent(Contents[m], k, v)]
                   /\ update_and_return(m, k, v, "some") =>
                         Contents' = [Contents EXCEPT ![m] = Abstract!Put(Contents[m], k, v)]
                   /\ \A outcome \in {"none", "panic"} :
                         update_and_return(m, k, v, outcome) =>
                            Contents' = [Contents EXCEPT ![m] = Abstract!Erase(Contents[m], k)]
             /\ \A k \in Keys :
                   remove_key_value(m, k) =>
                      Contents' = [Contents EXCEPT ![m] = Abstract!Erase(Contents[m], k)]
             /\ pop_first(m) =>
                   Contents' = [Contents EXCEPT ![m] = Abstract!EraseFirst(Contents[m])]
             /\ pop_last(m) =>
                   Contents' = [Contents EXCEPT ![m] = Abstract!EraseLast(Contents[m])]
             /\ clear(m) \/ drop_and_new_in(m) =>
                   Contents' = [Contents EXCEPT ![m] = Abstract!EraseAll(Contents[m])]
        BY <2>1, CallsDo
    <2>4. QED
        BY ONLY <2>2, <2>3
<1>2. QED
    BY <1>1, InductiveInvariant, OrderIsKept, PTL DEF Spec, CallsDoWhatTheySay
=============================================================================
