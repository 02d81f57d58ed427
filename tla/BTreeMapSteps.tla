--------------------------- MODULE BTreeMapSteps ---------------------------
(***************************************************************************)
(* The steps of BTreeMap preserve the invariant: the iterations of the     *)
(* rebalancing loops, which take an entry from a sibling (BorrowInv) or    *)
(* merge with one (MergeInv), and the calls of the map, where the leaf a   *)
(* descent ends at is a leaf of the same map with an entry in it, and what *)
(* is done to it leaves the loops what they rely on.                       *)
(***************************************************************************)
EXTENDS BTreeForest

-----------------------------------------------------------------------------
(***************************************************************************)
(* The iterations of the rebalancing loops.                                *)
(***************************************************************************)

\* What the loop has in its hands: the two halves of a split.
LEMMA OverflowData ==
    ASSUME Local, NEW owner, Wiring(owner), OpOwned(owner), op.pc = "overflow"
    PROVE  /\ op \in OverflowOps
           /\ op.map \in Maps /\ op.key \in Keys
           /\ op.node \in live /\ op.node \in Slots
           /\ op.right \in live /\ op.right \in Slots
           /\ op.node # op.right
           /\ ~Underfull(Len(keys[op.node]))
           /\ parent[op.right] = NULL
           /\ \A m \in Maps : root[m] # op.right
           /\ level[op.right] = level[op.node]
           /\ owner[op.node] = op.map /\ owner[op.right] = op.map
           /\ parent[op.node] = NULL => root[op.map] = op.node
<1>1. op \in OverflowOps
    BY DEF Local, DataTypes, OverflowOps, UnderflowOps, Idle
<1>2. PendingOverflow
    BY DEF Local
<1>3. QED
    BY <1>1, <1>2 DEF OverflowOps, PendingOverflow, OpOwned

\* insert_edge into a parent that has room
LEMMA AbsorbIntoParentInv ==
    ASSUME IInv, AbsorbIntoParent
    PROVE  IInv'
<1> DEFINE node == op.node
           right == op.right
           p == parent[op.node]
           KK == InsertAt(keys[p], parent_idx[op.node] + 1, op.key)
<1>1. PICK owner : Wiring(owner) /\ OpOwned(owner) /\ RootsOwned(owner)
    BY InvToForest
<1>2. Local
    BY InvToForest
<1>3. op.pc = "overflow" /\ p # NULL /\ HasRoom(Len(keys[p])) /\ op' = Idle
    BY DEF AbsorbIntoParent
<1>4. /\ op.map \in Maps /\ op.key \in Keys
      /\ node \in live /\ node \in Slots /\ right \in live /\ right \in Slots /\ node # right
      /\ ~Underfull(Len(keys[node]))
      /\ parent[right] = NULL
      /\ \A m \in Maps : root[m] # right
      /\ level[right] = level[node]
      /\ owner[node] = op.map /\ owner[right] = op.map
    BY <1>1, <1>2, <1>3, OverflowData
<1>5. PICK n \in Nat, i \in Nat :
        /\ p \in live /\ p \in Slots /\ p # node
        /\ level[node] \in Nat /\ level[p] \in Nat /\ level[p] # 0
        /\ level[node] = level[p] - 1
        /\ owner[node] = owner[p]
        /\ n <= M
        /\ Len(keys[p]) = n /\ keys[p] \in Seq(Keys) /\ vals[p] = <<>>
        /\ Len(edges[p]) = n + 1 /\ edges[p] \in Seq(Slots)
        /\ parent_idx[node] = i /\ i <= n
    <2>1. node \in Slots /\ parent[node] # NULL
        BY ONLY <1>3, <1>4
    <2>2. \E n \in Nat, i \in Nat :
              /\ node \in live /\ parent[node] \in live /\ parent[node] \in Slots
              /\ parent[node] # node
              /\ level[node] \in Nat /\ level[parent[node]] \in Nat /\ level[parent[node]] # 0
              /\ level[node] = level[parent[node]] - 1
              /\ owner[node] = owner[parent[node]]
              /\ n <= M
              /\ Len(keys[parent[node]]) = n
              /\ keys[parent[node]] \in Seq(Keys)
              /\ vals[parent[node]] = <<>>
              /\ edges[parent[node]] \in Seq(Slots)
              /\ Len(edges[parent[node]]) = n + 1
              /\ DOMAIN edges[parent[node]] = 1 .. n + 1
              /\ parent_idx[node] = i
              /\ i <= n
              /\ edges[parent[node]][i + 1] = node
        BY ONLY <1>1, <1>2, <2>1, ParentData
    <2>3. QED
        BY ONLY <2>2
<1>6. n < M /\ M \in Nat
    BY <1>3, <1>5, MAssumption DEF HasRoom
<1>7. p # right
    BY <1>4, <1>5
<1>8. KK \in Seq(Keys) /\ Len(KK) = n + 1
    <2>1. PICK a \in 1 .. n + 1 : a = i + 1
        BY <1>5
    <2>2. PICK ks \in Seq(Keys), k \in Keys : ks = keys[p] /\ k = op.key
        BY <1>4, <1>5
    <2>3. Len(ks) = n
        BY <1>5, <2>2
    <2>4. InsertAt(ks, a, k) \in Seq(Keys) /\ Len(InsertAt(ks, a, k)) = n + 1
        BY <2>3, InsertAtSeq
    <2>5. QED
        BY <1>5, <2>1, <2>2, <2>4
<1>9. /\ Forest(live, level, AttachPar(parent, p, right),
             AttachPix(parent, parent_idx, p, right, i + 2),
             AttachEs(edges, p, right, i + 2), owner)
      /\ Len(AttachEs(edges, p, right, i + 2)[p]) = (n + 1) + 1
    <2>1. PICK l \in Nat, a \in Nat :
            l = n + 1 /\ a = i + 2 /\ a \in 1 .. l + 1 /\ Len(edges[p]) = l
        BY <1>5
    <2>2. level[right] = level[p] - 1 /\ owner[right] = owner[p]
        BY <1>4, <1>5
    <2>3. Forest(live, level, parent, parent_idx, edges, owner)
        BY <1>1 DEF Wiring
    <2>4. /\ Forest(live, level, AttachPar(parent, p, right),
                    AttachPix(parent, parent_idx, p, right, a),
                    AttachEs(edges, p, right, a), owner)
          /\ Len(AttachEs(edges, p, right, a)[p]) = l + 1
        BY <1>4, <1>5, <2>1, <2>2, <2>3, Attach, SMTT(30)
    <2>5. QED
        BY <2>1, <2>4
<1> HIDE DEF KK
<1>10. /\ live' = live /\ level' = level /\ vals' = vals /\ prev' = prev /\ next' = next
       /\ root' = root /\ height' = height
       /\ keys' = [keys EXCEPT ![p] = KK]
       /\ edges' = [edges EXCEPT ![p] = InsertAt(edges[p], i + 2, right)]
       /\ parent' = [parent EXCEPT ![right] = p]
       /\ parent_idx' = [Shifted(parent_idx, EdgesFrom(edges[p], i + 1), 1)
                             EXCEPT ![right] = i + 1]
       /\ length' = [length EXCEPT ![op.map] = @ + 1]
    BY <1>5 DEF AbsorbIntoParent, KK
<1>11. Wiring(owner)' /\ Len(edges'[p]) = (n + 1) + 1
    <2>1. /\ edges \in [Slots -> Seq(Slots)]
          /\ parent \in [Slots -> Slots \cup {NULL}]
          /\ parent_idx \in [Slots -> Nat \cup {-1}]
        BY <1>1 DEF Wiring, Forest
    <2>2. edges' = AttachEs(edges, p, right, i + 2)
        BY <1>10, <2>1 DEF AttachEs
    <2>3. parent' = AttachPar(parent, p, right)
        BY <1>10, <2>1 DEF AttachPar
    <2>4. parent_idx' = AttachPix(parent, parent_idx, p, right, i + 2)
        <3>1. \A c \in Slots : c \in EdgesFrom(edges[p], i + 1) <=>
                                  parent[c] = p /\ parent_idx[c] >= i + 1
            BY <1>1, <1>5, EdgesFromIs DEF Wiring
        <3>2. (i + 2) - 1 = i + 1
            OBVIOUS
        <3>3. QED
            BY <1>10, <2>1, <3>1, <3>2 DEF AttachPix, Shifted
    <2>5. QED
        BY <1>9, <1>10, <2>2, <2>3, <2>4 DEF Wiring
<1>12. \A s \in Slots :
          /\ keys'[s] = IF s = p THEN KK ELSE keys[s]
          /\ parent'[s] = IF s = right THEN p ELSE parent[s]
          /\ s # p => edges'[s] = edges[s]
    <2>1. keys \in [Slots -> Seq(Keys)]
        BY <1>2 DEF Local, DataTypes
    <2>2. parent \in [Slots -> Slots \cup {NULL}] /\ edges \in [Slots -> Seq(Slots)]
        BY <1>1 DEF Wiring, Forest
    <2>3. QED
        BY <1>10, <2>1, <2>2
<1>13. DataTypes' /\ DataBlank'
    <2>1. DataTypes
        BY <1>2 DEF Local
    <2>2. keys' \in [Slots -> Seq(Keys)]
        BY <1>8, <1>10, <2>1 DEF DataTypes
    <2>3. length' \in [Maps -> Int]
        <3>1. length[op.map] + 1 \in Int
            BY <1>4, <2>1 DEF DataTypes
        <3>2. QED
            BY <1>10, <2>1, <3>1 DEF DataTypes
    <2>4. DataBlank
        BY <1>2 DEF Local
    <2>5. QED
        BY <1>3, <1>5, <1>10, <1>12, <2>1, <2>2, <2>3, <2>4 DEF DataTypes, DataBlank
<1>14. NodeShape'
    <2>1. NodeShape
        BY <1>2 DEF Local
    <2>2. QED
        BY <1>5, <1>6, <1>8, <1>10, <1>11, <1>12, <2>1, SMTT(30) DEF NodeShape
<1>15. RootsAgree'
    <2>1. RootsAgree
        BY <1>2 DEF Local
    <2>2. ASSUME NEW m \in Maps, root[m] # NULL
          PROVE  root[m] \in live /\ parent'[root[m]] = NULL /\ level[root[m]] = height[m]
        <3>1. /\ root[m] \in live /\ parent[root[m]] = NULL /\ level[root[m]] = height[m]
              /\ root[m] \in Slots /\ root[m] # right
            BY <1>1, <1>4, <2>1, <2>2 DEF RootsAgree, Wiring, Forest
        <3>2. QED
            BY <1>12, <3>1
    <2>3. QED
        BY <1>10, <2>1, <2>2 DEF RootsAgree
<1>16. Occupancy'
    <2>1. Occupancy
        BY <1>2 DEF Local
    <2>2. SUFFICES ASSUME NEW s \in live, Underfull(Len(keys'[s]))
                   PROVE  parent'[s] = NULL /\ (keys'[s] = <<>> => \A m \in Maps : root[m] # s)
        BY <1>3, <1>10 DEF Occupancy, Idle
    <2>3. s \in Slots
        BY <1>1 DEF Wiring, Forest
    <2>4. CASE s = p
        <3>1. keys'[s] # <<>>
            BY <1>8, <1>12, <2>3, <2>4
        <3>2. Underfull(n)
            BY <1>5, <1>6, <1>8, <1>12, <2>2, <2>3, <2>4, HalfOfM DEF Underfull
        <3>3. parent[s] = NULL
            BY <1>3, <1>5, <2>1, <2>4, <3>2 DEF Occupancy
        <3>4. QED
            BY <1>7, <1>12, <2>3, <2>4, <3>1, <3>3
    <2>5. CASE s = right
        <3>1. ~Underfull(Len(keys[s]))
            BY <1>3, <1>4, <2>1, <2>5 DEF Occupancy
        <3>2. QED
            BY <1>7, <1>12, <2>2, <2>3, <2>5, <3>1
    <2>6. CASE s # p /\ s # right
        <3>1. keys'[s] = keys[s] /\ parent'[s] = parent[s]
            BY <1>12, <2>3, <2>6
        <3>2. QED
            BY <1>3, <2>1, <2>2, <2>6, <3>1 DEF Occupancy
    <2>7. QED
        BY <2>4, <2>5, <2>6
<1>17. PendingOverflow' /\ PendingUnderflow'
    BY <1>3 DEF PendingOverflow, PendingUnderflow, Idle
<1>18. Orphans'
    <2>1. Orphans
        BY <1>2 DEF Local
    <2>2. SUFFICES ASSUME NEW s \in live, parent'[s] = NULL
                   PROVE  (\E m \in Maps : root[m] = s) \/ (level[s] = 0 /\ keys'[s] = <<>>)
        BY <1>10 DEF Orphans
    <2>3. s \in Slots /\ s # right /\ parent[s] = NULL
        BY <1>1, <1>3, <1>12, <2>2 DEF Wiring, Forest
    <2>4. QED
        BY <1>5, <1>12, <2>1, <2>3 DEF Orphans
<1>19. OpOwned(owner)' /\ RootsOwned(owner)'
    BY <1>1, <1>3, <1>10 DEF OpOwned, RootsOwned, Idle
<1>20. QED
    BY <1>11, <1>13, <1>14, <1>15, <1>16, <1>17, <1>18, <1>19, ForestToInvPrime DEF Local

\* A new root above the two halves
LEMMA GrowRootInv ==
    ASSUME IInv, GrowRoot
    PROVE  IInv'
<1> DEFINE left == op.node
           right == op.right
           m == op.map
           new == Fresh
           h == height[op.map] + 1
           es1 == AttachEs(edges, new, left, 1)
           par1 == AttachPar(parent, new, left)
           pix1 == AttachPix(parent, parent_idx, new, left, 1)
           lv1 == [level EXCEPT ![new] = h]
<1>1. PICK owner : Wiring(owner) /\ OpOwned(owner) /\ RootsOwned(owner)
    BY InvToForest
<1>0. PICK ow1 : ow1 = [owner EXCEPT ![new] = m]
    OBVIOUS
<1>2. Local
    BY InvToForest
<1>3. op.pc = "overflow" /\ parent[left] = NULL /\ CanAlloc /\ op' = Idle
    BY DEF GrowRoot
<1>4. /\ m \in Maps /\ op.key \in Keys
      /\ left \in live /\ left \in Slots /\ right \in live /\ right \in Slots /\ left # right
      /\ ~Underfull(Len(keys[left]))
      /\ parent[right] = NULL
      /\ \A q \in Maps : root[q] # right
      /\ level[right] = level[left]
      /\ owner[left] = m /\ owner[right] = m
      /\ root[m] = left
    BY <1>1, <1>2, <1>3, OverflowData
<1>5. /\ new \in Slots /\ new \notin live
      /\ keys[new] = <<>> /\ vals[new] = <<>> /\ edges[new] = <<>>
      /\ parent[new] = NULL
      /\ \A q \in Maps : root[q] # new
    BY <1>1, <1>2, <1>3, FreshData
<1>6. height[m] \in Nat /\ h \in Nat /\ h # 0 /\ level[left] = height[m] /\ height[m] = h - 1
    <2>1. height[m] \in Nat /\ RootsAgree
        BY <1>2, <1>4 DEF Local, DataTypes
    <2>2. level[left] = height[m]
        BY <1>4, <2>1, SlotsAssumption DEF RootsAgree
    <2>3. QED
        BY <2>1, <2>2
<1>7. /\ live' = live \cup {new} /\ level' = lv1
      /\ keys' = [keys EXCEPT ![new] = <<op.key>>]
      /\ edges' = [edges EXCEPT ![new] = <<left, right>>]
      /\ parent' = [parent EXCEPT ![left] = new, ![right] = new]
      /\ parent_idx' = [parent_idx EXCEPT ![left] = 0, ![right] = 1]
      /\ root' = [root EXCEPT ![m] = new]
      /\ height' = [height EXCEPT ![m] = h]
      /\ length' = [length EXCEPT ![m] = @ + 1]
      /\ vals' = vals /\ prev' = prev /\ next' = next
    BY DEF GrowRoot
<1>8. Forest(live \cup {new}, lv1, parent, parent_idx, edges, ow1)
    <2> HIDE DEF h, m, new
    <2>1. Forest(live, level, parent, parent_idx, edges, owner)
        BY <1>1 DEF Wiring
    <2>2. QED
        BY <1>0, <1>4, <1>5, <1>6, <2>1, AddNode
<1>9. /\ level \in [Slots -> Nat] /\ owner \in [Slots -> Maps] /\ edges \in [Slots -> Seq(Slots)]
      /\ parent \in [Slots -> Slots \cup {NULL}]
      /\ parent_idx \in [Slots -> Nat \cup {-1}]
      /\ live \subseteq Slots
    BY <1>1 DEF Wiring, Forest
<1>10. /\ lv1[new] = h /\ lv1[left] = h - 1 /\ lv1[right] = h - 1
       /\ ow1[new] = m /\ ow1[left] = m /\ ow1[right] = m
    BY <1>0, <1>4, <1>5, <1>6, <1>9
<1>11. Forest(live \cup {new}, lv1, par1, pix1, es1, ow1) /\ Len(es1[new]) = 1
    <2> HIDE DEF new, left, lv1, h, m
    <2>1. PICK L : L = live \cup {new}
        OBVIOUS
    <2>2. PICK n \in Nat, i \in Nat :
            n = 0 /\ i = 1 /\ n + 1 = 1 /\ i \in 1 .. n + 1 /\ Len(edges[new]) = n
        BY <1>5
    <2>3. new \in L /\ left \in L /\ lv1[left] = lv1[new] - 1 /\ ow1[left] = ow1[new]
        BY <1>4, <1>10, <2>1
    <2>4. Forest(L, lv1, parent, parent_idx, edges, ow1)
        BY <1>8, <2>1
    <2>5. /\ Forest(L, lv1, AttachPar(parent, new, left),
                    AttachPix(parent, parent_idx, new, left, i),
                    AttachEs(edges, new, left, i), ow1)
          /\ Len(AttachEs(edges, new, left, i)[new]) = n + 1
        <3>1. i \in 1 .. n + 1 /\ Len(edges[new]) = n /\ parent[left] = NULL
            BY <1>3, <2>2
        <3>2. QED
            BY <2>3, <2>4, <3>1, Attach
    <2>6. QED
        BY <2>1, <2>2, <2>5
<1>12. /\ Forest(live \cup {new}, lv1, AttachPar(par1, new, right),
                 AttachPix(par1, pix1, new, right, 2), AttachEs(es1, new, right, 2), ow1)
       /\ Len(AttachEs(es1, new, right, 2)[new]) = 2
    <2>1. par1[right] = NULL
        BY <1>4 DEF AttachPar
    <2> HIDE DEF new, right, lv1, h, m, par1, pix1, es1
    <2>2. PICK L : L = live \cup {new}
        OBVIOUS
    <2>3. PICK n \in Nat, i \in Nat :
            n = 1 /\ i = 2 /\ n + 1 = 2 /\ i \in 1 .. n + 1 /\ Len(es1[new]) = n
        BY <1>11
    <2>4. new \in L /\ right \in L /\ lv1[right] = lv1[new] - 1 /\ ow1[right] = ow1[new]
        BY <1>4, <1>10, <2>2
    <2>5. Forest(L, lv1, par1, pix1, es1, ow1)
        BY <1>11, <2>2
    <2>6. /\ Forest(L, lv1, AttachPar(par1, new, right),
                    AttachPix(par1, pix1, new, right, i), AttachEs(es1, new, right, i), ow1)
          /\ Len(AttachEs(es1, new, right, i)[new]) = n + 1
        <3>1. i \in 1 .. n + 1 /\ Len(es1[new]) = n
            BY <2>3
        <3>2. QED
            BY <2>1, <2>4, <2>5, <3>1, Attach
    <2>7. QED
        BY <2>2, <2>3, <2>6
<1>13. Wiring(ow1)' /\ Len(edges'[new]) = 2
    <2>1. edges' = AttachEs(es1, new, right, 2)
        <3>1. InsertAt(InsertAt(edges[new], 1, left), 2, right) = <<left, right>>
            BY <1>4, <1>5, PairByInsertion
        <3>2. es1[new] = InsertAt(edges[new], 1, left) /\ \A s \in Slots \ {new} : es1[s] = edges[s]
            BY <1>5 DEF AttachEs
        <3>3. QED
            BY <1>5, <1>7, <1>9, <3>1, <3>2 DEF AttachEs
    <2>2. parent' = AttachPar(par1, new, right)
        BY <1>4, <1>7, <1>9 DEF AttachPar
    <2>3. parent_idx' = AttachPix(par1, pix1, new, right, 2)
        <3>1. \A s \in Slots : parent[s] # new
            BY <1>1, <1>2, <1>3, FreshData
        <3>2. \A s \in Slots : pix1[s] = IF s = left THEN 0 ELSE parent_idx[s]
            BY <3>1 DEF AttachPix
        <3>3. \A s \in Slots : par1[s] = IF s = left THEN new ELSE parent[s]
            BY DEF AttachPar
        <3> HIDE DEF pix1, par1, new
        <3>4. AttachPix(par1, pix1, new, right, 2) =
                  [s \in Slots |-> IF s = right THEN 1 ELSE IF s = left THEN 0 ELSE parent_idx[s]]
            BY <3>1, <3>2, <3>3 DEF AttachPix
        <3>5. QED
            BY <1>4, <1>7, <1>9, <3>4
    <2>4. QED
        BY <1>7, <1>12, <2>1, <2>2, <2>3 DEF Wiring
<1> HIDE DEF new
<1>14. \A s \in Slots :
          /\ keys'[s] = IF s = new THEN <<op.key>> ELSE keys[s]
          /\ parent'[s] = IF s = left \/ s = right THEN new ELSE parent[s]
          /\ level'[s] = IF s = new THEN h ELSE level[s]
          /\ s # new => edges'[s] = edges[s]
    <2>1. keys \in [Slots -> Seq(Keys)]
        BY <1>2 DEF Local, DataTypes
    <2>2. QED
        BY <1>4, <1>7, <1>9, <2>1
<1>15. DataTypes' /\ DataBlank'
    <2>1. DataTypes
        BY <1>2 DEF Local
    <2>2. keys' \in [Slots -> Seq(Keys)]
        <3>1. <<op.key>> \in Seq(Keys)
            BY <1>4
        <3>2. QED
            BY <1>7, <2>1, <3>1 DEF DataTypes
    <2>3. length' \in [Maps -> Int]
        <3>1. length[m] + 1 \in Int
            BY <1>4, <2>1 DEF DataTypes
        <3>2. QED
            BY <1>7, <2>1, <3>1 DEF DataTypes
    <2>4. root' \in [Maps -> Slots \cup {NULL}] /\ height' \in [Maps -> Nat]
        BY <1>5, <1>6, <1>7, <2>1 DEF DataTypes
    <2>5. DataBlank
        BY <1>2 DEF Local
    <2>6. QED
        BY <1>3, <1>7, <1>14, <2>1, <2>2, <2>3, <2>4, <2>5 DEF DataTypes, DataBlank
<1>16. NodeShape'
    <2>1. NodeShape
        BY <1>2 DEF Local
    <2>2. PICK n \in Nat : n = 1 /\ n <= M /\ 2 = n + 1
        BY MAssumption
    <2>3. Len(<<op.key>>) = n
        BY <2>2
    <2>4. Len(keys'[new]) = n /\ Len(edges'[new]) = n + 1 /\ level'[new] # 0 /\ vals'[new] = <<>>
        BY <1>5, <1>6, <1>7, <1>13, <1>14, <2>2, <2>3
    <2>5. ASSUME NEW s \in Slots, s # new
          PROVE  keys'[s] = keys[s] /\ edges'[s] = edges[s] /\ level'[s] = level[s] /\ vals'[s] = vals[s]
        BY <1>7, <1>14, <2>5
    <2>6. QED
        BY <2>1, <2>2, <2>4, <2>5 DEF NodeShape
<1>17. /\ \A q \in Maps : root'[q] = IF q = m THEN new ELSE root[q]
       /\ \A q \in Maps : height'[q] = IF q = m THEN h ELSE height[q]
    BY <1>2, <1>7 DEF Local, DataTypes
<1>18. RootsAgree'
    <2>1. RootsAgree
        BY <1>2 DEF Local
    <2>2. ASSUME NEW q \in Maps, root'[q] # NULL
          PROVE  root'[q] \in live' /\ parent'[root'[q]] = NULL /\ level'[root'[q]] = height'[q]
        <3>1. CASE q = m
            <4>1. root'[q] = new /\ height'[q] = h /\ new # left /\ new # right
                BY <1>4, <1>5, <1>17, <3>1
            <4>2. new \in live' /\ parent'[new] = NULL /\ level'[new] = h
                BY <1>5, <1>7, <1>14, <4>1
            <4>3. QED
                BY <4>1, <4>2
        <3>2. CASE q # m
            <4>1. /\ root'[q] = root[q] /\ root[q] # new /\ root[q] # left /\ root[q] # right
                  /\ root[q] \in live /\ parent[root[q]] = NULL /\ level[root[q]] = height[q]
                BY <1>4, <1>5, <1>17, <2>1, <2>2, <3>2 DEF RootsAgree
            <4>2. QED
                BY <1>7, <1>9, <1>14, <1>17, <3>2, <4>1
        <3>3. QED
            BY <3>1, <3>2
    <2>3. \A q, r \in Maps : root'[q] # NULL /\ root'[q] = root'[r] => q = r
        BY <1>5, <1>17, <2>1 DEF RootsAgree
    <2>4. QED
        BY <2>2, <2>3 DEF RootsAgree
<1>19. Occupancy'
    <2>1. Occupancy
        BY <1>2 DEF Local
    <2>2. SUFFICES ASSUME NEW s \in live', Underfull(Len(keys'[s]))
                   PROVE  parent'[s] = NULL /\ (keys'[s] = <<>> => \A q \in Maps : root'[q] # s)
        BY <1>3 DEF Occupancy, Idle
    <2>3. CASE s = new
        BY <1>4, <1>5, <1>14, <2>3
    <2>4. CASE s = left \/ s = right
        <3>1. ~Underfull(Len(keys[s]))
            BY <1>3, <1>4, <2>1, <2>4 DEF Occupancy
        <3>2. QED
            BY <1>4, <1>5, <1>14, <2>2, <2>4, <3>1
    <2>5. CASE s # new /\ s # left /\ s # right
        <3>1. s \in live /\ s \in Slots /\ keys'[s] = keys[s] /\ parent'[s] = parent[s]
            BY <1>7, <1>9, <1>14, <2>5
        <3>2. QED
            BY <1>3, <1>17, <2>1, <2>2, <2>5, <3>1 DEF Occupancy
    <2>6. QED
        BY <2>3, <2>4, <2>5
<1>20. PendingOverflow' /\ PendingUnderflow'
    BY <1>3 DEF PendingOverflow, PendingUnderflow, Idle
<1>21. Orphans'
    <2>1. Orphans
        BY <1>2 DEF Local
    <2>2. SUFFICES ASSUME NEW s \in live', parent'[s] = NULL
                   PROVE  (\E q \in Maps : root'[q] = s) \/ (level'[s] = 0 /\ keys'[s] = <<>>)
        BY DEF Orphans
    <2>3. CASE s = new
        BY <1>4, <1>17, <2>3
    <2>4. CASE s # new
        <3>1. s \in live /\ s \in Slots /\ s # left /\ s # right /\ parent[s] = NULL
              /\ level'[s] = level[s] /\ keys'[s] = keys[s]
            BY <1>5, <1>7, <1>9, <1>14, <2>2, <2>4, SlotsAssumption
        <3>2. QED
            BY <1>4, <1>17, <2>1, <3>1 DEF Orphans
    <2>5. QED
        BY <2>3, <2>4
<1>22. OpOwned(ow1)' /\ RootsOwned(ow1)'
    <2>1. \A q \in Maps : root[q] # NULL => root[q] # new /\ root[q] \in Slots /\ owner[root[q]] = q
        BY <1>1, <1>2, <1>5 DEF RootsOwned, Local, DataTypes
    <2>2. \A q \in Maps : root'[q] # NULL => ow1[root'[q]] = q
        BY <1>0, <1>9, <1>10, <1>17, <2>1
    <2>3. RootsOwned(ow1)'
        BY <2>2 DEF RootsOwned
    <2>4. OpOwned(ow1)'
        BY <1>3 DEF OpOwned, Idle
    <2>5. QED
        BY <2>3, <2>4
<1>23. QED
    BY <1>13, <1>15, <1>16, <1>18, <1>19, <1>20, <1>21, <1>22, ForestToInvPrime DEF Local

\* split_internal of a full parent: the loop goes on with its two halves
LEMMA SplitParentInv ==
    ASSUME IInv, SplitParent
    PROVE  IInv'
<1> DEFINE node == op.node
           right == op.right
           p == parent[op.node]
           new == Fresh
           ks == InsertAt(keys[p], parent_idx[op.node] + 1, op.key)
           es == InsertAt(edges[p], parent_idx[op.node] + 2, right)
           lv1 == [level EXCEPT ![new] = level[p]]
<1>1. PICK owner : Wiring(owner) /\ OpOwned(owner) /\ RootsOwned(owner)
    BY InvToForest
<1>0. PICK ow1 : ow1 = [owner EXCEPT ![new] = op.map]
    OBVIOUS
<1>2. Local
    BY InvToForest
<1>3. op.pc = "overflow" /\ p # NULL /\ ~HasRoom(Len(keys[p])) /\ CanAlloc
    BY DEF SplitParent
<1>4. /\ op \in OverflowOps /\ op.map \in Maps /\ op.key \in Keys
      /\ node \in live /\ node \in Slots /\ right \in live /\ right \in Slots /\ node # right
      /\ ~Underfull(Len(keys[node]))
      /\ parent[right] = NULL
      /\ \A m \in Maps : root[m] # right
      /\ level[right] = level[node]
      /\ owner[node] = op.map /\ owner[right] = op.map
    BY <1>1, <1>2, <1>3, OverflowData
<1>5. PICK n \in Nat, i \in Nat :
        /\ p \in live /\ p \in Slots /\ p # node
        /\ level[node] \in Nat /\ level[p] \in Nat /\ level[p] # 0
        /\ level[node] = level[p] - 1
        /\ owner[node] = owner[p]
        /\ n <= M
        /\ Len(keys[p]) = n /\ keys[p] \in Seq(Keys) /\ vals[p] = <<>>
        /\ Len(edges[p]) = n + 1 /\ edges[p] \in Seq(Slots)
        /\ parent_idx[node] = i /\ i <= n
    BY <1>1, <1>2, <1>3, <1>4, ParentData, SMTT(30)
<1>6. PICK h \in Nat : h >= 1 /\ M = h + h /\ M \div 2 = h
    BY HalfOfM
<1>7. n = M /\ M \in Nat
    <2>1. M \in Nat
        BY MAssumption
    <2>2. n <= M /\ ~(n < M)
        BY <1>3, <1>5 DEF HasRoom
    <2>3. QED
        BY <2>1, <2>2
<1>8. /\ new \in Slots /\ new \notin live
      /\ keys[new] = <<>> /\ vals[new] = <<>> /\ edges[new] = <<>>
      /\ parent[new] = NULL
      /\ \A q \in Maps : root[q] # new
      /\ \A s \in Slots : parent[s] # new
    BY <1>1, <1>2, <1>3, FreshData
<1>9. p # right /\ new # p /\ new # right /\ new # node
    BY <1>4, <1>5, <1>8
<1>10. /\ InternalLeft(ks) \in Seq(Keys) /\ Len(InternalLeft(ks)) = h
       /\ InternalRight(ks) \in Seq(Keys) /\ Len(InternalRight(ks)) = h
       /\ InternalSplitKey(ks) \in Keys
    <2>1. PICK a \in 1 .. n + 1 : a = i + 1
        BY <1>5
    <2>2. PICK q \in Seq(Keys), k \in Keys : q = keys[p] /\ k = op.key
        BY <1>4, <1>5
    <2>3. Len(q) = n
        BY <1>5, <2>2
    <2>4. InsertAt(q, a, k) \in Seq(Keys) /\ Len(InsertAt(q, a, k)) = n + 1
        BY <2>3, InsertAtSeq
    <2>5. ks \in Seq(Keys) /\ Len(ks) = M + 1
        BY <1>5, <1>7, <2>1, <2>2, <2>4
    <2> HIDE DEF ks
    <2>6. QED
        BY <1>6, <2>5, InternalHalves
<1>11. PICK k \in Nat, l \in Nat, a \in Nat :
         /\ k = h + 1 /\ l = n + 1 /\ l + 1 = M + 2 /\ a = i + 2 /\ k \in 0 .. l + 1
    <2>1. n = h + h
        BY <1>6, <1>7
    <2>2. h + 1 \in 0 .. n + 1 + 1 /\ (n + 1) + 1 = M + 2
        BY <1>7, <2>1
    <2>3. QED
        BY <2>2
<1>12. a \in 1 .. l + 1 /\ Len(edges[p]) = l /\ i + 1 \in Nat /\ a - 1 = i + 1
    BY <1>5, <1>11
<1>13. es \in Seq(Slots) /\ Len(es) = l + 1
    <2>1. PICK q \in Seq(Slots), e \in Slots : q = edges[p] /\ e = right
        BY <1>4, <1>5
    <2>2. Len(q) = l
        BY <1>12, <2>1
    <2>3. InsertAt(q, a, e) \in Seq(Slots) /\ Len(InsertAt(q, a, e)) = l + 1
        BY <1>12, <2>2, InsertAtSeq
    <2>4. QED
        BY <1>5, <1>11, <2>1, <2>3
<1>14. /\ EdgesLeft(es) = SubSeq(es, 1, k) /\ Len(EdgesLeft(es)) = k
       /\ EdgesRight(es) = SubSeq(es, k + 1, l + 1) /\ (l + 1) - k = k
    <2> HIDE DEF es
    <2>1. PICK q \in Nat : q = l + 1
        OBVIOUS
    <2>2. q = M + 2 /\ Len(es) = q /\ k = h + 1
        BY <1>11, <1>13, <2>1
    <2>3. QED
        BY <1>6, <1>13, <2>1, <2>2, EdgeHalves
<1>15. /\ live' = live \cup {new} /\ level' = lv1
       /\ keys' = [keys EXCEPT ![p] = InternalLeft(ks), ![new] = InternalRight(ks)]
       /\ edges' = [edges EXCEPT ![p] = EdgesLeft(es), ![new] = EdgesRight(es)]
       /\ parent' = [c \in Slots |-> IF c \in ToSet(EdgesRight(es)) THEN new
                                     ELSE IF c = right THEN p ELSE parent[c]]
       /\ parent_idx' = Shifted([Shifted(parent_idx, EdgesFrom(edges[p], i + 1), 1)
                                     EXCEPT ![right] = i + 1],
                                ToSet(EdgesRight(es)), -(Len(EdgesLeft(es))))
       /\ op' = [op EXCEPT !.node = p, !.right = new, !.key = InternalSplitKey(ks)]
       /\ vals' = vals /\ prev' = prev /\ next' = next
       /\ root' = root /\ height' = height /\ length' = length
    BY <1>5 DEF SplitParent
<1>16. /\ op'.pc = "overflow" /\ op'.map = op.map /\ op'.node = p /\ op'.right = new
       /\ op' \in OverflowOps
    BY <1>3, <1>4, <1>5, <1>8, <1>10, <1>15 DEF OverflowOps
<1> HIDE DEF new, ks
<1>17. /\ level \in [Slots -> Nat] /\ owner \in [Slots -> Maps] /\ edges \in [Slots -> Seq(Slots)]
       /\ parent \in [Slots -> Slots \cup {NULL}]
       /\ parent_idx \in [Slots -> Nat \cup {-1}]
       /\ live \subseteq Slots
    BY <1>1 DEF Wiring, Forest
<1>18. /\ lv1[new] = level[p] /\ lv1[p] = level[p] /\ lv1[right] = level[p] - 1
       /\ ow1[new] = op.map /\ ow1[p] = op.map /\ ow1[right] = op.map
    BY <1>0, <1>4, <1>5, <1>8, <1>9, <1>17
<1>19. PICK L, lv, par1, pix1, es1 :
         /\ L = live \cup {new} /\ lv = lv1
         /\ par1 = AttachPar(parent, p, right)
         /\ pix1 = AttachPix(parent, parent_idx, p, right, a)
         /\ es1 = AttachEs(edges, p, right, a)
    OBVIOUS
<1>20. Forest(L, lv, parent, parent_idx, edges, ow1)
    <2>1. Forest(live, level, parent, parent_idx, edges, owner)
        BY <1>1 DEF Wiring
    <2>2. level[p] \in Nat /\ op.map \in Maps /\ new \in Slots \ live
        BY <1>4, <1>5, <1>8
    <2>3. Forest(live \cup {new}, lv1, parent, parent_idx, edges, ow1)
        BY <1>0, <2>1, <2>2, AddNode
    <2>4. QED
        BY <1>19, <2>3
<1>21. Forest(L, lv, par1, pix1, es1, ow1) /\ Len(es1[p]) = l + 1
    <2>1. p \in L /\ right \in L /\ lv[right] = lv[p] - 1 /\ ow1[right] = ow1[p]
        BY <1>4, <1>5, <1>18, <1>19
    <2>2. a \in 1 .. l + 1 /\ Len(edges[p]) = l /\ parent[right] = NULL
        BY <1>4, <1>12
    <2>3. /\ Forest(L, lv, AttachPar(parent, p, right),
                    AttachPix(parent, parent_idx, p, right, a), AttachEs(edges, p, right, a), ow1)
          /\ Len(AttachEs(edges, p, right, a)[p]) = l + 1
        BY <1>20, <2>1, <2>2, Attach
    <2>4. QED
        BY <1>19, <2>3
<1>22. /\ \A s \in Slots : par1[s] = IF s = right THEN p ELSE parent[s]
       /\ \A s \in Slots : pix1[s] = IF s = right THEN i + 1
                                     ELSE IF parent[s] = p /\ parent_idx[s] >= i + 1
                                     THEN parent_idx[s] + 1 ELSE parent_idx[s]
       /\ \A s \in Slots \ {p} : es1[s] = edges[s]
       /\ es1[p] = es
    BY <1>5, <1>11, <1>12, <1>19 DEF AttachPar, AttachPix, AttachEs
<1>23. /\ Forest(L, lv, SplitPar(par1, pix1, p, new, k), SplitPix(par1, pix1, p, k),
                 SplitEs(es1, p, new, k, l + 1), ow1)
       /\ Len(SplitEs(es1, p, new, k, l + 1)[p]) = k
       /\ Len(SplitEs(es1, p, new, k, l + 1)[new]) = (l + 1) - k
    <2>1. PICK q \in Nat : q = l + 1
        OBVIOUS
    <2>2. /\ p \in L /\ new \in L /\ p # new /\ es1[new] = <<>> /\ lv[new] = lv[p] /\ ow1[new] = ow1[p]
          /\ Len(es1[p]) = q /\ k \in 0 .. q
        BY <1>5, <1>8, <1>9, <1>11, <1>18, <1>19, <1>21, <1>22, <2>1
    <2>3. /\ Forest(L, lv, SplitPar(par1, pix1, p, new, k), SplitPix(par1, pix1, p, k),
                 SplitEs(es1, p, new, k, q), ow1)
          /\ Len(SplitEs(es1, p, new, k, q)[p]) = k
          /\ Len(SplitEs(es1, p, new, k, q)[new]) = q - k
        BY <1>21, <2>2, Split
    <2>4. QED
        BY <2>1, <2>3
<1>24. \A c \in Slots : c \in ToSet(EdgesRight(es)) <=> par1[c] = p /\ pix1[c] >= k
    <2>1. ToSet(EdgesRight(es)) = EdgesFrom(es, k)
        <3>1. PICK q \in Nat : q = l + 1 /\ Len(es) = q /\ k \in 0 .. q
            BY <1>11, <1>13
        <3> HIDE DEF es
        <3>2. Len(es) = q /\ k \in 0 .. q /\ es \in Seq(Slots)
            BY <1>13, <3>1
        <3>3. ToSet(SubSeq(es, k + 1, q)) = EdgesFrom(es, k)
            BY <3>2, SuffixSet
        <3>4. QED
            BY <1>14, <3>1, <3>3
    <2>2. \A c \in Slots : c \in EdgesFrom(es1[p], k) <=> par1[c] = p /\ pix1[c] >= k
        BY <1>5, <1>21, EdgesFromIs
    <2>3. QED
        BY <1>22, <2>1, <2>2
<1>25. Wiring(ow1)' /\ Len(edges'[p]) = k /\ Len(edges'[new]) = k
    <2>1. edges' = SplitEs(es1, p, new, k, l + 1)
        <3> HIDE DEF es
        <3>1. \A s \in Slots : edges'[s] = IF s = p THEN SubSeq(es, 1, k)
                                ELSE IF s = new THEN SubSeq(es, k + 1, l + 1) ELSE edges[s]
            BY <1>8, <1>9, <1>14, <1>15, <1>17
        <3>2. edges' = [s \in Slots |-> edges'[s]]
            BY <1>15, <1>17
        <3>3. QED
            BY <1>22, <3>1, <3>2 DEF SplitEs
    <2>2. parent' = SplitPar(par1, pix1, p, new, k)
        BY <1>15, <1>22, <1>24 DEF SplitPar
    <2>3. parent_idx' = SplitPix(par1, pix1, p, k)
        <3>1. \A c \in Slots : c \in EdgesFrom(edges[p], i + 1) <=>
                                  parent[c] = p /\ parent_idx[c] >= i + 1
            <4>1. Forest(live, level, parent, parent_idx, edges, owner)
                BY <1>1 DEF Wiring
            <4>2. PICK b \in Nat : b = i + 1
                BY <1>12
            <4>3. \A c \in Slots : c \in EdgesFrom(edges[p], b) <=>
                                      parent[c] = p /\ parent_idx[c] >= b
                BY <1>5, <4>1, EdgesFromIs
            <4>4. QED
                BY <4>2, <4>3
        <3>2. PICK sh : sh = [Shifted(parent_idx, EdgesFrom(edges[p], i + 1), 1)
                                  EXCEPT ![right] = i + 1]
            OBVIOUS
        <3>3. sh = [c \in Slots |-> pix1[c]]
            BY <1>17, <1>22, <3>1, <3>2 DEF Shifted
        <3>4. \A c \in Slots : pix1[c] \in Int
            BY <1>21 DEF Forest
        <3>5. parent_idx' = Shifted(sh, ToSet(EdgesRight(es)), -k)
            BY <1>14, <1>15, <3>2
        <3>6. parent_idx' = [c \in Slots |-> IF c \in ToSet(EdgesRight(es)) THEN pix1[c] + (-k)
                                            ELSE pix1[c]]
            BY <3>3, <3>5 DEF Shifted
        <3>7. QED
            BY <1>24, <3>4, <3>6 DEF SplitPix
    <2>4. QED
        BY <1>14, <1>15, <1>19, <1>23, <2>1, <2>2, <2>3 DEF Wiring
<1> HIDE DEF es
<1>26. \A s \in Slots :
          /\ keys'[s] = IF s = p THEN InternalLeft(ks)
                        ELSE IF s = new THEN InternalRight(ks) ELSE keys[s]
          /\ parent'[s] = NULL <=> parent[s] = NULL /\ s # right
          /\ level'[s] = IF s = new THEN level[p] ELSE level[s]
          /\ s # new /\ s # p => edges'[s] = edges[s]
    <2>1. keys \in [Slots -> Seq(Keys)]
        BY <1>2 DEF Local, DataTypes
    <2>2. new # NULL /\ p # NULL
        BY <1>5, <1>8, SlotsAssumption
    <2>3. \A s \in Slots : parent'[s] = NULL <=> parent[s] = NULL /\ s # right
        BY <1>15, <1>22, <1>24, <2>2
    <2>4. QED
        BY <1>8, <1>9, <1>15, <1>17, <2>1, <2>3
<1>27. DataTypes' /\ DataBlank'
    <2>1. DataTypes /\ DataBlank
        BY <1>2 DEF Local
    <2>2. keys' \in [Slots -> Seq(Keys)]
        BY <1>10, <1>15, <2>1 DEF DataTypes
    <2>3. DataTypes'
        BY <1>15, <1>16, <2>1, <2>2 DEF DataTypes
    <2>4. DataBlank'
        BY <1>5, <1>15, <1>26, <2>1, ZenonT(40) DEF DataBlank
    <2>5. QED
        BY <2>3, <2>4
<1>28. NodeShape'
    <2>1. NodeShape
        BY <1>2 DEF Local
    <2>2. /\ Len(keys'[p]) = h /\ Len(keys'[new]) = h
          /\ Len(edges'[p]) = h + 1 /\ Len(edges'[new]) = h + 1
          /\ level'[p] # 0 /\ level'[new] # 0 /\ vals'[p] = <<>> /\ vals'[new] = <<>>
        BY <1>5, <1>8, <1>9, <1>10, <1>11, <1>15, <1>25, <1>26
    <2>5. h <= M
        BY <1>6
    <2>3. ASSUME NEW s \in Slots, s # new, s # p
          PROVE  keys'[s] = keys[s] /\ edges'[s] = edges[s] /\ level'[s] = level[s] /\ vals'[s] = vals[s]
        BY <1>15, <1>26, <2>3
    <2>4. QED
        BY <2>1, <2>2, <2>3, <2>5 DEF NodeShape
<1>29. RootsAgree'
    <2>1. RootsAgree
        BY <1>2 DEF Local
    <2>2. ASSUME NEW q \in Maps, root[q] # NULL
          PROVE  root[q] \in live' /\ parent'[root[q]] = NULL /\ level'[root[q]] = height[q]
        <3>1. /\ root[q] # new /\ root[q] # right /\ root[q] \in live /\ root[q] \in Slots
              /\ parent[root[q]] = NULL /\ level[root[q]] = height[q]
            BY <1>4, <1>8, <1>17, <2>1, <2>2 DEF RootsAgree
        <3>2. QED
            BY <1>15, <1>26, <3>1
    <2>3. QED
        BY <1>15, <2>1, <2>2 DEF RootsAgree
<1>30. ~Underfull(h)
    BY <1>6 DEF Underfull
<1>31. Occupancy'
    <2>1. Occupancy
        BY <1>2 DEF Local
    <2>2. SUFFICES ASSUME NEW s \in live', Underfull(Len(keys'[s]))
                   PROVE  /\ parent'[s] = NULL /\ s # new
                          /\ (keys'[s] = <<>> => \A q \in Maps : root[q] # s)
        BY <1>15, <1>16 DEF Occupancy
    <2>3. s # new /\ s # p
        BY <1>5, <1>8, <1>10, <1>26, <1>30, <2>2
    <2>4. s \in live /\ s \in Slots /\ keys'[s] = keys[s]
        BY <1>15, <1>17, <1>26, <2>3
    <2>5. s # right
        BY <1>3, <1>4, <2>1, <2>2, <2>4 DEF Occupancy
    <2>6. QED
        BY <1>3, <1>26, <2>1, <2>2, <2>3, <2>4, <2>5 DEF Occupancy
<1>32. PendingOverflow'
    <2>1. ~Underfull(Len(keys'[p]))
        BY <1>5, <1>10, <1>26, <1>30
    <2>2. parent'[p] = NULL => root[op.map] = p
        <3>1. parent'[p] = NULL => parent[p] = NULL
            BY <1>5, <1>26
        <3>2. owner[p] = op.map
            BY <1>4, <1>5
        <3>3. parent[p] = NULL => root[owner[p]] = p
            BY <1>1, <1>2, <1>5, <1>9, Climb
        <3>4. QED
            BY <3>1, <3>2, <3>3
    <2>3. parent'[new] = NULL /\ level'[new] = level'[p]
        BY <1>5, <1>8, <1>9, <1>26
    <2>4. QED
        BY <1>5, <1>8, <1>9, <1>15, <1>16, <2>1, <2>2, <2>3 DEF PendingOverflow
<1>33. PendingUnderflow'
    BY <1>16 DEF PendingUnderflow
<1>34. Orphans'
    <2>1. Orphans
        BY <1>2 DEF Local
    <2>2. SUFFICES ASSUME NEW s \in live', parent'[s] = NULL, s # new
                   PROVE  (\E q \in Maps : root[q] = s) \/ (level'[s] = 0 /\ keys'[s] = <<>>)
        BY <1>15, <1>16 DEF Orphans
    <2>3. /\ s \in live /\ s \in Slots /\ s # right /\ parent[s] = NULL
          /\ level'[s] = level[s] /\ (level[s] = 0 => keys'[s] = keys[s])
        BY <1>5, <1>15, <1>17, <1>26, <2>2, ZenonT(40)
    <2>4. QED
        BY <2>1, <2>3 DEF Orphans
<1>35. OpOwned(ow1)' /\ RootsOwned(ow1)'
    <2>1. \A q \in Maps : root[q] # NULL => root[q] # new /\ root[q] \in Slots /\ owner[root[q]] = q
        BY <1>1, <1>2, <1>8 DEF RootsOwned, Local, DataTypes
    <2>2. \A q \in Maps : root'[q] # NULL => ow1[root'[q]] = q
        BY <1>0, <1>15, <1>17, <2>1
    <2>3. RootsOwned(ow1)'
        BY <2>2 DEF RootsOwned
    <2>4. OpOwned(ow1)'
        BY <1>16, <1>18 DEF OpOwned
    <2>5. QED
        BY <2>3, <2>4
<1>36. QED
    BY <1>25, <1>27, <1>28, <1>29, <1>31, <1>32, <1>33, <1>34, <1>35, ForestToInvPrime DEF Local

-----------------------------------------------------------------------------
(***************************************************************************)
(* The loop of post_removal preserves the invariant.  What the cases have  *)
(* in common is stated once: the root (AtRootInv), taking an entry from a  *)
(* sibling (BorrowInv), and merging with one (MergeInv).                   *)
(***************************************************************************)

\* What the loop has in its hands: a node that is underfull.
LEMMA UnderflowData ==
    ASSUME Local, NEW owner, Wiring(owner), OpOwned(owner), op.pc = "underflow"
    PROVE  /\ op \in UnderflowOps
           /\ op.map \in Maps /\ op.is_leaf \in BOOLEAN
           /\ op.node \in live /\ op.node \in Slots
           /\ op.is_leaf <=> level[op.node] = 0
           /\ owner[op.node] = op.map
           /\ parent[op.node] = NULL => root[op.map] = op.node
           /\ Underfull(Len(keys[op.node]))
           /\ parent[op.node] # NULL => Len(keys[op.node]) = M \div 2 - 1
<1>1. op \in UnderflowOps
    BY DEF Local, DataTypes, OverflowOps, UnderflowOps, Idle
<1>2. PendingUnderflow /\ Occupancy
    BY DEF Local
<1>3. /\ op.map \in Maps /\ op.is_leaf \in BOOLEAN /\ op.node \in Slots
    BY <1>1 DEF UnderflowOps
<1>4. /\ op.node \in live /\ Underfull(Len(keys[op.node]))
      /\ op.is_leaf <=> level[op.node] = 0
      /\ parent[op.node] = NULL => root[op.map] = op.node
    BY <1>2 DEF PendingUnderflow
<1>5. owner[op.node] = op.map
    BY DEF OpOwned
<1>6. parent[op.node] # NULL => Len(keys[op.node]) = M \div 2 - 1
    BY <1>2, <1>4 DEF Occupancy
<1>7. QED
    BY <1>1, <1>3, <1>4, <1>5, <1>6

\* The other nodes that have a parent are not underfull.
LEMMA OthersFull ==
    ASSUME Local, op.pc = "underflow", NEW s \in live, s # op.node, parent[s] # NULL
    PROVE  ~Underfull(Len(keys[s]))
BY DEF Local, Occupancy

\* The parent of the node the loop is at has a key, so there is a sibling.
LEMMA ParentHasKey ==
    ASSUME Local, NEW owner, Wiring(owner), op.pc = "underflow", NEW p \in live,
           p # op.node, level[p] # 0
    PROVE  keys[p] # <<>>
<1>1. Occupancy /\ Orphans
    BY DEF Local
<1>2. ASSUME keys[p] = <<>> PROVE FALSE
    <2>1. Underfull(Len(keys[p]))
        <3>1. Len(keys[p]) = 0
            BY <1>2
        <3>2. QED
            BY <3>1, HalfOfM DEF Underfull
    <2>2. parent[p] = NULL /\ \A m \in Maps : root[m] # p
        BY <1>1, <1>2, <2>1 DEF Occupancy
    <2>3. QED
        BY <1>1, <2>2 DEF Orphans
<1>3. QED
    BY <1>2

\* A child of the parent other than the node
LEMMA SiblingData ==
    ASSUME Local, NEW owner, Wiring(owner), NEW s \in Slots, parent[s] # NULL,
           NEW j \in DOMAIN edges[parent[s]], j # parent_idx[s] + 1,
           NEW sib, sib = edges[parent[s]][j]
    PROVE  /\ sib \in live /\ sib \in Slots /\ sib # s /\ sib # parent[s]
           /\ parent[sib] = parent[s] /\ parent_idx[sib] = j - 1
           /\ level[sib] = level[s] /\ owner[sib] = owner[s]
<1>1. Forest(live, level, parent, parent_idx, edges, owner)
    BY DEF Wiring
<1>2. PICK n \in Nat, i \in Nat :
        /\ parent[s] \in Slots
        /\ level[s] = level[parent[s]] - 1 /\ owner[s] = owner[parent[s]]
        /\ DOMAIN edges[parent[s]] = 1 .. n + 1
        /\ parent_idx[s] = i
    BY ParentData
<1>3. /\ sib \in live /\ sib \in Slots /\ sib # parent[s]
      /\ parent[sib] = parent[s] /\ parent_idx[sib] = j - 1
      /\ level[sib] = level[parent[s]] - 1 /\ owner[sib] = owner[parent[s]]
    BY <1>1, <1>2, ForestChild
<1>4. sib # s
    BY <1>2, <1>3
<1>5. QED
    BY <1>2, <1>3, <1>4

-----------------------------------------------------------------------------
(***************************************************************************)
(* At the root.                                                            *)
(***************************************************************************)

\* A leaf at the root: the map forgets it when it is empty.
LEMMA RootLeafUnderflowInv ==
    ASSUME IInv, RootLeafUnderflow
    PROVE  IInv'
<1>1. PICK owner : Wiring(owner) /\ OpOwned(owner) /\ RootsOwned(owner)
    BY InvToForest
<1>2. Local
    BY InvToForest
<1>3. op.pc = "underflow" /\ op.is_leaf = TRUE /\ parent[op.node] = NULL /\ op' = Idle
    BY DEF RootLeafUnderflow, Underflowing, AtRoot
<1>4. /\ op.map \in Maps /\ op.node \in live /\ op.node \in Slots /\ level[op.node] = 0
      /\ root[op.map] = op.node
    BY <1>1, <1>2, <1>3, UnderflowData
<1>5. /\ live' = live /\ level' = level /\ parent' = parent /\ parent_idx' = parent_idx
      /\ keys' = keys /\ vals' = vals /\ edges' = edges /\ prev' = prev /\ next' = next
      /\ height' = height /\ length' = length
      /\ root' = IF keys[op.node] = <<>> THEN [root EXCEPT ![op.map] = NULL] ELSE root
    BY DEF RootLeafUnderflow, nodeVars
<1>6. Wiring(owner)'
    BY <1>1, <1>5 DEF Wiring
<1>7. DataTypes
    BY <1>2 DEF Local
<1>8. /\ root' \in [Maps -> Slots \cup {NULL}]
      /\ \A m \in Maps : root'[m] = root[m] \/ root'[m] = NULL
      /\ \A m \in Maps : m # op.map => root'[m] = root[m]
      /\ keys[op.node] # <<>> => root' = root
      /\ keys[op.node] = <<>> => root'[op.map] = NULL
    <2>1. root \in [Maps -> Slots \cup {NULL}]
        BY <1>7 DEF DataTypes
    <2>2. CASE keys[op.node] = <<>>
        <3>1. root' = [root EXCEPT ![op.map] = NULL]
            BY <1>5, <2>2
        <3>2. QED
            BY <1>4, <2>1, <2>2, <3>1
    <2>3. CASE keys[op.node] # <<>>
        <3>1. root' = root
            BY <1>5, <2>3
        <3>2. QED
            BY <2>1, <2>3, <3>1
    <2>4. QED
        BY <2>2, <2>3
<1>9. DataTypes' /\ DataBlank' /\ NodeShape'
    BY <1>2, <1>3, <1>5, <1>8 DEF Local, DataTypes, DataBlank, NodeShape
<1>10. RootsAgree'
    BY <1>2, <1>5, <1>8 DEF Local, RootsAgree
<1>11. Occupancy'
    <2>1. Occupancy
        BY <1>2 DEF Local
    <2>2. op.node # NULL
        BY <1>4, SlotsAssumption
    <2>3. keys[op.node] = <<>> => \A m \in Maps : root'[m] # op.node
        <3>1. \A m \in Maps : m # op.map => root[m] # op.node
            BY <1>2, <1>4, <2>2 DEF Local, RootsAgree
        <3>2. QED
            BY <1>8, <2>2, <3>1
    <2>4. SUFFICES ASSUME NEW s \in live, Underfull(Len(keys[s]))
                   PROVE  parent[s] = NULL /\ (keys[s] = <<>> => \A m \in Maps : root'[m] # s)
        BY <1>3, <1>5 DEF Occupancy, Idle
    <2>5. s # NULL
        BY <1>1, SlotsAssumption DEF Wiring, Forest
    <2>6. QED
        BY <1>3, <1>8, <2>1, <2>3, <2>4, <2>5 DEF Occupancy
<1>12. PendingOverflow' /\ PendingUnderflow' /\ OpOwned(owner)'
    BY <1>3 DEF PendingOverflow, PendingUnderflow, OpOwned, Idle
<1>13. Orphans'
    <2>1. Orphans
        BY <1>2 DEF Local
    <2>2. SUFFICES ASSUME NEW s \in live, parent[s] = NULL
                   PROVE  (\E m \in Maps : root'[m] = s) \/ (level[s] = 0 /\ keys[s] = <<>>)
        BY <1>5 DEF Orphans
    <2>3. QED
        BY <1>3, <1>4, <1>8, <2>1, <2>2 DEF Orphans
<1>14. RootsOwned(owner)'
    BY <1>1, <1>8 DEF RootsOwned
<1>15. QED
    BY <1>6, <1>9, <1>10, <1>11, <1>12, <1>13, <1>14, ForestToInvPrime DEF Local

\* An internal root with keys left
LEMMA RootInternalStaysInv ==
    ASSUME IInv, RootInternalStays
    PROVE  IInv'
<1>1. PICK owner : Wiring(owner) /\ OpOwned(owner) /\ RootsOwned(owner)
    BY InvToForest
<1>2. Local
    BY InvToForest
<1>3. op.pc = "underflow" /\ parent[op.node] = NULL /\ op' = Idle /\ keys[op.node] # <<>>
    BY DEF RootInternalStays, Underflowing, AtRoot
<1>5. /\ live' = live /\ level' = level /\ parent' = parent /\ parent_idx' = parent_idx
      /\ keys' = keys /\ vals' = vals /\ edges' = edges /\ prev' = prev /\ next' = next
      /\ height' = height /\ length' = length /\ root' = root
    BY DEF RootInternalStays, nodeVars, mapVars
<1>6. Wiring(owner)' /\ RootsOwned(owner)'
    BY <1>1, <1>5 DEF Wiring, RootsOwned
<1>7. DataTypes' /\ DataBlank' /\ NodeShape' /\ RootsAgree'
    BY <1>2, <1>3, <1>5 DEF Local, DataTypes, DataBlank, NodeShape, RootsAgree
<1>8. Occupancy'
    BY <1>2, <1>3, <1>5 DEF Local, Occupancy, Idle
<1>9. PendingOverflow' /\ PendingUnderflow' /\ OpOwned(owner)'
    BY <1>3 DEF PendingOverflow, PendingUnderflow, OpOwned, Idle
<1>10. Orphans'
    BY <1>2, <1>3, <1>5 DEF Local, Orphans, Idle
<1>11. QED
    BY <1>6, <1>7, <1>8, <1>9, <1>10, ForestToInvPrime DEF Local

\* An internal root with one edge left is discarded; the edge is the new root.
LEMMA ShrinkRootInv ==
    ASSUME IInv, ShrinkRoot
    PROVE  IInv'
<1> DEFINE node == op.node
           m == op.map
<1>1. PICK owner : Wiring(owner) /\ OpOwned(owner) /\ RootsOwned(owner)
    BY InvToForest
<1>2. Local
    BY InvToForest
<1>3. /\ op.pc = "underflow" /\ op.is_leaf = FALSE /\ parent[node] = NULL /\ op' = Idle
      /\ keys[node] = <<>>
    BY DEF ShrinkRoot, Underflowing, AtRoot
<1>4. /\ m \in Maps /\ node \in live /\ node \in Slots /\ level[node] # 0
      /\ root[m] = node /\ owner[node] = m
    BY <1>1, <1>2, <1>3, UnderflowData
<1>5. PICK child : child = edges[node][1]
    OBVIOUS
<1>6. /\ live' = live \ {node}
      /\ level' = [level EXCEPT ![node] = 0]
      /\ edges' = [edges EXCEPT ![node] = <<>>]
      /\ parent' = [parent EXCEPT ![child] = NULL]
      /\ parent_idx' = [parent_idx EXCEPT ![child] = Uninit]
      /\ height' = [height EXCEPT ![m] = @ - 1]
      /\ root' = [root EXCEPT ![m] = child]
      /\ keys' = keys /\ vals' = vals /\ prev' = prev /\ next' = next /\ length' = length
    BY <1>5 DEF ShrinkRoot
<1>7. /\ level \in [Slots -> Nat] /\ edges \in [Slots -> Seq(Slots)]
      /\ parent \in [Slots -> Slots \cup {NULL}]
      /\ parent_idx \in [Slots -> Nat \cup {-1}]
      /\ live \subseteq Slots /\ NULL \notin Slots
    BY <1>1, SlotsAssumption DEF Wiring, Forest
<1>8. Forest(live, level, parent, parent_idx, edges, owner)
    BY <1>1 DEF Wiring
<1>9. /\ Len(edges[node]) = 1 /\ DOMAIN edges[node] = 1 .. 1 /\ edges[node] \in Seq(Slots)
      /\ vals[node] = <<>>
    <2>1. PICK n \in Nat : /\ Len(keys[node]) = n /\ vals[node] = <<>>
                           /\ Len(edges[node]) = n + 1 /\ DOMAIN edges[node] = 1 .. n + 1
                           /\ edges[node] \in Seq(Slots)
        BY <1>1, <1>2, <1>4, NodeData
    <2>2. n = 0
        BY <1>3, <2>1
    <2>3. QED
        BY <2>1, <2>2
<1>10. /\ child \in live /\ child \in Slots /\ child # node
       /\ parent[child] = node /\ parent_idx[child] = 0
       /\ level[child] = level[node] - 1 /\ owner[child] = m
       /\ level[child] \in Nat /\ level[node] \in Nat
    <2>1. 1 \in DOMAIN edges[node]
        BY <1>9
    <2>2. QED
        BY <1>4, <1>5, <1>8, <2>1, ForestChild
<1>11. \A s \in Slots : parent[s] = node => s = child
    <2>1. SUFFICES ASSUME NEW s \in Slots, parent[s] = node PROVE s = child
        OBVIOUS
    <2>0. parent[s] # NULL
        BY <1>4, <1>7, <2>1
    <2>2. PICK n \in Nat, j \in Nat :
            /\ j \in 1 .. n
            /\ DOMAIN edges[parent[s]] = 1 .. n
            /\ edges[parent[s]][j] = s
        BY <1>8, <2>0, ForestParent
    <2>3. j \in 1 .. 1
        BY <1>9, <2>1, <2>2
    <2>4. QED
        BY <1>5, <2>1, <2>2, <2>3
<1>12. PICK par1, pix1, es1 :
         /\ par1 = DetachPar(parent, child)
         /\ pix1 = DetachPix(parent, parent_idx, node, child, 1)
         /\ es1 = DetachEs(edges, node, 1)
    OBVIOUS
<1>13. Forest(live, level, par1, pix1, es1, owner) /\ Len(es1[node]) = 0
    <2>1. PICK n \in Nat, i \in Nat : n = 1 /\ i = 1
        OBVIOUS
    <2>2. Len(edges[node]) = n /\ i \in 1 .. n /\ child = edges[node][i]
        BY <1>5, <1>9, <2>1
    <2>3. /\ Forest(live, level, DetachPar(parent, child),
                    DetachPix(parent, parent_idx, node, child, i), DetachEs(edges, node, i), owner)
          /\ Len(DetachEs(edges, node, i)[node]) = n - 1
        BY <1>4, <1>8, <2>2, Detach
    <2>4. QED
        BY <1>12, <2>1, <2>3
<1>14. /\ \A s \in Slots : par1[s] = IF s = child THEN NULL ELSE parent[s]
       /\ \A s \in Slots : pix1[s] = IF s = child THEN -1 ELSE parent_idx[s]
       /\ \A s \in Slots \ {node} : es1[s] = edges[s]
    BY <1>11, <1>12 DEF DetachPar, DetachPix, DetachEs
<1>15. Wiring(owner)'
    <2>1. PICK gone \in SUBSET Slots : gone = {node}
        BY <1>4
    <2>2. parent_idx' \in [Slots -> Nat \cup {-1}] /\ \A s \in Slots \ gone : parent_idx'[s] = pix1[s]
        BY <1>6, <1>7, <1>10, <1>14 DEF Uninit
    <2>3. \A s \in live : par1[s] # NULL => (s \in gone <=> par1[s] \in gone)
        BY <1>3, <1>7, <1>11, <1>14, <2>1
    <2>4. Forest(live \ gone, Wiped(level, gone, 0), Wiped(par1, gone, NULL), parent_idx',
                 Wiped(es1, gone, <<>>), owner)
        BY <1>13, <2>2, <2>3, Discard
    <2>5. level' = Wiped(level, gone, 0)
        BY <1>6, <1>7, <2>1 DEF Wiped
    <2>6. parent' = Wiped(par1, gone, NULL)
        BY <1>3, <1>6, <1>7, <1>14, <2>1 DEF Wiped
    <2>7. edges' = Wiped(es1, gone, <<>>)
        BY <1>6, <1>7, <1>14, <2>1 DEF Wiped
    <2>8. QED
        BY <1>6, <2>1, <2>4, <2>5, <2>6, <2>7 DEF Wiring
<1>16. \A s \in Slots :
          /\ parent'[s] = IF s = child THEN NULL ELSE parent[s]
          /\ level'[s] = IF s = node THEN 0 ELSE level[s]
          /\ edges'[s] = IF s = node THEN <<>> ELSE edges[s]
    BY <1>6, <1>7
<1>17. DataTypes /\ RootsAgree
    BY <1>2 DEF Local
<1>18. height[m] \in Nat /\ height[m] = level[node] /\ height[m] - 1 = level[child]
    BY <1>4, <1>7, <1>10, <1>17 DEF DataTypes, RootsAgree
<1>19. /\ \A q \in Maps : root'[q] = IF q = m THEN child ELSE root[q]
       /\ \A q \in Maps : height'[q] = IF q = m THEN level[child] ELSE height[q]
       /\ \A q \in Maps : q # m => root[q] # node
       /\ \A q \in Maps : root[q] # child
    <2>1. \A q \in Maps : q # m => root[q] # node
        BY <1>4, <1>7, <1>17 DEF RootsAgree
    <2>2. \A q \in Maps : root[q] # child
        BY <1>4, <1>7, <1>10, <1>17, ZenonT(40) DEF RootsAgree
    <2>3. QED
        BY <1>6, <1>17, <1>18, <2>1, <2>2 DEF DataTypes
<1>20. DataTypes' /\ DataBlank'
    <2>1. root' \in [Maps -> Slots \cup {NULL}] /\ height' \in [Maps -> Nat]
        BY <1>4, <1>6, <1>10, <1>17, <1>18 DEF DataTypes
    <2>2. DataBlank
        BY <1>2 DEF Local
    <2>3. QED
        BY <1>3, <1>6, <1>9, <1>17, <2>1, <2>2 DEF DataTypes, DataBlank
<1>21. NodeShape'
    <2>1. NodeShape
        BY <1>2 DEF Local
    <2>2. Len(vals[node]) = Len(keys[node])
        BY <1>3, <1>9
    <2>3. QED
        BY <1>6, <1>16, <2>1, <2>2 DEF NodeShape
<1>22. RootsAgree'
    <2>1. ASSUME NEW q \in Maps, root'[q] # NULL
          PROVE  root'[q] \in live' /\ parent'[root'[q]] = NULL /\ level'[root'[q]] = height'[q]
        <3>1. CASE q = m
            BY <1>6, <1>10, <1>16, <1>19, <3>1
        <3>2. CASE q # m
            <4>1. /\ root'[q] = root[q] /\ root[q] # node /\ root[q] # child
                  /\ root[q] \in live /\ parent[root[q]] = NULL /\ level[root[q]] = height[q]
                BY <1>17, <1>19, <2>1, <3>2 DEF RootsAgree
            <4>2. QED
                BY <1>6, <1>7, <1>16, <1>19, <3>2, <4>1
        <3>3. QED
            BY <3>1, <3>2
    <2>2. \A q, r \in Maps : root'[q] # NULL /\ root'[q] = root'[r] => q = r
        BY <1>17, <1>19 DEF RootsAgree
    <2>3. QED
        BY <2>1, <2>2 DEF RootsAgree
<1>23. Occupancy'
    <2>1. Occupancy
        BY <1>2 DEF Local
    <2>2. SUFFICES ASSUME NEW s \in live', Underfull(Len(keys[s]))
                   PROVE  parent'[s] = NULL /\ (keys[s] = <<>> => \A q \in Maps : root'[q] # s)
        BY <1>3, <1>6 DEF Occupancy, Idle
    <2>3. s \in live /\ s \in Slots /\ s # node
        BY <1>6, <1>7
    <2>4. s # child
        BY <1>3, <1>4, <1>7, <1>10, <2>1, <2>2 DEF Occupancy
    <2>5. parent[s] = NULL /\ (keys[s] = <<>> => \A q \in Maps : root[q] # s)
        BY <1>3, <2>1, <2>2, <2>3 DEF Occupancy
    <2>6. QED
        BY <1>16, <1>19, <2>3, <2>4, <2>5
<1>24. PendingOverflow' /\ PendingUnderflow' /\ OpOwned(owner)'
    BY <1>3 DEF PendingOverflow, PendingUnderflow, OpOwned, Idle
<1>25. Orphans'
    <2>1. Orphans
        BY <1>2 DEF Local
    <2>2. SUFFICES ASSUME NEW s \in live', parent'[s] = NULL
                   PROVE  (\E q \in Maps : root'[q] = s) \/ (level'[s] = 0 /\ keys'[s] = <<>>)
        BY DEF Orphans
    <2>3. s \in live /\ s \in Slots /\ s # node
        BY <1>6, <1>7
    <2>4. CASE s = child
        BY <1>4, <1>19, <2>4
    <2>5. CASE s # child
        <3>1. parent[s] = NULL
            BY <1>16, <2>2, <2>3, <2>5
        <3>2. (\E q \in Maps : root[q] = s) \/ (level[s] = 0 /\ keys[s] = <<>>)
            BY <1>3, <2>1, <2>3, <3>1 DEF Orphans
        <3>3. QED
            BY <1>4, <1>6, <1>16, <1>19, <2>3, <3>2
    <2>6. QED
        BY <2>4, <2>5
<1>26. RootsOwned(owner)'
    BY <1>1, <1>10, <1>19 DEF RootsOwned
<1>27. QED
    BY <1>15, <1>20, <1>21, <1>22, <1>23, <1>24, <1>25, <1>26, ForestToInvPrime DEF Local

-----------------------------------------------------------------------------
(***************************************************************************)
(* Beside a sibling.                                                       *)
(***************************************************************************)

\* A sibling that lends has enough left, and the node has enough then.
LEMMA BorrowInv ==
    ASSUME Local, NEW owner, Wiring(owner), OpOwned(owner), RootsOwned(owner),
           op.pc = "underflow", parent[op.node] # NULL,
           NEW from \in live, from # op.node, parent[from] = parent[op.node],
           CanLend(Len(keys[from])),
           live' = live, level' = level, root' = root, height' = height, op' = Idle,
           Wiring(owner)', DataTypes', NodeShape',
           \A s \in Slots : parent'[s] = NULL <=> parent[s] = NULL,
           Len(keys'[op.node]) = Len(keys[op.node]) + 1,
           Len(keys'[from]) = Len(keys[from]) - 1,
           Len(keys'[parent[op.node]]) = Len(keys[parent[op.node]]),
           \A s \in Slots \ {op.node, from, parent[op.node]} :
              keys'[s] = keys[s] /\ vals'[s] = vals[s]
    PROVE  IInv'
<1> DEFINE node == op.node
           p == parent[op.node]
<1>1. /\ op.map \in Maps /\ node \in live /\ node \in Slots
      /\ Len(keys[node]) = M \div 2 - 1
    BY UnderflowData
<1>2. /\ p \in live /\ p \in Slots /\ p # node /\ level[p] # 0
    BY <1>1, ParentData
<1>3. p # from
    <2>1. from \in Slots /\ parent[from] # NULL
        BY DEF Wiring, Forest
    <2>2. parent[from] # from
        BY <2>1, ParentData
    <2>3. QED
        BY <2>2
<1>4. live \subseteq Slots /\ from \in Slots /\ NULL \notin Slots
    BY SlotsAssumption DEF Wiring, Forest
<1>5. PICK h \in Nat : h >= 1 /\ M = h + h /\ M \div 2 = h
    BY HalfOfM
<1>6. ~Underfull(Len(keys'[node]))
    <2>1. Len(keys'[node]) = (h - 1) + 1
        BY <1>1, <1>5
    <2>2. QED
        BY <1>5, <2>1 DEF Underfull
<1>7. ~Underfull(Len(keys'[from]))
    <2>1. PICK a \in Nat : Len(keys[from]) = a
        BY <1>4, NodeData
    <2>2. a > h /\ Len(keys'[from]) = a - 1
        BY <1>5, <2>1 DEF CanLend
    <2>3. QED
        BY <1>5, <2>2 DEF Underfull
<1>8. keys'[p] # <<>>
    <2>1. keys[p] # <<>>
        BY <1>2, ParentHasKey
    <2>2. PICK n \in Nat : Len(keys[p]) = n /\ keys[p] \in Seq(Keys)
        BY <1>2, NodeData
    <2>3. n # 0
        BY <2>1, <2>2
    <2>4. Len(keys'[p]) = n
        BY <2>2
    <2>5. QED
        BY <2>3, <2>4
<1>9. DataBlank'
    BY <1>1, <1>2 DEF Local, DataBlank
<1>10. RootsAgree'
    BY <1>4 DEF Local, RootsAgree
<1>11. Occupancy'
    <2>1. Occupancy
        BY DEF Local
    <2>2. SUFFICES ASSUME NEW s \in live, Underfull(Len(keys'[s]))
                   PROVE  parent'[s] = NULL /\ (keys'[s] = <<>> => \A m \in Maps : root[m] # s)
        BY DEF Occupancy, Idle
    <2>3. s # node /\ s # from
        BY <1>6, <1>7, <2>2
    <2>4. CASE s = p
        <3>1. Underfull(Len(keys[p]))
            BY <2>2, <2>4
        <3>2. parent[p] = NULL
            BY <1>2, <2>1, <3>1 DEF Occupancy
        <3>3. QED
            BY <1>2, <1>8, <2>4, <3>2
    <2>5. CASE s # p
        <3>1. s \in Slots /\ keys'[s] = keys[s]
            BY <1>4, <2>3, <2>5
        <3>2. QED
            BY <2>1, <2>2, <2>3, <3>1 DEF Occupancy
    <2>6. QED
        BY <2>4, <2>5
<1>12. PendingOverflow' /\ PendingUnderflow' /\ OpOwned(owner)'
    BY DEF PendingOverflow, PendingUnderflow, OpOwned, Idle
<1>13. Orphans'
    <2>1. Orphans
        BY DEF Local
    <2>2. SUFFICES ASSUME NEW s \in live, parent'[s] = NULL
                   PROVE  (\E m \in Maps : root[m] = s) \/ (level[s] = 0 /\ keys'[s] = <<>>)
        BY DEF Orphans
    <2>3. s \in Slots /\ parent[s] = NULL /\ s # node /\ s # from
        BY <1>4, <2>2
    <2>4. level[s] = 0 => keys'[s] = keys[s]
        BY <1>2, <2>3
    <2>5. QED
        BY <2>1, <2>3, <2>4 DEF Orphans
<1>14. RootsOwned(owner)'
    BY DEF RootsOwned
<1>15. QED
    BY <1>9, <1>10, <1>11, <1>12, <1>13, <1>14, ForestToInvPrime DEF Local

\* After a merge one node is gone, the other has enough, and the loop goes
\* on with the parent if that is underfull now.
LEMMA MergeInv ==
    ASSUME Local, NEW owner, Wiring(owner), OpOwned(owner), RootsOwned(owner),
           op.pc = "underflow", parent[op.node] # NULL,
           NEW gone \in live, gone # op.node, parent[gone] = parent[op.node],
           live' = live \ {gone}, root' = root, height' = height,
           MergedIntoParent(parent[op.node]),
           Wiring(owner)', DataTypes', NodeShape',
           \A s \in Slots \ {gone} : level'[s] = level[s],
           \A s \in Slots \ {gone} : parent'[s] = NULL <=> parent[s] = NULL,
           keys'[gone] = <<>>, vals'[gone] = <<>>,
           ~Underfull(Len(keys'[op.node])),
           Len(keys'[parent[op.node]]) = Len(keys[parent[op.node]]) - 1,
           \A s \in Slots \ {op.node, gone, parent[op.node]} :
              keys'[s] = keys[s] /\ vals'[s] = vals[s]
    PROVE  IInv'
<1> DEFINE node == op.node
           p == parent[op.node]
<1>1. /\ op.map \in Maps /\ node \in live /\ node \in Slots /\ owner[node] = op.map
    BY UnderflowData
<1>2. PICK n \in Nat, i \in Nat :
        /\ p \in live /\ p \in Slots /\ p # node
        /\ level[node] \in Nat /\ level[p] \in Nat /\ level[p] # 0
        /\ owner[node] = owner[p]
        /\ Len(keys[p]) = n /\ keys[p] \in Seq(Keys)
        /\ parent_idx[node] = i /\ i <= n
    BY <1>1, ParentData
<1>3. p # gone
    <2>1. gone \in Slots /\ parent[gone] # NULL
        BY DEF Wiring, Forest
    <2>2. parent[gone] # gone
        BY <2>1, ParentData
    <2>3. QED
        BY <2>2
<1>4. live \subseteq Slots /\ gone \in Slots /\ NULL \notin Slots
    BY SlotsAssumption DEF Wiring, Forest
<1>5. PICK h \in Nat : h >= 1 /\ M = h + h /\ M \div 2 = h
    BY HalfOfM
<1>6. n >= 1 /\ n - 1 \in Nat /\ Len(keys'[p]) = n - 1
    <2>1. keys[p] # <<>>
        BY <1>2, ParentHasKey
    <2>2. n # 0
        BY <1>2, <2>1
    <2>3. QED
        BY <1>2, <2>2
<1>7. parent[p] = NULL => root[op.map] = p
    <2>1. owner[p] = op.map
        BY <1>1, <1>2
    <2>2. p # op.right \/ op.pc # "overflow"
        OBVIOUS
    <2>3. parent[p] = NULL => root[owner[p]] = p
        BY <1>2, <2>2, Climb
    <2>4. QED
        BY <2>1, <2>3
<1>8. p \in live' /\ level'[p] = level[p] /\ (parent'[p] = NULL <=> parent[p] = NULL)
    BY <1>2, <1>3
<1>9. \/ /\ op' = [pc |-> "underflow", map |-> op.map, node |-> p, is_leaf |-> FALSE]
         /\ Underfull(n - 1)
      \/ op' = Idle /\ ~Underfull(n - 1)
    BY <1>2 DEF MergedIntoParent, Rebalance
<1>10. op'.pc # "overflow" /\ (op'.pc = "underflow" => op'.node = p /\ op'.map = op.map /\ op'.is_leaf = FALSE)
    BY <1>9 DEF Idle
<1>11. DataBlank'
    <2>1. DataBlank
        BY DEF Local
    <2>2. SUFFICES ASSUME NEW s \in Slots \ live' PROVE keys'[s] = <<>> /\ vals'[s] = <<>>
        BY DEF DataBlank
    <2>3. CASE s = gone
        BY <2>3
    <2>4. CASE s # gone
        BY <1>1, <1>2, <2>1, <2>4 DEF DataBlank
    <2>5. QED
        BY <2>3, <2>4
<1>12. RootsAgree'
    <2>1. RootsAgree
        BY DEF Local
    <2>2. ASSUME NEW m \in Maps, root[m] # NULL
          PROVE  root[m] \in live' /\ parent'[root[m]] = NULL /\ level'[root[m]] = height[m]
        <3>1. root[m] \in live /\ parent[root[m]] = NULL /\ level[root[m]] = height[m] /\ root[m] # gone
            BY <2>1, <2>2 DEF RootsAgree
        <3>2. QED
            BY <1>4, <3>1
    <2>3. QED
        BY <2>1, <2>2 DEF RootsAgree
<1>13. Occupancy'
    <2>1. Occupancy
        BY DEF Local
    <2>2. SUFFICES ASSUME NEW s \in live', Underfull(Len(keys'[s]))
                   PROVE  \/ /\ op'.pc = "underflow" /\ s = op'.node
                             /\ parent'[s] = NULL \/ Len(keys'[s]) = M \div 2 - 1
                          \/ parent'[s] = NULL /\ (keys'[s] = <<>> => \A m \in Maps : root[m] # s)
        BY <1>10 DEF Occupancy
    <2>3. s \in live /\ s # gone /\ s # node /\ s \in Slots
        BY <1>4, <2>2
    <2>4. CASE s = p
        <3>1. Underfull(n - 1) /\ op'.pc = "underflow" /\ op'.node = p
            BY <1>6, <1>9, <2>2, <2>4
        <3>2. CASE parent[p] = NULL
            BY <1>8, <2>4, <3>1, <3>2
        <3>3. CASE parent[p] # NULL
            <4>1. ~Underfull(n)
                BY <1>2, <3>3, OthersFull
            <4>2. n - 1 = h - 1
                BY <1>5, <1>6, <3>1, <4>1 DEF Underfull
            <4>3. QED
                BY <1>5, <1>6, <2>4, <3>1, <4>2
        <3>4. QED
            BY <3>2, <3>3
    <2>5. CASE s # p
        <3>1. keys'[s] = keys[s]
            BY <2>3, <2>5
        <3>2. QED
            BY <2>1, <2>2, <2>3, <3>1 DEF Occupancy
    <2>6. QED
        BY <2>4, <2>5
<1>14. PendingOverflow' /\ OpOwned(owner)'
    <2>1. op'.pc # "idle" => op'.pc = "underflow"
        BY <1>9 DEF Idle
    <2>2. owner[p] = op.map
        BY <1>1, <1>2
    <2>3. QED
        BY <1>10, <2>1, <2>2 DEF PendingOverflow, OpOwned
<1>15. PendingUnderflow'
    <2>1. op'.pc = "underflow" => Underfull(Len(keys'[p]))
        BY <1>6, <1>9 DEF Idle
    <2>2. QED
        BY <1>2, <1>7, <1>8, <1>10, <2>1 DEF PendingUnderflow
<1>16. Orphans'
    <2>1. Orphans
        BY DEF Local
    <2>2. SUFFICES ASSUME NEW s \in live', parent'[s] = NULL
                   PROVE  (\E m \in Maps : root[m] = s) \/ (level'[s] = 0 /\ keys'[s] = <<>>)
        BY DEF Orphans
    <2>3. s \in live /\ s \in Slots /\ s # gone /\ parent[s] = NULL /\ s # node /\ level'[s] = level[s]
        BY <1>4, <2>2
    <2>4. level[s] = 0 => keys'[s] = keys[s]
        BY <1>2, <2>3
    <2>5. QED
        BY <2>1, <2>3, <2>4 DEF Orphans
<1>17. RootsOwned(owner)'
    BY DEF RootsOwned
<1>18. QED
    BY <1>11, <1>12, <1>13, <1>14, <1>15, <1>16, <1>17, ForestToInvPrime DEF Local

-----------------------------------------------------------------------------
(***************************************************************************)
(* The cases of post_removal's loop below the root.                        *)
(***************************************************************************)
\* The node the loop is at, its parent, and the sibling before it
LEMMA PrevData ==
    ASSUME Local, NEW owner, Wiring(owner), OpOwned(owner),
           op.pc = "underflow", parent[op.node] # NULL, HasPrev
    PROVE  \E n \in Nat, i \in Nat, a \in Nat :
              /\ i >= 1 /\ i <= n /\ n <= M
              /\ op.node \in live /\ op.node \in Slots
              /\ parent[op.node] \in live /\ parent[op.node] \in Slots
              /\ parent[op.node] # op.node
              /\ level[parent[op.node]] # 0
              /\ level[op.node] = level[parent[op.node]] - 1
              /\ owner[op.node] = owner[parent[op.node]]
              /\ parent_idx[op.node] = i
              /\ Len(keys[parent[op.node]]) = n /\ keys[parent[op.node]] \in Seq(Keys)
              /\ vals[parent[op.node]] = <<>>
              /\ Len(edges[parent[op.node]]) = n + 1
              /\ edges[parent[op.node]] \in Seq(Slots)
              /\ PrevSibling = edges[parent[op.node]][i]
              /\ PrevSibling \in live /\ PrevSibling \in Slots
              /\ PrevSibling # op.node /\ PrevSibling # parent[op.node]
              /\ parent[PrevSibling] = parent[op.node]
              /\ level[PrevSibling] = level[op.node] /\ owner[PrevSibling] = owner[op.node]
              /\ Len(keys[PrevSibling]) = a /\ keys[PrevSibling] \in Seq(Keys)
<1>1. op.node \in live /\ op.node \in Slots
    BY UnderflowData
<1>2. PICK n \in Nat, i \in Nat :
        /\ parent[op.node] \in live /\ parent[op.node] \in Slots
        /\ parent[op.node] # op.node
        /\ level[parent[op.node]] # 0
        /\ level[op.node] = level[parent[op.node]] - 1
        /\ owner[op.node] = owner[parent[op.node]]
        /\ parent_idx[op.node] = i /\ i <= n /\ n <= M
        /\ Len(keys[parent[op.node]]) = n /\ keys[parent[op.node]] \in Seq(Keys)
        /\ vals[parent[op.node]] = <<>>
        /\ Len(edges[parent[op.node]]) = n + 1 /\ DOMAIN edges[parent[op.node]] = 1 .. n + 1
        /\ edges[parent[op.node]] \in Seq(Slots)
    BY <1>1, ParentData, SMTT(30)
<1>3. i >= 1
    BY <1>2 DEF HasPrev
<1>4. PrevSibling = edges[parent[op.node]][i]
    BY <1>2 DEF PrevSibling
<1>5. i \in DOMAIN edges[parent[op.node]] /\ i # parent_idx[op.node] + 1
    BY <1>2, <1>3
<1>6. /\ PrevSibling \in live /\ PrevSibling \in Slots
      /\ PrevSibling # op.node /\ PrevSibling # parent[op.node]
      /\ parent[PrevSibling] = parent[op.node]
      /\ level[PrevSibling] = level[op.node] /\ owner[PrevSibling] = owner[op.node]
    BY <1>1, <1>4, <1>5, SiblingData
<1>7. PICK a \in Nat : Len(keys[PrevSibling]) = a /\ keys[PrevSibling] \in Seq(Keys)
    BY <1>6, NodeData
<1>8. QED
    BY <1>1, <1>2, <1>3, <1>4, <1>6, <1>7

\* The node the loop is at, its parent, and the sibling after it
LEMMA NextData ==
    ASSUME Local, NEW owner, Wiring(owner), OpOwned(owner),
           op.pc = "underflow", parent[op.node] # NULL, HasNext
    PROVE  \E n \in Nat, i \in Nat, a \in Nat :
              /\ i + 1 <= n /\ n <= M
              /\ op.node \in live /\ op.node \in Slots
              /\ parent[op.node] \in live /\ parent[op.node] \in Slots
              /\ parent[op.node] # op.node
              /\ level[parent[op.node]] # 0
              /\ level[op.node] = level[parent[op.node]] - 1
              /\ owner[op.node] = owner[parent[op.node]]
              /\ parent_idx[op.node] = i
              /\ Len(keys[parent[op.node]]) = n /\ keys[parent[op.node]] \in Seq(Keys)
              /\ vals[parent[op.node]] = <<>>
              /\ Len(edges[parent[op.node]]) = n + 1
              /\ edges[parent[op.node]] \in Seq(Slots)
              /\ NextSibling = edges[parent[op.node]][i + 2]
              /\ NextSibling \in live /\ NextSibling \in Slots
              /\ NextSibling # op.node /\ NextSibling # parent[op.node]
              /\ parent[NextSibling] = parent[op.node]
              /\ level[NextSibling] = level[op.node] /\ owner[NextSibling] = owner[op.node]
              /\ Len(keys[NextSibling]) = a /\ keys[NextSibling] \in Seq(Keys)
<1>1. op.node \in live /\ op.node \in Slots
    BY UnderflowData
<1>2. PICK n \in Nat, i \in Nat :
        /\ parent[op.node] \in live /\ parent[op.node] \in Slots
        /\ parent[op.node] # op.node
        /\ level[parent[op.node]] # 0
        /\ level[op.node] = level[parent[op.node]] - 1
        /\ owner[op.node] = owner[parent[op.node]]
        /\ parent_idx[op.node] = i /\ i <= n /\ n <= M
        /\ Len(keys[parent[op.node]]) = n /\ keys[parent[op.node]] \in Seq(Keys)
        /\ vals[parent[op.node]] = <<>>
        /\ Len(edges[parent[op.node]]) = n + 1 /\ DOMAIN edges[parent[op.node]] = 1 .. n + 1
        /\ edges[parent[op.node]] \in Seq(Slots)
    BY <1>1, ParentData, SMTT(30)
<1>3. i + 1 <= n
    BY <1>2 DEF HasNext
<1>4. NextSibling = edges[parent[op.node]][i + 2]
    BY <1>2 DEF NextSibling
<1>5. i + 2 \in DOMAIN edges[parent[op.node]] /\ i + 2 # parent_idx[op.node] + 1
    BY <1>2, <1>3
<1>6. /\ NextSibling \in live /\ NextSibling \in Slots
      /\ NextSibling # op.node /\ NextSibling # parent[op.node]
      /\ parent[NextSibling] = parent[op.node]
      /\ level[NextSibling] = level[op.node] /\ owner[NextSibling] = owner[op.node]
    BY <1>1, <1>4, <1>5, SiblingData
<1>7. PICK a \in Nat : Len(keys[NextSibling]) = a /\ keys[NextSibling] \in Seq(Keys)
    BY <1>6, NodeData
<1>8. QED
    BY <1>1, <1>2, <1>3, <1>4, <1>6, <1>7

\* A loop that borrows leaves enough behind and has enough room to take it.
LEMMA LendingLengths ==
    ASSUME NEW a \in Nat, CanLend(a)
    PROVE  a - 1 \in Nat /\ a # 0 /\ a >= 2
BY HalfOfM DEF CanLend

-----------------------------------------------------------------------------
(***************************************************************************)
(* Borrowing.                                                              *)
(***************************************************************************)

\* What both leaf cases do: the sibling loses an entry, the node gets it, and
\* a separator in the parent changes.
LEMMA BorrowLeafInv ==
    ASSUME Local, NEW owner, Wiring(owner), OpOwned(owner), RootsOwned(owner),
           op.pc = "underflow", op.is_leaf = TRUE, parent[op.node] # NULL,
           NEW from \in live, from # op.node, parent[from] = parent[op.node],
           level[from] = level[op.node], CanLend(Len(keys[from])),
           keys' \in [Slots -> Seq(Keys)], vals' \in [Slots -> Seq(Values)],
           Len(keys'[from]) = Len(keys[from]) - 1, Len(vals'[from]) = Len(keys'[from]),
           Len(keys'[op.node]) = Len(keys[op.node]) + 1,
           Len(vals'[op.node]) = Len(keys'[op.node]),
           Len(keys'[parent[op.node]]) = Len(keys[parent[op.node]]),
           vals'[parent[op.node]] = vals[parent[op.node]],
           \A s \in Slots \ {op.node, from, parent[op.node]} :
              keys'[s] = keys[s] /\ vals'[s] = vals[s],
           op' = Idle,
           UNCHANGED <<live, level, parent, parent_idx, edges, prev, next, mapVars>>
    PROVE  IInv'
<1> DEFINE node == op.node
           p == parent[op.node]
<1>1. node \in live /\ node \in Slots /\ level[node] = 0 /\ Len(keys[node]) = M \div 2 - 1
    BY UnderflowData
<1>2. PICK n \in Nat, i \in Nat :
        /\ p \in live /\ p \in Slots /\ p # node /\ level[p] # 0
        /\ n <= M /\ Len(keys[p]) = n /\ vals[p] = <<>> /\ Len(edges[p]) = n + 1
        /\ parent_idx[node] = i /\ i <= n
    BY <1>1, ParentData
<1>3. from \in Slots /\ from # p /\ level[from] = 0
    BY <1>1, <1>2 DEF Wiring, Forest
<1>4. PICK a \in Nat : Len(keys[from]) = a /\ a <= M
    BY <1>3, NodeData
<1>5. Len(keys'[from]) <= M
    <2>1. a - 1 \in Nat
        BY <1>4, LendingLengths
    <2>2. QED
        BY <1>4, <2>1, MAssumption
<1>6. Len(keys'[node]) <= M
    BY <1>1, HalfOfM
<1>7. /\ live' = live /\ level' = level /\ parent' = parent /\ parent_idx' = parent_idx
      /\ edges' = edges /\ prev' = prev /\ next' = next
      /\ root' = root /\ height' = height /\ length' = length
    BY DEF mapVars
<1>8. DataTypes'
    BY <1>7 DEF Local, DataTypes
<1>9. NodeShape'
    <2>1. NodeShape
        BY DEF Local
    <2>2. SUFFICES ASSUME NEW s \in Slots
                   PROVE  /\ Len(keys'[s]) <= M
                          /\ level[s] = 0 => edges[s] = <<>> /\ Len(vals'[s]) = Len(keys'[s])
                          /\ level[s] # 0 => vals'[s] = <<>> /\ Len(edges[s]) = Len(keys'[s]) + 1
        BY <1>7 DEF NodeShape
    <2>3. CASE s = node
        BY <1>1, <1>6, <2>1, <2>3 DEF NodeShape
    <2>4. CASE s = from
        BY <1>3, <1>5, <2>1, <2>4 DEF NodeShape
    <2>5. CASE s = p
        BY <1>2, <2>5
    <2>6. CASE s # node /\ s # from /\ s # p
        BY <2>1, <2>6 DEF NodeShape
    <2>7. QED
        BY <2>3, <2>4, <2>5, <2>6
<1>10. Wiring(owner)'
    BY <1>7 DEF Wiring
<1>12. QED
    BY <1>7, <1>8, <1>9, <1>10, BorrowInv

\* The last entry of the leaf before
LEMMA BorrowPrevLeafInv ==
    ASSUME IInv, BorrowPrevLeaf
    PROVE  IInv'
<1> DEFINE node == op.node
           p == parent[op.node]
           from == PrevSibling
           F == Front(keys[PrevSibling])
           G == Front(vals[PrevSibling])
           N == InsertAt(keys[op.node], 1, Last(keys[PrevSibling]))
           O == InsertAt(vals[op.node], 1, Last(vals[PrevSibling]))
           P == [keys[parent[op.node]] EXCEPT ![parent_idx[op.node]] = Last(keys[PrevSibling])]
<1>1. PICK owner : Wiring(owner) /\ OpOwned(owner) /\ RootsOwned(owner)
    BY InvToForest
<1>2. Local
    BY InvToForest
<1>3. /\ op.pc = "underflow" /\ op.is_leaf = TRUE /\ p # NULL /\ op' = Idle
      /\ HasPrev /\ CanLend(Len(keys[from]))
    BY DEF BorrowPrevLeaf, Underflowing, AtRoot, PrevLends
<1>4. PICK n \in Nat, i \in Nat, a \in Nat :
        /\ node \in live /\ node \in Slots
        /\ p \in live /\ p \in Slots /\ p # node
        /\ parent_idx[node] = i
        /\ Len(keys[p]) = n /\ keys[p] \in Seq(Keys)
        /\ from \in live /\ from \in Slots /\ from # node /\ from # p
        /\ parent[from] = p /\ level[from] = level[node]
        /\ Len(keys[from]) = a /\ keys[from] \in Seq(Keys)
    BY <1>1, <1>2, <1>3, PrevData
<1>5. level[node] = 0
    BY <1>1, <1>2, <1>3, UnderflowData
<1>6. a - 1 \in Nat /\ a # 0
    BY <1>3, <1>4, LendingLengths
<1>7. PICK b \in Nat :
        /\ vals[from] \in Seq(Values) /\ Len(vals[from]) = a
        /\ vals[node] \in Seq(Values) /\ keys[node] \in Seq(Keys)
        /\ Len(vals[node]) = b /\ Len(keys[node]) = b
    BY <1>2, <1>4, <1>5 DEF Local, DataTypes, NodeShape
<1>8. /\ F \in Seq(Keys) /\ Len(F) = a - 1 /\ Last(keys[from]) \in Keys
      /\ G \in Seq(Values) /\ Len(G) = a - 1 /\ Last(vals[from]) \in Values
    BY <1>4, <1>6, <1>7, FrontSeq
<1>9. N \in Seq(Keys) /\ Len(N) = b + 1 /\ O \in Seq(Values) /\ Len(O) = b + 1
    <2>1. PICK j \in 1 .. b + 1 : j = 1
        OBVIOUS
    <2>2. PICK q \in Seq(Keys), e \in Keys : q = keys[node] /\ e = Last(keys[from])
        BY <1>7, <1>8
    <2>3. PICK r \in Seq(Values), f \in Values : r = vals[node] /\ f = Last(vals[from])
        BY <1>7, <1>8
    <2>4. Len(q) = b /\ Len(r) = b
        BY <1>7, <2>2, <2>3
    <2>5. InsertAt(q, j, e) \in Seq(Keys) /\ Len(InsertAt(q, j, e)) = b + 1
        BY <2>4, InsertAtSeq
    <2>6. InsertAt(r, j, f) \in Seq(Values) /\ Len(InsertAt(r, j, f)) = b + 1
        BY <2>4, InsertAtSeq
    <2>7. QED
        BY <2>1, <2>2, <2>3, <2>5, <2>6
<1>10. P \in Seq(Keys) /\ Len(P) = Len(keys[p])
    <2>1. PICK q \in Seq(Keys), e \in Keys : q = keys[p] /\ e = Last(keys[from])
        BY <1>4, <1>8
    <2>2. \A j : [q EXCEPT ![j] = e] \in Seq(Keys) /\ Len([q EXCEPT ![j] = e]) = Len(q)
        BY ExceptProperties
    <2>3. QED
        BY <2>1, <2>2
<1>11. keys \in [Slots -> Seq(Keys)] /\ vals \in [Slots -> Seq(Values)]
    BY <1>2 DEF Local, DataTypes
<1>12. /\ keys' \in [Slots -> Seq(Keys)] /\ vals' \in [Slots -> Seq(Values)]
       /\ \A s \in Slots :
             /\ keys'[s] = IF s = p THEN P ELSE IF s = node THEN N
                           ELSE IF s = from THEN F ELSE keys[s]
             /\ vals'[s] = IF s = node THEN O ELSE IF s = from THEN G ELSE vals[s]
    <2>1. /\ keys' = [s \in Slots |-> IF s = p THEN P ELSE IF s = node THEN N
                                      ELSE IF s = from THEN F ELSE keys[s]]
          /\ vals' = [s \in Slots |-> IF s = node THEN O ELSE IF s = from THEN G ELSE vals[s]]
        BY <1>4, <1>11 DEF BorrowPrevLeaf
    <2> HIDE DEF F, G, N, O, P
    <2>2. QED
        BY <1>8, <1>9, <1>10, <1>11, <2>1
<1>13. UNCHANGED <<live, level, parent, parent_idx, edges, prev, next, mapVars>>
    BY DEF BorrowPrevLeaf
<1> HIDE DEF F, G, N, O, P
<1>14. /\ from \in live /\ from # node /\ parent[from] = p /\ level[from] = level[node]
       /\ CanLend(Len(keys[from]))
    BY <1>3, <1>4
<1>15. /\ Len(keys'[from]) = Len(keys[from]) - 1 /\ Len(vals'[from]) = Len(keys'[from])
       /\ Len(keys'[node]) = Len(keys[node]) + 1 /\ Len(vals'[node]) = Len(keys'[node])
       /\ Len(keys'[p]) = Len(keys[p]) /\ vals'[p] = vals[p]
       /\ \A s \in Slots \ {node, from, p} : keys'[s] = keys[s] /\ vals'[s] = vals[s]
    BY <1>4, <1>7, <1>8, <1>9, <1>10, <1>12
<1>16. QED
    BY <1>1, <1>2, <1>3, <1>12, <1>13, <1>14, <1>15, BorrowLeafInv

\* The first entry of the leaf after
LEMMA BorrowNextLeafInv ==
    ASSUME IInv, BorrowNextLeaf
    PROVE  IInv'
<1> DEFINE node == op.node
           p == parent[op.node]
           from == NextSibling
           F == Tail(keys[NextSibling])
           G == Tail(vals[NextSibling])
           N == Append(keys[op.node], keys[NextSibling][1])
           O == Append(vals[op.node], vals[NextSibling][1])
           P == [keys[parent[op.node]] EXCEPT
                    ![parent_idx[op.node] + 1] = keys[NextSibling][2]]
<1>1. PICK owner : Wiring(owner) /\ OpOwned(owner) /\ RootsOwned(owner)
    BY InvToForest
<1>2. Local
    BY InvToForest
<1>3. /\ op.pc = "underflow" /\ op.is_leaf = TRUE /\ p # NULL /\ op' = Idle
      /\ HasNext /\ CanLend(Len(keys[from]))
    BY DEF BorrowNextLeaf, Underflowing, AtRoot, NextLends
<1>4. PICK n \in Nat, i \in Nat, a \in Nat :
        /\ i + 1 <= n
        /\ node \in live /\ node \in Slots
        /\ p \in live /\ p \in Slots /\ p # node
        /\ parent_idx[node] = i
        /\ Len(keys[p]) = n /\ keys[p] \in Seq(Keys)
        /\ from \in live /\ from \in Slots /\ from # node /\ from # p
        /\ parent[from] = p /\ level[from] = level[node]
        /\ Len(keys[from]) = a /\ keys[from] \in Seq(Keys)
    BY <1>1, <1>2, <1>3, NextData
<1>5. level[node] = 0
    BY <1>1, <1>2, <1>3, UnderflowData
<1>6. a - 1 \in Nat /\ a # 0 /\ a >= 2
    BY <1>3, <1>4, LendingLengths
<1>7. PICK b \in Nat :
        /\ vals[from] \in Seq(Values) /\ Len(vals[from]) = a
        /\ vals[node] \in Seq(Values) /\ keys[node] \in Seq(Keys)
        /\ Len(vals[node]) = b /\ Len(keys[node]) = b
    BY <1>2, <1>4, <1>5 DEF Local, DataTypes, NodeShape
<1>8. /\ F \in Seq(Keys) /\ Len(F) = a - 1
      /\ G \in Seq(Values) /\ Len(G) = a - 1
      /\ keys[from][1] \in Keys /\ keys[from][2] \in Keys /\ vals[from][1] \in Values
    <2>1. /\ F \in Seq(Keys) /\ Len(F) = a - 1
          /\ G \in Seq(Values) /\ Len(G) = a - 1
        BY <1>4, <1>6, <1>7, TailSeq
    <2>2. keys[from][1] \in Keys /\ keys[from][2] \in Keys
        BY <1>4, <1>6
    <2>3. vals[from][1] \in Values
        BY <1>6, <1>7
    <2>4. QED
        BY <2>1, <2>2, <2>3
<1>9. N \in Seq(Keys) /\ Len(N) = b + 1 /\ O \in Seq(Values) /\ Len(O) = b + 1
    BY <1>7, <1>8, AppendSeq
<1>10. P \in Seq(Keys) /\ Len(P) = Len(keys[p])
    BY <1>4, <1>8, ExceptProperties
<1>11. keys \in [Slots -> Seq(Keys)] /\ vals \in [Slots -> Seq(Values)]
    BY <1>2 DEF Local, DataTypes
<1>12. /\ keys' \in [Slots -> Seq(Keys)] /\ vals' \in [Slots -> Seq(Values)]
       /\ \A s \in Slots :
             /\ keys'[s] = IF s = p THEN P ELSE IF s = node THEN N
                           ELSE IF s = from THEN F ELSE keys[s]
             /\ vals'[s] = IF s = node THEN O ELSE IF s = from THEN G ELSE vals[s]
    <2>1. /\ keys' = [s \in Slots |-> IF s = p THEN P ELSE IF s = node THEN N
                                      ELSE IF s = from THEN F ELSE keys[s]]
          /\ vals' = [s \in Slots |-> IF s = node THEN O ELSE IF s = from THEN G ELSE vals[s]]
        BY <1>4, <1>11 DEF BorrowNextLeaf
    <2> HIDE DEF F, G, N, O, P
    <2>2. QED
        BY <1>8, <1>9, <1>10, <1>11, <2>1
<1>13. UNCHANGED <<live, level, parent, parent_idx, edges, prev, next, mapVars>>
    BY DEF BorrowNextLeaf
<1> HIDE DEF F, G, N, O, P
<1>14. /\ from \in live /\ from # node /\ parent[from] = p /\ level[from] = level[node]
       /\ CanLend(Len(keys[from]))
    BY <1>3, <1>4
<1>15. /\ Len(keys'[from]) = Len(keys[from]) - 1 /\ Len(vals'[from]) = Len(keys'[from])
       /\ Len(keys'[node]) = Len(keys[node]) + 1 /\ Len(vals'[node]) = Len(keys'[node])
       /\ Len(keys'[p]) = Len(keys[p]) /\ vals'[p] = vals[p]
       /\ \A s \in Slots \ {node, from, p} : keys'[s] = keys[s] /\ vals'[s] = vals[s]
    BY <1>4, <1>7, <1>8, <1>9, <1>10, <1>12
<1>16. QED
    BY <1>1, <1>2, <1>3, <1>12, <1>13, <1>14, <1>15, BorrowLeafInv

\* What both internal cases do besides moving the edge
LEMMA BorrowInternalInv ==
    ASSUME Local, NEW owner, Wiring(owner), OpOwned(owner), RootsOwned(owner),
           op.pc = "underflow", op.is_leaf = FALSE, parent[op.node] # NULL,
           NEW from \in live, from # op.node, parent[from] = parent[op.node],
           level[from] = level[op.node], CanLend(Len(keys[from])),
           keys' \in [Slots -> Seq(Keys)],
           Len(keys'[from]) = Len(keys[from]) - 1,
           Len(edges'[from]) = Len(edges[from]) - 1,
           Len(keys'[op.node]) = Len(keys[op.node]) + 1,
           Len(edges'[op.node]) = Len(edges[op.node]) + 1,
           Len(keys'[parent[op.node]]) = Len(keys[parent[op.node]]),
           edges'[parent[op.node]] = edges[parent[op.node]],
           \A s \in Slots \ {op.node, from, parent[op.node]} :
              keys'[s] = keys[s] /\ edges'[s] = edges[s],
           Wiring(owner)',
           \A s \in Slots : parent'[s] = NULL <=> parent[s] = NULL,
           op' = Idle,
           UNCHANGED <<live, level, vals, prev, next, mapVars>>
    PROVE  IInv'
<1> DEFINE node == op.node
           p == parent[op.node]
<1>1. node \in live /\ node \in Slots /\ level[node] # 0 /\ Len(keys[node]) = M \div 2 - 1
    BY UnderflowData
<1>2. PICK n \in Nat, i \in Nat :
        /\ p \in live /\ p \in Slots /\ p # node /\ level[p] # 0
        /\ n <= M /\ Len(keys[p]) = n /\ vals[p] = <<>> /\ Len(edges[p]) = n + 1
        /\ parent_idx[node] = i /\ i <= n
    BY <1>1, ParentData
<1>3. from \in Slots /\ from # p /\ level[from] # 0
    BY <1>1, <1>2 DEF Wiring, Forest
<1>4. PICK a \in Nat : /\ Len(keys[from]) = a /\ a <= M /\ vals[from] = <<>>
                       /\ Len(edges[from]) = a + 1
    BY <1>3, NodeData
<1>5. PICK b \in Nat : Len(keys[node]) = b /\ vals[node] = <<>> /\ Len(edges[node]) = b + 1
    BY <1>1, NodeData
<1>6. Len(keys'[from]) <= M /\ Len(edges'[from]) = Len(keys'[from]) + 1
    <2>1. a - 1 \in Nat
        BY <1>4, LendingLengths
    <2>2. QED
        BY <1>4, <2>1, MAssumption
<1>7. Len(keys'[node]) <= M /\ Len(edges'[node]) = Len(keys'[node]) + 1
    <2>1. b + 1 <= M
        <3>1. PICK h \in Nat : h >= 1 /\ M = h + h /\ M \div 2 = h
            BY HalfOfM
        <3>2. b = h - 1
            BY <1>1, <1>5, <3>1
        <3>3. QED
            BY <3>1, <3>2
    <2>2. QED
        BY <1>5, <2>1
<1>8. /\ live' = live /\ level' = level /\ vals' = vals /\ prev' = prev /\ next' = next
      /\ root' = root /\ height' = height /\ length' = length
    BY DEF mapVars
<1>9. DataTypes'
    BY <1>8 DEF Local, DataTypes
<1>10. NodeShape'
    <2>1. NodeShape
        BY DEF Local
    <2>2. SUFFICES ASSUME NEW s \in Slots
                   PROVE  /\ Len(keys'[s]) <= M
                          /\ level[s] = 0 => edges'[s] = <<>> /\ Len(vals[s]) = Len(keys'[s])
                          /\ level[s] # 0 => vals[s] = <<>> /\ Len(edges'[s]) = Len(keys'[s]) + 1
        BY <1>8 DEF NodeShape
    <2>3. CASE s = node
        BY <1>1, <1>5, <1>7, <2>3
    <2>4. CASE s = from
        BY <1>3, <1>4, <1>6, <2>4
    <2>5. CASE s = p
        BY <1>2, <2>5
    <2>6. CASE s # node /\ s # from /\ s # p
        BY <2>1, <2>6 DEF NodeShape
    <2>7. QED
        BY <2>3, <2>4, <2>5, <2>6
<1>11. QED
    BY <1>8, <1>9, <1>10, BorrowInv

\* The last edge of the node before becomes the first.
LEMMA BorrowPrevInternalInv ==
    ASSUME IInv, BorrowPrevInternal
    PROVE  IInv'
<1> DEFINE node == op.node
           p == parent[op.node]
           from == PrevSibling
           F == Front(keys[PrevSibling])
           N == InsertAt(keys[op.node], 1, keys[parent[op.node]][parent_idx[op.node]])
           P == [keys[parent[op.node]] EXCEPT ![parent_idx[op.node]] = Last(keys[PrevSibling])]
           edge == Last(edges[PrevSibling])
<1>1. PICK owner : Wiring(owner) /\ OpOwned(owner) /\ RootsOwned(owner)
    BY InvToForest
<1>2. Local
    BY InvToForest
<1>3. /\ op.pc = "underflow" /\ op.is_leaf = FALSE /\ p # NULL /\ op' = Idle
      /\ HasPrev /\ CanLend(Len(keys[from]))
    BY DEF BorrowPrevInternal, Underflowing, AtRoot, PrevLends
<1>4. PICK n \in Nat, i \in Nat, a \in Nat :
        /\ i >= 1 /\ i <= n
        /\ node \in live /\ node \in Slots
        /\ p \in live /\ p \in Slots /\ p # node
        /\ parent_idx[node] = i
        /\ Len(keys[p]) = n /\ keys[p] \in Seq(Keys)
        /\ from \in live /\ from \in Slots /\ from # node /\ from # p
        /\ parent[from] = p /\ level[from] = level[node] /\ owner[from] = owner[node]
        /\ Len(keys[from]) = a /\ keys[from] \in Seq(Keys)
    BY <1>1, <1>2, <1>3, PrevData
<1>5. level[node] # 0
    BY <1>1, <1>2, <1>3, UnderflowData
<1>6. a - 1 \in Nat /\ a # 0
    BY <1>3, <1>4, LendingLengths
<1>7. PICK b \in Nat, d \in Nat \ {0} :
        /\ Len(keys[node]) = b /\ keys[node] \in Seq(Keys)
        /\ Len(edges[node]) = b + 1 /\ edges[node] \in Seq(Slots)
        /\ Len(edges[from]) = d /\ d = a + 1 /\ edges[from] \in Seq(Slots)
    <2>1. PICK b \in Nat :
            /\ Len(keys[node]) = b /\ keys[node] \in Seq(Keys)
            /\ Len(edges[node]) = b + 1 /\ edges[node] \in Seq(Slots)
        BY <1>1, <1>2, <1>4, <1>5, NodeData
    <2>2. Len(edges[from]) = a + 1 /\ edges[from] \in Seq(Slots)
        BY <1>1, <1>2, <1>4, <1>5, NodeData
    <2>3. a + 1 \in Nat \ {0}
        OBVIOUS
    <2>4. QED
        BY <2>1, <2>2, <2>3
<1>8. F \in Seq(Keys) /\ Len(F) = a - 1 /\ Last(keys[from]) \in Keys
    BY <1>4, <1>6, FrontSeq
<1>9. N \in Seq(Keys) /\ Len(N) = b + 1
    <2>1. keys[p][i] \in Keys
        BY <1>4
    <2>2. PICK q \in Seq(Keys), e \in Keys, j \in 1 .. b + 1 :
            q = keys[node] /\ e = keys[p][i] /\ j = 1
        BY <1>7, <2>1
    <2>3. Len(q) = b
        BY <1>7, <2>2
    <2>4. InsertAt(q, j, e) \in Seq(Keys) /\ Len(InsertAt(q, j, e)) = b + 1
        BY <2>3, InsertAtSeq
    <2>5. QED
        BY <1>4, <2>2, <2>4
<1>10. P \in Seq(Keys) /\ Len(P) = Len(keys[p])
    <2>1. PICK q \in Seq(Keys), e \in Keys : q = keys[p] /\ e = Last(keys[from])
        BY <1>4, <1>8
    <2>2. \A j : [q EXCEPT ![j] = e] \in Seq(Keys) /\ Len([q EXCEPT ![j] = e]) = Len(q)
        BY ExceptProperties
    <2>3. QED
        BY <2>1, <2>2
<1>11. /\ keys' \in [Slots -> Seq(Keys)]
       /\ \A s \in Slots : keys'[s] = IF s = p THEN P ELSE IF s = node THEN N
                                      ELSE IF s = from THEN F ELSE keys[s]
    <2>1. keys \in [Slots -> Seq(Keys)]
        BY <1>2 DEF Local, DataTypes
    <2>2. keys' = [s \in Slots |-> IF s = p THEN P ELSE IF s = node THEN N
                                   ELSE IF s = from THEN F ELSE keys[s]]
        BY <1>4, <2>1 DEF BorrowPrevInternal
    <2> HIDE DEF F, N, P
    <2>3. QED
        BY <1>8, <1>9, <1>10, <2>1, <2>2
<1>12. edge = edges[from][d] /\ Front(edges[from]) = RemoveAt(edges[from], d)
    BY <1>7, FrontSeq, FrontIsRemoval
<1>13. UNCHANGED <<live, level, vals, prev, next, mapVars>>
    BY DEF BorrowPrevInternal
<1>14. /\ edges' = [edges EXCEPT ![from] = RemoveAt(edges[from], d),
                                 ![node] = InsertAt(edges[node], 1, edge)]
       /\ parent' = [parent EXCEPT ![edge] = node]
       /\ parent_idx' = [Shifted(parent_idx, EdgesFrom(edges[node], 0), 1) EXCEPT ![edge] = 0]
    BY <1>4, <1>12 DEF BorrowPrevInternal
<1>15. Forest(live, level, parent, parent_idx, edges, owner)
    BY <1>1 DEF Wiring
<1> HIDE DEF F, N, P, edge
<1>16. /\ edge \in live /\ parent[edge] = from
       /\ Wiring(owner)'
       /\ Len(edges'[from]) = Len(edges[from]) - 1
       /\ Len(edges'[node]) = Len(edges[node]) + 1
    <2>1. PICK q \in 1 .. d, r \in 1 .. (b + 1) + 1, z \in Nat, e \in {edge} :
            q = d /\ r = 1 /\ z = b + 1 /\ e = edge
        OBVIOUS
    <2>2. /\ Len(edges[from]) = d /\ Len(edges[node]) = z /\ e = edges[from][q]
          /\ r \in 1 .. z + 1
        BY <1>7, <1>12, <2>1
    <2>3. /\ d \in Nat /\ from \in live /\ node \in live /\ from # node
          /\ level[from] = level[node] /\ owner[from] = owner[node]
        BY <1>4
    <2>4. /\ e \in live /\ parent[e] = from
          /\ Forest(live, level, MovePar(parent, node, e),
                    MovePix(parent, parent_idx, from, q, node, r, e),
                    MoveEs(edges, from, q, node, r, e), owner)
          /\ Len(MoveEs(edges, from, q, node, r, e)[from]) = d - 1
          /\ Len(MoveEs(edges, from, q, node, r, e)[node]) = z + 1
        BY <1>15, <2>2, <2>3, MoveEdge
    <2>5. parent' = MovePar(parent, node, e)
        BY <1>14, <1>15, <2>1 DEF MovePar, Forest
    <2>6. edges' = MoveEs(edges, from, q, node, r, e)
        BY <1>4, <1>14, <1>15, <2>1 DEF MoveEs, Forest
    <2>7. parent_idx' = MovePix(parent, parent_idx, from, q, node, r, e)
        <3>1. parent_idx \in [Slots -> Nat \cup {-1}]
            BY <1>15 DEF Forest
        <3>2. \A c \in Slots : c \in EdgesFrom(edges[node], 0) <=>
                                  parent[c] = node /\ parent_idx[c] >= 0
            BY <1>4, <1>15, EdgesFromIs
        <3>3. ASSUME NEW c \in Slots, parent[c] = from PROVE ~(parent_idx[c] >= q)
            <4>1. parent[c] # NULL
                BY <1>4, <3>3, SlotsAssumption
            <4>2. PICK x \in Nat, y \in Nat :
                    y \in 1 .. x /\ Len(edges[parent[c]]) = x /\ parent_idx[c] = y - 1
                BY <1>15, <4>1, ForestParent
            <4>3. x = q
                BY <1>7, <2>1, <3>3, <4>2
            <4>4. QED
                BY <4>2, <4>3
        <3>4. r - 1 = 0
            BY <2>1
        <3>5. QED
            BY <1>14, <2>1, <3>1, <3>2, <3>3, <3>4 DEF MovePix, Shifted
    <2>8. QED
        BY <1>7, <1>13, <2>1, <2>4, <2>5, <2>6, <2>7 DEF Wiring
<1>17. \A s \in Slots : parent'[s] = NULL <=> parent[s] = NULL
    <2>1. parent \in [Slots -> Slots \cup {NULL}]
        BY <1>15 DEF Forest
    <2>2. QED
        BY <1>4, <1>14, <1>16, <2>1, SlotsAssumption
<1>18. edges'[p] = edges[p] /\ \A s \in Slots \ {node, from, p} : edges'[s] = edges[s]
    <2>1. edges \in [Slots -> Seq(Slots)]
        BY <1>15 DEF Forest
    <2>2. QED
        BY <1>4, <1>14, <2>1
<1>19. /\ Len(keys'[from]) = Len(keys[from]) - 1 /\ Len(keys'[node]) = Len(keys[node]) + 1
       /\ Len(keys'[p]) = Len(keys[p])
       /\ \A s \in Slots \ {node, from, p} : keys'[s] = keys[s] /\ edges'[s] = edges[s]
    BY <1>4, <1>7, <1>8, <1>9, <1>10, <1>11, <1>18
<1>20. /\ from \in live /\ from # node /\ parent[from] = p /\ level[from] = level[node]
       /\ CanLend(Len(keys[from])) /\ keys' \in [Slots -> Seq(Keys)]
       /\ edges'[p] = edges[p]
    BY <1>3, <1>4, <1>11, <1>18
<1>21. QED
    BY <1>1, <1>2, <1>3, <1>13, <1>16, <1>17, <1>19, <1>20, BorrowInternalInv

\* The first edge of the node after becomes the last.
LEMMA BorrowNextInternalInv ==
    ASSUME IInv, BorrowNextInternal
    PROVE  IInv'
<1> DEFINE node == op.node
           p == parent[op.node]
           from == NextSibling
           F == Tail(keys[NextSibling])
           N == Append(keys[op.node], keys[parent[op.node]][parent_idx[op.node] + 1])
           P == [keys[parent[op.node]] EXCEPT
                    ![parent_idx[op.node] + 1] = Head(keys[NextSibling])]
           edge == Head(edges[NextSibling])
<1>1. PICK owner : Wiring(owner) /\ OpOwned(owner) /\ RootsOwned(owner)
    BY InvToForest
<1>2. Local
    BY InvToForest
<1>3. /\ op.pc = "underflow" /\ op.is_leaf = FALSE /\ p # NULL /\ op' = Idle
      /\ HasNext /\ CanLend(Len(keys[from]))
    BY DEF BorrowNextInternal, Underflowing, AtRoot, NextLends
<1>4. PICK n \in Nat, i \in Nat, a \in Nat :
        /\ i + 1 <= n
        /\ node \in live /\ node \in Slots
        /\ p \in live /\ p \in Slots /\ p # node
        /\ parent_idx[node] = i
        /\ Len(keys[p]) = n /\ keys[p] \in Seq(Keys)
        /\ from \in live /\ from \in Slots /\ from # node /\ from # p
        /\ parent[from] = p /\ level[from] = level[node] /\ owner[from] = owner[node]
        /\ Len(keys[from]) = a /\ keys[from] \in Seq(Keys)
    BY <1>1, <1>2, <1>3, NextData
<1>5. level[node] # 0
    BY <1>1, <1>2, <1>3, UnderflowData
<1>6. a - 1 \in Nat /\ a # 0
    BY <1>3, <1>4, LendingLengths
<1>7. PICK b \in Nat, d \in Nat \ {0} :
        /\ Len(keys[node]) = b /\ keys[node] \in Seq(Keys)
        /\ Len(edges[node]) = b + 1 /\ edges[node] \in Seq(Slots)
        /\ Len(edges[from]) = d /\ d = a + 1 /\ edges[from] \in Seq(Slots)
    <2>1. PICK b \in Nat :
            /\ Len(keys[node]) = b /\ keys[node] \in Seq(Keys)
            /\ Len(edges[node]) = b + 1 /\ edges[node] \in Seq(Slots)
        BY <1>1, <1>2, <1>4, <1>5, NodeData
    <2>2. Len(edges[from]) = a + 1 /\ edges[from] \in Seq(Slots)
        BY <1>1, <1>2, <1>4, <1>5, NodeData
    <2>3. a + 1 \in Nat \ {0}
        OBVIOUS
    <2>4. QED
        BY <2>1, <2>2, <2>3
<1>8. F \in Seq(Keys) /\ Len(F) = a - 1 /\ Head(keys[from]) \in Keys
    BY <1>4, <1>6, TailSeq
<1>9. N \in Seq(Keys) /\ Len(N) = b + 1
    <2>1. keys[p][i + 1] \in Keys
        BY <1>4
    <2>2. PICK e \in Keys : e = keys[p][i + 1]
        BY <2>1
    <2>3. Append(keys[node], e) \in Seq(Keys) /\ Len(Append(keys[node], e)) = b + 1
        BY <1>7, AppendSeq
    <2>4. QED
        BY <1>4, <2>2, <2>3
<1>10. P \in Seq(Keys) /\ Len(P) = Len(keys[p])
    <2>1. PICK q \in Seq(Keys), e \in Keys : q = keys[p] /\ e = Head(keys[from])
        BY <1>4, <1>8
    <2>2. \A j : [q EXCEPT ![j] = e] \in Seq(Keys) /\ Len([q EXCEPT ![j] = e]) = Len(q)
        BY ExceptProperties
    <2>3. QED
        BY <2>1, <2>2
<1>11. /\ keys' \in [Slots -> Seq(Keys)]
       /\ \A s \in Slots : keys'[s] = IF s = p THEN P ELSE IF s = node THEN N
                                      ELSE IF s = from THEN F ELSE keys[s]
    <2>1. keys \in [Slots -> Seq(Keys)]
        BY <1>2 DEF Local, DataTypes
    <2>2. keys' = [s \in Slots |-> IF s = p THEN P ELSE IF s = node THEN N
                                   ELSE IF s = from THEN F ELSE keys[s]]
        BY <1>4, <2>1 DEF BorrowNextInternal
    <2> HIDE DEF F, N, P
    <2>3. QED
        BY <1>8, <1>9, <1>10, <2>1, <2>2
<1>12. /\ edge = edges[from][1] /\ edge \in Slots
       /\ Tail(edges[from]) = RemoveAt(edges[from], 1)
    BY <1>7, TailSeq, TailIsRemoval
<1>120. Append(edges[node], edge) = InsertAt(edges[node], (b + 1) + 1, edge)
    <2>1. PICK z \in Nat, e \in Slots, q \in Seq(Slots) : z = b + 1 /\ e = edge /\ q = edges[node]
        BY <1>7, <1>12
    <2>2. Len(q) = z
        BY <1>7, <2>1
    <2>3. Append(q, e) = InsertAt(q, z + 1, e)
        BY <2>2, AppendIsInsertion
    <2>4. QED
        BY <2>1, <2>3
<1>13. UNCHANGED <<live, level, vals, prev, next, mapVars>>
    BY DEF BorrowNextInternal
<1>14. /\ edges' = [edges EXCEPT ![from] = RemoveAt(edges[from], 1),
                                 ![node] = InsertAt(edges[node], (b + 1) + 1, edge)]
       /\ parent' = [parent EXCEPT ![edge] = node]
       /\ parent_idx' = [Shifted(parent_idx, EdgesFrom(edges[from], 1), -1)
                            EXCEPT ![edge] = b + 1]
    BY <1>4, <1>7, <1>12, <1>120 DEF BorrowNextInternal
<1>15. Forest(live, level, parent, parent_idx, edges, owner)
    BY <1>1 DEF Wiring
<1> HIDE DEF F, N, P, edge
<1>16. /\ edge \in live /\ parent[edge] = from
       /\ Wiring(owner)'
       /\ Len(edges'[from]) = Len(edges[from]) - 1
       /\ Len(edges'[node]) = Len(edges[node]) + 1
    <2>1. PICK q \in 1 .. d, r \in 1 .. (b + 1) + 1, z \in Nat, e \in {edge} :
            q = 1 /\ r = z + 1 /\ z = b + 1 /\ e = edge
        OBVIOUS
    <2>2. /\ Len(edges[from]) = d /\ Len(edges[node]) = z /\ e = edges[from][q]
          /\ r \in 1 .. z + 1
        BY <1>7, <1>12, <2>1
    <2>3. /\ d \in Nat /\ from \in live /\ node \in live /\ from # node
          /\ level[from] = level[node] /\ owner[from] = owner[node]
        BY <1>4
    <2>4. /\ e \in live /\ parent[e] = from
          /\ Forest(live, level, MovePar(parent, node, e),
                    MovePix(parent, parent_idx, from, q, node, r, e),
                    MoveEs(edges, from, q, node, r, e), owner)
          /\ Len(MoveEs(edges, from, q, node, r, e)[from]) = d - 1
          /\ Len(MoveEs(edges, from, q, node, r, e)[node]) = z + 1
        BY <1>15, <2>2, <2>3, MoveEdge
    <2>5. parent' = MovePar(parent, node, e)
        BY <1>14, <1>15, <2>1 DEF MovePar, Forest
    <2>6. edges' = MoveEs(edges, from, q, node, r, e)
        BY <1>4, <1>14, <1>15, <2>1 DEF MoveEs, Forest
    <2>7. parent_idx' = MovePix(parent, parent_idx, from, q, node, r, e)
        <3>1. parent_idx \in [Slots -> Nat \cup {-1}]
            BY <1>15 DEF Forest
        <3>2. \A c \in Slots : c \in EdgesFrom(edges[from], 1) <=>
                                  parent[c] = from /\ parent_idx[c] >= 1
            BY <1>4, <1>15, EdgesFromIs
        <3>3. ASSUME NEW c \in Slots, parent[c] = node PROVE ~(parent_idx[c] >= z)
            <4>1. parent[c] # NULL
                BY <1>4, <3>3, SlotsAssumption
            <4>2. PICK x \in Nat, y \in Nat :
                    y \in 1 .. x /\ Len(edges[parent[c]]) = x /\ parent_idx[c] = y - 1
                BY <1>15, <4>1, ForestParent
            <4>3. x = z
                BY <1>7, <2>1, <3>3, <4>2
            <4>4. QED
                BY <4>2, <4>3
        <3>4. r - 1 = z
            BY <2>1
        <3>5. Shifted(parent_idx, EdgesFrom(edges[from], 1), -1) =
                 [c \in Slots |-> IF parent[c] = from /\ parent_idx[c] >= 1
                                  THEN parent_idx[c] - 1 ELSE parent_idx[c]]
            BY <3>1, <3>2 DEF Shifted
        <3>6. QED
            BY <1>4, <1>14, <2>1, <3>1, <3>3, <3>4, <3>5 DEF MovePix
    <2>8. QED
        BY <1>7, <1>13, <2>1, <2>4, <2>5, <2>6, <2>7 DEF Wiring
<1>17. \A s \in Slots : parent'[s] = NULL <=> parent[s] = NULL
    <2>1. parent \in [Slots -> Slots \cup {NULL}]
        BY <1>15 DEF Forest
    <2>2. QED
        BY <1>4, <1>14, <1>16, <2>1, SlotsAssumption
<1>18. edges'[p] = edges[p] /\ \A s \in Slots \ {node, from, p} : edges'[s] = edges[s]
    <2>1. edges \in [Slots -> Seq(Slots)]
        BY <1>15 DEF Forest
    <2>2. QED
        BY <1>4, <1>14, <2>1
<1>19. /\ Len(keys'[from]) = Len(keys[from]) - 1 /\ Len(keys'[node]) = Len(keys[node]) + 1
       /\ Len(keys'[p]) = Len(keys[p])
       /\ \A s \in Slots \ {node, from, p} : keys'[s] = keys[s] /\ edges'[s] = edges[s]
    BY <1>4, <1>7, <1>8, <1>9, <1>10, <1>11, <1>18
<1>20. /\ from \in live /\ from # node /\ parent[from] = p /\ level[from] = level[node]
       /\ CanLend(Len(keys[from])) /\ keys' \in [Slots -> Seq(Keys)]
       /\ edges'[p] = edges[p]
    BY <1>3, <1>4, <1>11, <1>18
<1>21. QED
    BY <1>1, <1>2, <1>3, <1>13, <1>16, <1>17, <1>19, <1>20, BorrowInternalInv
-----------------------------------------------------------------------------
(***************************************************************************)
(* Merging.                                                                *)
(***************************************************************************)

\* The sibling of an underfull node that does not lend has M / 2 keys, so
\* that the merged node is neither underfull nor too long, a separator
\* between the two included.
LEMMA MergedLengths ==
    ASSUME Local, NEW owner, Wiring(owner), OpOwned(owner),
           op.pc = "underflow", parent[op.node] # NULL,
           NEW gone \in live, gone # op.node, parent[gone] = parent[op.node],
           ~CanLend(Len(keys[gone]))
    PROVE  \E h \in Nat :
              /\ h >= 1 /\ M = h + h /\ M \div 2 = h
              /\ Len(keys[gone]) = h /\ Len(keys[op.node]) = h - 1 /\ h - 1 \in Nat
<1>1. PICK h \in Nat : h >= 1 /\ M = h + h /\ M \div 2 = h
    BY HalfOfM
<1>2. Len(keys[op.node]) = h - 1
    BY <1>1, UnderflowData
<1>3. PICK a \in Nat : Len(keys[gone]) = a
    BY NodeData DEF Wiring, Forest
<1>4. ~Underfull(a)
    BY <1>3, OthersFull
<1>5. a = h
    BY <1>1, <1>3, <1>4 DEF Underfull, CanLend
<1>6. QED
    BY <1>1, <1>2, <1>3, <1>5

\* What the loop does after a merge
LEMMA MergedOp ==
    ASSUME op.map \in Maps, NEW p \in Slots, MergedIntoParent(p)
    PROVE  op' \in {Idle} \cup OverflowOps \cup UnderflowOps
BY DEF MergedIntoParent, Rebalance, UnderflowOps

\* What both leaf cases do
LEMMA MergeLeafInv ==
    ASSUME Local, NEW owner, Wiring(owner), OpOwned(owner), RootsOwned(owner),
           op.pc = "underflow", op.is_leaf = TRUE, parent[op.node] # NULL,
           NEW gone \in live, gone # op.node, parent[gone] = parent[op.node],
           level[gone] = level[op.node], ~CanLend(Len(keys[gone])),
           keys' \in [Slots -> Seq(Keys)], vals' \in [Slots -> Seq(Values)],
           prev' \in [Slots -> Slots \cup {NULL}], next' \in [Slots -> Slots \cup {NULL}],
           keys'[gone] = <<>>, vals'[gone] = <<>>,
           Len(keys'[op.node]) = Len(keys[gone]) + Len(keys[op.node]),
           Len(vals'[op.node]) = Len(keys'[op.node]),
           Len(keys'[parent[op.node]]) = Len(keys[parent[op.node]]) - 1,
           Len(edges'[parent[op.node]]) = Len(edges[parent[op.node]]) - 1,
           vals'[parent[op.node]] = vals[parent[op.node]],
           \A s \in Slots \ {op.node, gone, parent[op.node]} :
              keys'[s] = keys[s] /\ vals'[s] = vals[s],
           \A s \in Slots \ {parent[op.node]} : edges'[s] = edges[s],
           Wiring(owner)', live' = live \ {gone},
           \A s \in Slots \ {gone} : parent'[s] = NULL <=> parent[s] = NULL,
           MergedIntoParent(parent[op.node]),
           UNCHANGED <<level, mapVars>>
    PROVE  IInv'
<1> DEFINE node == op.node
           p == parent[op.node]
<1>1. node \in live /\ node \in Slots /\ level[node] = 0 /\ op.map \in Maps
    BY UnderflowData
<1>2. PICK n \in Nat, i \in Nat :
        /\ p \in live /\ p \in Slots /\ p # node /\ level[p] # 0
        /\ n <= M /\ Len(keys[p]) = n /\ vals[p] = <<>> /\ Len(edges[p]) = n + 1
        /\ parent_idx[node] = i /\ i <= n
    BY <1>1, ParentData, ZenonT(40)
<1>3. gone \in Slots /\ gone # p /\ level[gone] = 0
    BY <1>1, <1>2 DEF Wiring, Forest
<1>4. PICK h \in Nat :
        /\ h >= 1 /\ M = h + h /\ M \div 2 = h
        /\ Len(keys[gone]) = h /\ Len(keys[op.node]) = h - 1
    BY MergedLengths
<1>5. Len(keys'[node]) <= M /\ ~Underfull(Len(keys'[node]))
    <2>1. Len(keys'[node]) = h + (h - 1)
        BY <1>4
    <2>2. QED
        BY <1>4, <2>1 DEF Underfull
<1>6. Len(keys'[p]) <= M /\ Len(edges'[p]) = Len(keys'[p]) + 1
    BY <1>2, <1>4
<1>7. level' = level /\ root' = root /\ height' = height /\ length' = length
    BY DEF mapVars
<1>8. DataTypes'
    <2>1. op' \in {Idle} \cup OverflowOps \cup UnderflowOps
        BY <1>1, <1>2, MergedOp
    <2>2. QED
        BY <1>7, <2>1 DEF Local, DataTypes, OverflowOps, UnderflowOps
<1>9. NodeShape'
    <2>1. NodeShape
        BY DEF Local
    <2>2. SUFFICES ASSUME NEW s \in Slots
                   PROVE  /\ Len(keys'[s]) <= M
                          /\ level[s] = 0 => edges'[s] = <<>> /\ Len(vals'[s]) = Len(keys'[s])
                          /\ level[s] # 0 => vals'[s] = <<>> /\ Len(edges'[s]) = Len(keys'[s]) + 1
        BY <1>7 DEF NodeShape
    <2>3. CASE s = node
        BY <1>1, <1>2, <1>5, <2>1, <2>3 DEF NodeShape
    <2>4. CASE s = gone
        <3>1. keys'[s] = <<>> /\ vals'[s] = <<>> /\ edges'[s] = <<>> /\ Len(keys'[s]) = 0
            BY <1>3, <2>1, <2>4 DEF NodeShape
        <3>2. QED
            BY <1>3, <1>4, <2>4, <3>1
    <2>5. CASE s = p
        BY <1>2, <1>6, <2>5
    <2>6. CASE s # node /\ s # gone /\ s # p
        BY <2>1, <2>6 DEF NodeShape
    <2>7. QED
        BY <2>3, <2>4, <2>5, <2>6
<1>10. QED
    BY <1>5, <1>7, <1>8, <1>9, MergeInv

\* What both internal cases do
LEMMA MergeInternalInv ==
    ASSUME Local, NEW owner, Wiring(owner), OpOwned(owner), RootsOwned(owner),
           op.pc = "underflow", op.is_leaf = FALSE, parent[op.node] # NULL,
           NEW gone \in live, gone # op.node, parent[gone] = parent[op.node],
           level[gone] = level[op.node], ~CanLend(Len(keys[gone])),
           keys' \in [Slots -> Seq(Keys)],
           keys'[gone] = <<>>, edges'[gone] = <<>>,
           Len(keys'[op.node]) = Len(keys[gone]) + 1 + Len(keys[op.node]),
           Len(edges'[op.node]) = Len(edges[gone]) + Len(edges[op.node]),
           Len(keys'[parent[op.node]]) = Len(keys[parent[op.node]]) - 1,
           Len(edges'[parent[op.node]]) = Len(edges[parent[op.node]]) - 1,
           \A s \in Slots \ {op.node, gone, parent[op.node]} :
              keys'[s] = keys[s] /\ edges'[s] = edges[s],
           Wiring(owner)', live' = live \ {gone},
           level' = [level EXCEPT ![gone] = 0],
           \A s \in Slots \ {gone} : parent'[s] = NULL <=> parent[s] = NULL,
           MergedIntoParent(parent[op.node]),
           UNCHANGED <<vals, prev, next, mapVars>>
    PROVE  IInv'
<1> DEFINE node == op.node
           p == parent[op.node]
<1>1. node \in live /\ node \in Slots /\ level[node] # 0 /\ op.map \in Maps
    BY UnderflowData
<1>2. PICK n \in Nat, i \in Nat :
        /\ p \in live /\ p \in Slots /\ p # node /\ level[p] # 0
        /\ n <= M /\ Len(keys[p]) = n /\ vals[p] = <<>> /\ Len(edges[p]) = n + 1
        /\ parent_idx[node] = i /\ i <= n
    BY <1>1, ParentData
<1>3. gone \in Slots /\ gone # p /\ level[gone] # 0
    BY <1>1, <1>2 DEF Wiring, Forest
<1>4. PICK h \in Nat :
        /\ h >= 1 /\ M = h + h /\ M \div 2 = h
        /\ Len(keys[gone]) = h /\ Len(keys[op.node]) = h - 1
    BY MergedLengths
<1>5. /\ vals[gone] = <<>> /\ Len(edges[gone]) = h + 1
      /\ vals[node] = <<>> /\ Len(edges[node]) = (h - 1) + 1
    BY <1>1, <1>3, <1>4 DEF Local, NodeShape
<1>6. /\ Len(keys'[node]) <= M /\ ~Underfull(Len(keys'[node]))
      /\ Len(edges'[node]) = Len(keys'[node]) + 1
    <2>1. Len(keys'[node]) = h + 1 + (h - 1) /\ Len(edges'[node]) = (h + 1) + ((h - 1) + 1)
        BY <1>4, <1>5
    <2>2. Len(keys'[node]) = h + h /\ Len(edges'[node]) = (h + h) + 1
        <3>1. h \in Nat
            BY <1>4
        <3>2. h + 1 + (h - 1) = h + h /\ (h + 1) + ((h - 1) + 1) = (h + h) + 1
            BY <3>1
        <3>3. QED
            BY <2>1, <3>2
    <2>3. h \in Nat /\ M \div 2 = h /\ h >= 1 /\ M = h + h
        BY <1>4
    <2>4. QED
        BY ONLY <2>2, <2>3 DEF Underfull
<1>7. Len(keys'[p]) <= M /\ Len(edges'[p]) = Len(keys'[p]) + 1
    BY <1>2, <1>4
<1>8. /\ vals' = vals /\ prev' = prev /\ next' = next
      /\ root' = root /\ height' = height /\ length' = length
    BY DEF mapVars
<1>9. DataTypes'
    <2>1. op' \in {Idle} \cup OverflowOps \cup UnderflowOps
        BY <1>1, <1>2, MergedOp
    <2>2. QED
        BY <1>8, <2>1 DEF Local, DataTypes, OverflowOps, UnderflowOps
<1>10. \A s \in Slots : level'[s] = IF s = gone THEN 0 ELSE level[s]
    BY <1>3 DEF Wiring, Forest
<1>11. NodeShape'
    <2>1. NodeShape
        BY DEF Local
    <2>2. SUFFICES ASSUME NEW s \in Slots
                   PROVE  /\ Len(keys'[s]) <= M
                          /\ level'[s] = 0 => edges'[s] = <<>> /\ Len(vals[s]) = Len(keys'[s])
                          /\ level'[s] # 0 => vals[s] = <<>> /\ Len(edges'[s]) = Len(keys'[s]) + 1
        BY <1>8 DEF NodeShape
    <2>3. CASE s = node
        BY <1>1, <1>5, <1>6, <1>10, <2>3
    <2>4. CASE s = gone
        <3>1. /\ keys'[s] = <<>> /\ vals[s] = <<>> /\ edges'[s] = <<>> /\ Len(keys'[s]) = 0
              /\ level'[s] = 0
            BY <1>3, <1>5, <1>10, <2>4
        <3>2. QED
            BY <1>4, <3>1
    <2>5. CASE s = p
        BY <1>2, <1>3, <1>7, <1>10, <2>5
    <2>6. CASE s # node /\ s # gone /\ s # p
        BY <1>10, <2>1, <2>6 DEF NodeShape
    <2>7. QED
        BY <2>3, <2>4, <2>5, <2>6
<1>12. QED
    BY <1>5, <1>6, <1>8, <1>9, <1>10, <1>11, MergeInv, ZenonT(40)

\* The wiring after a leaf was merged with its sibling: child i of the
\* parent, counted from 1, is gone.
LEMMA MergeLeafWiring ==
    ASSUME Local, NEW owner, Wiring(owner), NEW p \in live, level' = level,
           NEW n \in Nat, Len(edges[p]) = n, NEW i \in 1 .. n,
           NEW gone \in live, gone = edges[p][i], gone # p, level[gone] = 0,
           live' = live \ {gone},
           edges' = [edges EXCEPT ![p] = RemoveAt(edges[p], i)],
           parent' = [parent EXCEPT ![gone] = NULL],
           parent_idx' = [Shifted(parent_idx, EdgesFrom(edges[p], i), -1)
                             EXCEPT ![gone] = Uninit]
    PROVE  /\ Wiring(owner)'
           /\ Len(edges'[p]) = Len(edges[p]) - 1
           /\ \A s \in Slots \ {p} : edges'[s] = edges[s]
<1>1. Forest(live, level, parent, parent_idx, edges, owner)
    BY DEF Wiring
<1>2. /\ live \subseteq Slots /\ p \in Slots /\ gone \in Slots
      /\ level \in [Slots -> Nat]
      /\ parent \in [Slots -> Slots \cup {NULL}]
      /\ parent_idx \in [Slots -> Nat \cup {-1}]
      /\ edges \in [Slots -> Seq(Slots)]
    BY <1>1 DEF Forest
<1>3. edges[gone] = <<>>
    BY <1>2 DEF Local, NodeShape
<1>4. \A c \in Slots : parent[c] # gone
    <2>1. ASSUME NEW c \in Slots, parent[c] = gone PROVE FALSE
        <3>1. c \in ToSet(edges[gone])
            BY <1>1, <1>2, <2>1, EdgesAre
        <3>2. QED
            BY <1>3, <3>1 DEF ToSet
    <2>2. QED
        BY <2>1
<1>5. PICK e \in live, E \in SUBSET Slots : e = gone /\ E = {e}
    BY <1>2
<1>6. Forest(live \ E, Wiped(level, E, 0), DetachPar(parent, e),
             DetachPix(parent, parent_idx, p, e, i), MergeEs(edges, p, i, e), owner)
    <2>1. e = edges[p][i] /\ e # p /\ \A c \in Slots : parent[c] # e
        BY <1>4, <1>5
    <2>20. E \in SUBSET Slots /\ E = {e}
        BY <1>5
    <2>2. p \in live /\ n \in Nat /\ i \in 1 .. n /\ Len(edges[p]) = n
        OBVIOUS
    <2>3. QED
        BY ONLY <1>1, <2>1, <2>2, <2>20, RemoveChild
<1>7. level = Wiped(level, E, 0)
    BY <1>2, <1>5 DEF Wiped
<1>8. parent' = DetachPar(parent, e)
    BY <1>2, <1>5 DEF DetachPar
<1>9. edges' = MergeEs(edges, p, i, e)
    BY <1>2, <1>3, <1>5 DEF MergeEs
<1>10. parent_idx' = DetachPix(parent, parent_idx, p, e, i)
    <2>1. \A c \in Slots : c \in EdgesFrom(edges[p], i) <=> parent[c] = p /\ parent_idx[c] >= i
        <3>1. p \in Slots /\ i \in Nat
            BY <1>2
        <3>2. QED
            BY ONLY <1>1, <3>1, EdgesFromIs
    <2>2. QED
        BY <1>2, <1>5, <2>1 DEF DetachPix, Shifted, Uninit
<1>11. Wiring(owner)'
    BY <1>5, <1>6, <1>7, <1>8, <1>9, <1>10 DEF Wiring
<1>12. Len(edges'[p]) = Len(edges[p]) - 1
    <2>1. edges'[p] = RemoveAt(edges[p], i) /\ edges[p] \in Seq(Slots) /\ Len(edges[p]) = n
        BY <1>2
    <2>2. n \in Nat /\ i \in 1 .. n
        OBVIOUS
    <2>3. QED
        BY ONLY <2>1, <2>2, RemoveAtSeq
<1>13. \A s \in Slots \ {p} : edges'[s] = edges[s]
    BY <1>2
<1>14. QED
    BY <1>11, <1>12, <1>13

\* The leaf before goes.
LEMMA MergePrevLeafInv ==
    ASSUME IInv, MergePrevLeaf
    PROVE  IInv'
<1> DEFINE node == op.node
           p == parent[op.node]
           gone == PrevSibling
           N == keys[PrevSibling] \o keys[op.node]
           O == vals[PrevSibling] \o vals[op.node]
           P == RemoveAt(keys[parent[op.node]], parent_idx[op.node])
<1>1. PICK owner : Wiring(owner) /\ OpOwned(owner) /\ RootsOwned(owner)
    BY InvToForest
<1>2. Local
    BY InvToForest
<1>3. /\ op.pc = "underflow" /\ op.is_leaf = TRUE /\ p # NULL
      /\ HasPrev /\ ~CanLend(Len(keys[gone]))
      /\ MergedIntoParent(p) /\ live' = live \ {gone}
    BY DEF MergePrevLeaf, Underflowing, AtRoot, PrevLends
<1>4. PICK n \in Nat, i \in Nat, a \in Nat :
        /\ i >= 1 /\ i <= n
        /\ node \in live /\ node \in Slots
        /\ p \in live /\ p \in Slots /\ p # node
        /\ parent_idx[node] = i
        /\ Len(keys[p]) = n /\ keys[p] \in Seq(Keys)
        /\ Len(edges[p]) = n + 1
        /\ gone = edges[p][i]
        /\ gone \in live /\ gone \in Slots /\ gone # node /\ gone # p
        /\ parent[gone] = p /\ level[gone] = level[node]
        /\ Len(keys[gone]) = a /\ keys[gone] \in Seq(Keys)
    BY <1>1, <1>2, <1>3, PrevData
<1>5. level[node] = 0
    BY <1>1, <1>2, <1>3, UnderflowData
<1>6. PICK b \in Nat :
        /\ vals[gone] \in Seq(Values) /\ Len(vals[gone]) = a
        /\ vals[node] \in Seq(Values) /\ keys[node] \in Seq(Keys)
        /\ Len(vals[node]) = b /\ Len(keys[node]) = b
    <2>1. vals[gone] \in Seq(Values) /\ Len(vals[gone]) = a
        BY <1>2, <1>4, <1>5 DEF Local, DataTypes, NodeShape
    <2>2. PICK b \in Nat :
            /\ vals[node] \in Seq(Values) /\ keys[node] \in Seq(Keys)
            /\ Len(vals[node]) = b /\ Len(keys[node]) = b
        BY <1>1, <1>2, <1>4, <1>5, NodeData
    <2>3. QED
        BY <2>1, <2>2
<1>7. N \in Seq(Keys) /\ Len(N) = a + b /\ O \in Seq(Values) /\ Len(O) = a + b
    <2>1. PICK q \in Seq(Keys), r \in Seq(Keys) : q = keys[gone] /\ r = keys[node]
        BY <1>4, <1>6
    <2>2. PICK x \in Seq(Values), y \in Seq(Values) : x = vals[gone] /\ y = vals[node]
        BY <1>6
    <2>3. Len(q) = a /\ Len(r) = b /\ Len(x) = a /\ Len(y) = b
        BY <1>4, <1>6, <2>1, <2>2
    <2>4. q \o r \in Seq(Keys) /\ Len(q \o r) = a + b
        BY <2>3, ConcatSeq
    <2>5. x \o y \in Seq(Values) /\ Len(x \o y) = a + b
        BY <2>3, ConcatSeq
    <2>6. QED
        BY <2>1, <2>2, <2>4, <2>5
<1>8. P \in Seq(Keys) /\ Len(P) = n - 1
    <2>1. PICK q \in Seq(Keys), j \in 1 .. n : q = keys[p] /\ j = i
        BY <1>4
    <2>2. Len(q) = n
        BY <1>4, <2>1
    <2>3. RemoveAt(q, j) \in Seq(Keys) /\ Len(RemoveAt(q, j)) = n - 1
        BY <2>2, RemoveAtSeq
    <2>4. QED
        BY <1>4, <2>1, <2>3
<1>9. /\ keys \in [Slots -> Seq(Keys)] /\ vals \in [Slots -> Seq(Values)]
      /\ prev \in [Slots -> Slots \cup {NULL}] /\ next \in [Slots -> Slots \cup {NULL}]
    BY <1>2 DEF Local, DataTypes
<1>10. /\ keys' \in [Slots -> Seq(Keys)] /\ vals' \in [Slots -> Seq(Values)]
       /\ \A s \in Slots :
             /\ keys'[s] = IF s = p THEN P ELSE IF s = node THEN N
                           ELSE IF s = gone THEN <<>> ELSE keys[s]
             /\ vals'[s] = IF s = node THEN O ELSE IF s = gone THEN <<>> ELSE vals[s]
    <2>1. /\ keys' = [s \in Slots |-> IF s = p THEN P ELSE IF s = node THEN N
                                      ELSE IF s = gone THEN <<>> ELSE keys[s]]
          /\ vals' = [s \in Slots |-> IF s = node THEN O ELSE IF s = gone THEN <<>> ELSE vals[s]]
        BY <1>4, <1>9 DEF MergePrevLeaf
    <2> HIDE DEF N, O, P
    <2>2. QED
        BY <1>7, <1>8, <1>9, <2>1
<1>11. /\ prev' \in [Slots -> Slots \cup {NULL}] /\ next' \in [Slots -> Slots \cup {NULL}]
    <2>1. prev' = [prev EXCEPT ![node] = prev[gone], ![gone] = NULL]
        BY DEF MergePrevLeaf
    <2>2. next' = SetLink([next EXCEPT ![gone] = NULL], prev[gone], node)
        BY DEF MergePrevLeaf
    <2>3. QED
        BY <1>4, <1>9, <2>1, <2>2 DEF SetLink
<1>12. /\ edges' = [edges EXCEPT ![p] = RemoveAt(edges[p], i)]
       /\ parent' = [parent EXCEPT ![gone] = NULL]
       /\ parent_idx' = [Shifted(parent_idx, EdgesFrom(edges[p], i), -1)
                            EXCEPT ![gone] = Uninit]
       /\ UNCHANGED <<level, mapVars>>
    BY <1>4 DEF MergePrevLeaf
<1> HIDE DEF N, O, P
<1>13. Wiring(owner)' /\ Len(edges'[p]) = Len(edges[p]) - 1
       /\ \A s \in Slots \ {p} : edges'[s] = edges[s]
    <2>1. PICK z \in Nat : z = n + 1
        OBVIOUS
    <2>2. PICK j \in 1 .. z : j = i
        BY <1>4, <2>1
    <2>3. Len(edges[p]) = z /\ gone = edges[p][j] /\ level[gone] = 0 /\ level' = level
        BY <1>4, <1>5, <1>12, <2>1, <2>2
    <2>4. /\ edges' = [edges EXCEPT ![p] = RemoveAt(edges[p], j)]
          /\ parent' = [parent EXCEPT ![gone] = NULL]
          /\ parent_idx' = [Shifted(parent_idx, EdgesFrom(edges[p], j), -1)
                               EXCEPT ![gone] = Uninit]
        BY <1>12, <2>2
    <2>5. p \in live /\ gone \in live /\ gone # p
        BY <1>4
    <2>6. QED
        BY <1>1, <1>2, <1>3, <2>3, <2>4, <2>5, MergeLeafWiring
<1>14. \A s \in Slots \ {gone} : parent'[s] = NULL <=> parent[s] = NULL
    BY <1>1, <1>12 DEF Wiring, Forest
<1>15. /\ gone \in live /\ gone # node /\ parent[gone] = p /\ level[gone] = level[node]
       /\ ~CanLend(Len(keys[gone]))
    BY <1>3, <1>4
<1>16. /\ keys'[gone] = <<>> /\ vals'[gone] = <<>>
       /\ Len(keys'[node]) = Len(keys[gone]) + Len(keys[node])
       /\ Len(vals'[node]) = Len(keys'[node])
       /\ Len(keys'[p]) = Len(keys[p]) - 1 /\ vals'[p] = vals[p]
       /\ \A s \in Slots \ {node, gone, p} : keys'[s] = keys[s] /\ vals'[s] = vals[s]
    BY <1>4, <1>6, <1>7, <1>8, <1>10
<1>17. QED
    BY <1>1, <1>2, <1>3, <1>10, <1>11, <1>12, <1>13, <1>14, <1>15, <1>16, MergeLeafInv

\* A node that is the first of its parent has a sibling after it.
LEMMA FirstHasNext ==
    ASSUME Local, NEW owner, Wiring(owner), OpOwned(owner),
           op.pc = "underflow", parent[op.node] # NULL, ~HasPrev
    PROVE  HasNext /\ parent_idx[op.node] = 0
<1>1. op.node \in live /\ op.node \in Slots
    BY UnderflowData
<1>2. PICK n \in Nat, i \in Nat :
        /\ parent[op.node] \in live /\ parent[op.node] \in Slots
        /\ parent[op.node] # op.node /\ level[parent[op.node]] # 0
        /\ Len(keys[parent[op.node]]) = n /\ keys[parent[op.node]] \in Seq(Keys)
        /\ parent_idx[op.node] = i /\ i <= n
    BY <1>1, ParentData
<1>3. keys[parent[op.node]] # <<>>
    BY <1>2, ParentHasKey
<1>4. n # 0
    BY <1>2, <1>3
<1>5. i = 0
    BY <1>2 DEF HasPrev
<1>6. QED
    BY <1>2, <1>4, <1>5 DEF HasNext

\* The leaf after goes.
LEMMA MergeNextLeafInv ==
    ASSUME IInv, MergeNextLeaf
    PROVE  IInv'
<1> DEFINE node == op.node
           p == parent[op.node]
           gone == NextSibling
           N == keys[op.node] \o keys[NextSibling]
           O == vals[op.node] \o vals[NextSibling]
           P == RemoveAt(keys[parent[op.node]], 1)
<1>1. PICK owner : Wiring(owner) /\ OpOwned(owner) /\ RootsOwned(owner)
    BY InvToForest
<1>2. Local
    BY InvToForest
<1>3. /\ op.pc = "underflow" /\ op.is_leaf = TRUE /\ p # NULL
      /\ HasNext /\ ~HasPrev /\ ~CanLend(Len(keys[gone]))
      /\ MergedIntoParent(p) /\ live' = live \ {gone}
    <2>1. /\ op.pc = "underflow" /\ op.is_leaf = TRUE /\ p # NULL
          /\ ~NextLends /\ ~HasPrev
          /\ MergedIntoParent(p) /\ live' = live \ {gone}
        BY DEF MergeNextLeaf, Underflowing, AtRoot
    <2>2. HasNext
        BY <1>1, <1>2, <2>1, FirstHasNext
    <2>3. QED
        BY <2>1, <2>2 DEF NextLends
<1>4. PICK n \in Nat, i \in Nat, a \in Nat :
        /\ i + 1 <= n
        /\ node \in live /\ node \in Slots
        /\ p \in live /\ p \in Slots /\ p # node
        /\ parent_idx[node] = i
        /\ Len(keys[p]) = n /\ keys[p] \in Seq(Keys)
        /\ Len(edges[p]) = n + 1
        /\ gone = edges[p][i + 2]
        /\ gone \in live /\ gone \in Slots /\ gone # node /\ gone # p
        /\ parent[gone] = p /\ level[gone] = level[node]
        /\ Len(keys[gone]) = a /\ keys[gone] \in Seq(Keys)
    BY <1>1, <1>2, <1>3, NextData
<1>40. i = 0
    BY <1>1, <1>2, <1>3, <1>4, FirstHasNext
<1>5. level[node] = 0
    BY <1>1, <1>2, <1>3, UnderflowData
<1>6. PICK b \in Nat :
        /\ vals[gone] \in Seq(Values) /\ Len(vals[gone]) = a
        /\ vals[node] \in Seq(Values) /\ keys[node] \in Seq(Keys)
        /\ Len(vals[node]) = b /\ Len(keys[node]) = b
    <2>1. vals[gone] \in Seq(Values) /\ Len(vals[gone]) = a
        BY <1>2, <1>4, <1>5 DEF Local, DataTypes, NodeShape
    <2>2. PICK b \in Nat :
            /\ vals[node] \in Seq(Values) /\ keys[node] \in Seq(Keys)
            /\ Len(vals[node]) = b /\ Len(keys[node]) = b
        BY <1>1, <1>2, <1>4, <1>5, NodeData
    <2>3. QED
        BY <2>1, <2>2
<1>7. N \in Seq(Keys) /\ Len(N) = b + a /\ O \in Seq(Values) /\ Len(O) = b + a
    <2>1. PICK q \in Seq(Keys), r \in Seq(Keys) : q = keys[gone] /\ r = keys[node]
        BY <1>4, <1>6
    <2>2. PICK x \in Seq(Values), y \in Seq(Values) : x = vals[gone] /\ y = vals[node]
        BY <1>6
    <2>3. Len(q) = a /\ Len(r) = b /\ Len(x) = a /\ Len(y) = b
        BY <1>4, <1>6, <2>1, <2>2
    <2>4. r \o q \in Seq(Keys) /\ Len(r \o q) = b + a
        BY <2>3, ConcatSeq
    <2>5. y \o x \in Seq(Values) /\ Len(y \o x) = b + a
        BY <2>3, ConcatSeq
    <2>6. QED
        BY <2>1, <2>2, <2>4, <2>5
<1>8. P \in Seq(Keys) /\ Len(P) = n - 1
    <2>1. PICK q \in Seq(Keys), j \in 1 .. n : q = keys[p] /\ j = 1
        BY <1>4, <1>40
    <2>2. Len(q) = n
        BY <1>4, <2>1
    <2>3. RemoveAt(q, j) \in Seq(Keys) /\ Len(RemoveAt(q, j)) = n - 1
        BY <2>2, RemoveAtSeq
    <2>4. QED
        BY <1>4, <2>1, <2>3
<1>9. /\ keys \in [Slots -> Seq(Keys)] /\ vals \in [Slots -> Seq(Values)]
      /\ prev \in [Slots -> Slots \cup {NULL}] /\ next \in [Slots -> Slots \cup {NULL}]
    BY <1>2 DEF Local, DataTypes
<1>10. /\ keys' \in [Slots -> Seq(Keys)] /\ vals' \in [Slots -> Seq(Values)]
       /\ \A s \in Slots :
             /\ keys'[s] = IF s = p THEN P ELSE IF s = node THEN N
                           ELSE IF s = gone THEN <<>> ELSE keys[s]
             /\ vals'[s] = IF s = node THEN O ELSE IF s = gone THEN <<>> ELSE vals[s]
    <2>1. /\ keys' = [s \in Slots |-> IF s = p THEN P ELSE IF s = node THEN N
                                      ELSE IF s = gone THEN <<>> ELSE keys[s]]
          /\ vals' = [s \in Slots |-> IF s = node THEN O ELSE IF s = gone THEN <<>> ELSE vals[s]]
        BY <1>4, <1>9 DEF MergeNextLeaf
    <2> HIDE DEF N, O, P
    <2>2. QED
        BY <1>7, <1>8, <1>9, <2>1
<1>11. /\ prev' \in [Slots -> Slots \cup {NULL}] /\ next' \in [Slots -> Slots \cup {NULL}]
    <2>1. next' = [next EXCEPT ![node] = next[gone], ![gone] = NULL]
        BY DEF MergeNextLeaf
    <2>2. prev' = SetLink([prev EXCEPT ![gone] = NULL], next[gone], node)
        BY DEF MergeNextLeaf
    <2>3. QED
        BY <1>4, <1>9, <2>1, <2>2 DEF SetLink
<1>12. /\ edges' = [edges EXCEPT ![p] = RemoveAt(edges[p], 2)]
       /\ parent' = [parent EXCEPT ![gone] = NULL]
       /\ parent_idx' = [Shifted(parent_idx, EdgesFrom(edges[p], 2), -1)
                            EXCEPT ![gone] = Uninit]
       /\ UNCHANGED <<level, mapVars>>
    BY <1>4 DEF MergeNextLeaf
<1> HIDE DEF N, O, P
<1>13. Wiring(owner)' /\ Len(edges'[p]) = Len(edges[p]) - 1
       /\ \A s \in Slots \ {p} : edges'[s] = edges[s]
    <2>1. PICK z \in Nat : z = n + 1
        OBVIOUS
    <2>2. PICK j \in 1 .. z : j = i + 2 /\ j = 2
        BY <1>4, <1>40, <2>1
    <2>3. Len(edges[p]) = z /\ gone = edges[p][j] /\ level[gone] = 0 /\ level' = level
        BY <1>4, <1>5, <1>12, <2>1, <2>2
    <2>4. /\ edges' = [edges EXCEPT ![p] = RemoveAt(edges[p], j)]
          /\ parent' = [parent EXCEPT ![gone] = NULL]
          /\ parent_idx' = [Shifted(parent_idx, EdgesFrom(edges[p], j), -1)
                               EXCEPT ![gone] = Uninit]
        BY <1>12, <2>2
    <2>5. p \in live /\ gone \in live /\ gone # p
        BY <1>4
    <2>6. QED
        BY <1>1, <1>2, <1>3, <2>3, <2>4, <2>5, MergeLeafWiring
<1>14. \A s \in Slots \ {gone} : parent'[s] = NULL <=> parent[s] = NULL
    BY <1>1, <1>12 DEF Wiring, Forest
<1>15. /\ gone \in live /\ gone # node /\ parent[gone] = p /\ level[gone] = level[node]
       /\ ~CanLend(Len(keys[gone]))
    BY <1>3, <1>4
<1>16. /\ keys'[gone] = <<>> /\ vals'[gone] = <<>>
       /\ Len(keys'[node]) = Len(keys[gone]) + Len(keys[node])
       /\ Len(vals'[node]) = Len(keys'[node])
       /\ Len(keys'[p]) = Len(keys[p]) - 1 /\ vals'[p] = vals[p]
       /\ \A s \in Slots \ {node, gone, p} : keys'[s] = keys[s] /\ vals'[s] = vals[s]
    <2>1. b + a = a + b
        BY <1>4, <1>6
    <2>2. QED
        BY <1>4, <1>6, <1>7, <1>8, <1>10, <2>1
<1>17. QED
    BY <1>1, <1>2, <1>3, <1>10, <1>11, <1>12, <1>13, <1>14, <1>15, <1>16, MergeLeafInv

\* How merge_prev_internal and merge_next_internal rewire: the children of
\* `gone` move to `node`, in which the edges of A come first and the x of them
\* push those of B back; edge i of the parent p, counted from 1, is taken out.
MergedPar(par, node, gone) ==
    [c \in Slots |-> IF par[c] = gone THEN node ELSE IF c = gone THEN NULL ELSE par[c]]
MergedPix(par, pix, gone, B, x, p, i) ==
    [c \in Slots |-> IF c = gone THEN -1
                     ELSE IF par[c] = B THEN pix[c] + x
                     ELSE IF par[c] = p /\ pix[c] >= i THEN pix[c] - 1 ELSE pix[c]]
MergedEs(es, node, gone, A, B, p, i) ==
    [s \in Slots |-> IF s = node THEN es[A] \o es[B] ELSE IF s = gone THEN <<>>
                     ELSE IF s = p THEN RemoveAt(es[p], i) ELSE es[s]]

\* The wiring after two internal nodes, A and B from left to right, were
\* merged: the children of `gone` moved to `node`, and child i of the parent,
\* counted from 1, is gone.
LEMMA MergeInternalWiring ==
    ASSUME NEW owner, Wiring(owner),
           NEW p \in live, NEW node \in live, NEW gone \in live,
           node # gone, node # p, gone # p, parent[node] = p, parent[gone] = p,
           level[node] = level[gone], owner[node] = owner[gone],
           NEW n \in Nat, Len(edges[p]) = n, NEW i \in 1 .. n, gone = edges[p][i],
           NEW A, NEW B, (A = node /\ B = gone) \/ (A = gone /\ B = node),
           NEW x \in Nat, Len(edges[A]) = x, NEW y \in Nat, Len(edges[B]) = y,
           live' = live \ {gone},
           level' = [level EXCEPT ![gone] = 0],
           edges' = MergedEs(edges, node, gone, A, B, p, i),
           parent' = MergedPar(parent, node, gone),
           parent_idx' = MergedPix(parent, parent_idx, gone, B, x, p, i)
    PROVE  Wiring(owner)'
<1>1. Forest(live, level, parent, parent_idx, edges, owner)
    BY DEF Wiring
<1>2. /\ live \subseteq Slots /\ p \in Slots /\ gone \in Slots /\ node \in Slots
      /\ level \in [Slots -> Nat]
      /\ parent \in [Slots -> Slots \cup {NULL}]
      /\ parent_idx \in [Slots -> Nat \cup {-1}]
      /\ edges \in [Slots -> Seq(Slots)]
    BY <1>1 DEF Forest
<1>3. PICK par1, pix1, es1 :
        /\ par1 = JoinPar(parent, node, gone)
        /\ pix1 = JoinPix(parent, parent_idx, B, x)
        /\ es1 = JoinEs(edges, node, gone, A, B)
    OBVIOUS
<1>4. Forest(live, level, par1, pix1, es1, owner) /\ Len(es1[node]) = x + y
    <2>1. /\ node \in live /\ gone \in live /\ node # gone
          /\ level[node] = level[gone] /\ owner[node] = owner[gone]
          /\ parent[gone] # node /\ parent[node] # gone
          /\ (A = node /\ B = gone) \/ (A = gone /\ B = node)
        OBVIOUS
    <2>2. x \in Nat /\ y \in Nat /\ Len(edges[A]) = x /\ Len(edges[B]) = y
        OBVIOUS
    <2>3. Forest(live, level, JoinPar(parent, node, gone), JoinPix(parent, parent_idx, B, x),
                 JoinEs(edges, node, gone, A, B), owner)
        BY ONLY <1>1, <2>1, <2>2, Join
    <2>4. Len(JoinEs(edges, node, gone, A, B)[node]) = x + y
        BY ONLY <1>1, <2>1, <2>2, Join
    <2>5. QED
        BY ONLY <1>3, <2>3, <2>4
<1>5. PICK e \in live, E \in SUBSET Slots : e = gone /\ E = {e}
    BY <1>2
<1>6. /\ es1[p] = edges[p] /\ par1[gone] = p
      /\ \A c \in Slots : par1[c] = IF parent[c] = gone THEN node ELSE parent[c]
    BY ONLY <1>2, <1>3, node # gone, node # p, gone # p, parent[gone] = p DEF JoinEs, JoinPar
<1>7. Forest(live \ E, Wiped(level, E, 0), DetachPar(par1, e),
             DetachPix(par1, pix1, p, e, i), MergeEs(es1, p, i, e), owner)
    <2>1. Len(es1[p]) = n /\ e = es1[p][i] /\ e # p /\ \A c \in Slots : par1[c] # e
        BY <1>5, <1>6
    <2>2. p \in live /\ n \in Nat /\ i \in 1 .. n /\ E \in SUBSET Slots /\ E = {e}
        BY <1>5
    <2>3. QED
        BY ONLY <1>4, <2>1, <2>2, RemoveChild
<1>8. level' = Wiped(level, E, 0)
    BY <1>2, <1>5 DEF Wiped
<1>9. parent' = DetachPar(par1, e)
    BY <1>2, <1>5, <1>6 DEF DetachPar, MergedPar
<1>10. edges' = MergeEs(es1, p, i, e)
    <2>1. \A s \in Slots : es1[s] = IF s = node THEN edges[A] \o edges[B]
                                   ELSE IF s = gone THEN <<>> ELSE edges[s]
        BY ONLY <1>3 DEF JoinEs
    <2>2. QED
        BY <1>2, <1>5, <2>1 DEF MergeEs, MergedEs
<1>11. parent_idx' = DetachPix(par1, pix1, p, e, i)
    <2>1. \A c \in Slots : pix1[c] = IF parent[c] = B THEN parent_idx[c] + x ELSE parent_idx[c]
        BY ONLY <1>3 DEF JoinPix
    <2>2. B # p
        OBVIOUS
    <2>3. \A c \in Slots : par1[c] = p <=> parent[c] = p
        BY <1>6
    <2>4. \A c \in Slots : DetachPix(par1, pix1, p, e, i)[c] =
             IF c = gone THEN -1 ELSE IF parent[c] = B THEN parent_idx[c] + x
             ELSE IF parent[c] = p /\ parent_idx[c] >= i THEN parent_idx[c] - 1
             ELSE parent_idx[c]
        BY ONLY <1>5, <2>1, <2>2, <2>3 DEF DetachPix
    <2>5. QED
        BY <2>4 DEF DetachPix, MergedPix
<1>12. QED
    BY <1>5, <1>7, <1>8, <1>9, <1>10, <1>11 DEF Wiring

\* The lengths of the edges after it
LEMMA MergedEdges ==
    ASSUME NEW q \in Seq(Slots), NEW r \in Seq(Slots), NEW t \in Seq(Slots),
           NEW x \in Nat, Len(q) = x, NEW y \in Nat, Len(r) = y,
           NEW z \in Nat, Len(t) = z, NEW j \in 1 .. z
    PROVE  Len(q \o r) = x + y /\ Len(RemoveAt(t, j)) = z - 1
<1>1. Len(q \o r) = x + y
    BY ConcatSeq
<1>2. Len(RemoveAt(t, j)) = z - 1
    BY RemoveAtSeq
<1>3. QED
    BY <1>1, <1>2

\* The keys of the two nodes with the separator between them
LEMMA MergedKeys ==
    ASSUME NEW q \in Seq(Keys), NEW r \in Seq(Keys), NEW k \in Keys,
           NEW a \in Nat, Len(q) = a, NEW b \in Nat, Len(r) = b
    PROVE  Append(q, k) \o r \in Seq(Keys) /\ Len(Append(q, k) \o r) = a + 1 + b
<1>1. PICK x \in Nat : x = a + 1
    OBVIOUS
<1>2. PICK u : u = Append(q, k)
    OBVIOUS
<1>3. u \in Seq(Keys) /\ Len(u) = x
    BY <1>1, <1>2, AppendSeq
<1>4. u \o r \in Seq(Keys) /\ Len(u \o r) = x + b
    BY ONLY <1>3, x \in Nat, r \in Seq(Keys), b \in Nat, Len(r) = b, ConcatSeq
<1>5. QED
    BY <1>1, <1>2, <1>4

\* The node before goes, its edges and the separator with it into the node.
LEMMA MergePrevInternalInv ==
    ASSUME IInv, MergePrevInternal
    PROVE  IInv'
<1> DEFINE node == op.node
           p == parent[op.node]
           gone == PrevSibling
           N == Append(keys[PrevSibling], keys[parent[op.node]][parent_idx[op.node]])
                    \o keys[op.node]
           P == RemoveAt(keys[parent[op.node]], parent_idx[op.node])
<1>1. PICK owner : Wiring(owner) /\ OpOwned(owner) /\ RootsOwned(owner)
    BY InvToForest
<1>2. Local
    BY InvToForest
<1>3. /\ op.pc = "underflow" /\ op.is_leaf = FALSE /\ p # NULL
      /\ HasPrev /\ ~CanLend(Len(keys[gone]))
      /\ MergedIntoParent(p) /\ live' = live \ {gone}
    BY DEF MergePrevInternal, Underflowing, AtRoot, PrevLends
<1>4. PICK n \in Nat, i \in Nat, a \in Nat :
        /\ i >= 1 /\ i <= n
        /\ node \in live /\ node \in Slots
        /\ p \in live /\ p \in Slots /\ p # node
        /\ parent_idx[node] = i
        /\ Len(keys[p]) = n /\ keys[p] \in Seq(Keys)
        /\ Len(edges[p]) = n + 1
        /\ gone = edges[p][i]
        /\ gone \in live /\ gone \in Slots /\ gone # node /\ gone # p
        /\ parent[gone] = p /\ level[gone] = level[node] /\ owner[gone] = owner[node]
        /\ Len(keys[gone]) = a /\ keys[gone] \in Seq(Keys)
    BY <1>1, <1>2, <1>3, PrevData
<1>5. level[node] # 0
    BY <1>1, <1>2, <1>3, UnderflowData
<1>6. PICK b \in Nat :
        /\ keys[node] \in Seq(Keys) /\ Len(keys[node]) = b
        /\ Len(edges[node]) = b + 1 /\ Len(edges[gone]) = a + 1
    <2>1. Len(edges[gone]) = a + 1
        BY <1>2, <1>4, <1>5 DEF Local, NodeShape
    <2>2. PICK b \in Nat :
            keys[node] \in Seq(Keys) /\ Len(keys[node]) = b /\ Len(edges[node]) = b + 1
        BY <1>1, <1>2, <1>4, <1>5, NodeData
    <2>3. QED
        BY <2>1, <2>2
<1>7. N \in Seq(Keys) /\ Len(N) = a + 1 + b
    <2>1. PICK q \in Seq(Keys), r \in Seq(Keys), k \in Keys :
            q = keys[gone] /\ r = keys[node] /\ k = keys[p][i]
        BY <1>4, <1>6, SMTT(30)
    <2>2. Len(q) = a /\ Len(r) = b
        BY <1>4, <1>6, <2>1
    <2>3. Append(q, k) \o r \in Seq(Keys) /\ Len(Append(q, k) \o r) = a + 1 + b
        BY <2>2, MergedKeys
    <2>4. QED
        BY <1>4, <2>1, <2>3
<1>8. P \in Seq(Keys) /\ Len(P) = n - 1
    <2>1. PICK q \in Seq(Keys), j \in 1 .. n : q = keys[p] /\ j = i
        BY <1>4
    <2>2. Len(q) = n
        BY <1>4, <2>1
    <2>3. RemoveAt(q, j) \in Seq(Keys) /\ Len(RemoveAt(q, j)) = n - 1
        BY <2>2, RemoveAtSeq
    <2>4. QED
        BY <1>4, <2>1, <2>3
<1>9. keys \in [Slots -> Seq(Keys)]
    BY <1>2 DEF Local, DataTypes
<1>10. /\ keys' \in [Slots -> Seq(Keys)]
       /\ \A s \in Slots : keys'[s] = IF s = p THEN P ELSE IF s = node THEN N
                                      ELSE IF s = gone THEN <<>> ELSE keys[s]
    <2>1. keys' = [s \in Slots |-> IF s = p THEN P ELSE IF s = node THEN N
                                   ELSE IF s = gone THEN <<>> ELSE keys[s]]
        BY <1>4, <1>9 DEF MergePrevInternal
    <2> HIDE DEF N, P
    <2>2. QED
        BY <1>7, <1>8, <1>9, <2>1
<1>11. Forest(live, level, parent, parent_idx, edges, owner)
    BY <1>1 DEF Wiring
<1>12. /\ parent \in [Slots -> Slots \cup {NULL}]
       /\ parent_idx \in [Slots -> Nat \cup {-1}]
       /\ edges \in [Slots -> Seq(Slots)]
    BY <1>11 DEF Forest
<1>13. /\ edges' = MergedEs(edges, node, gone, gone, node, p, i)
       /\ level' = [level EXCEPT ![gone] = 0]
       /\ UNCHANGED <<vals, prev, next, mapVars>>
    BY <1>4, <1>12 DEF MergePrevInternal, MergedEs
<1>14. parent' = MergedPar(parent, node, gone)
    <2>1. \A c \in Slots : c \in ToSet(edges[gone]) <=> parent[c] = gone
        BY <1>4, <1>11, EdgesAre
    <2>2. QED
        BY <2>1 DEF MergePrevInternal, MergedPar
<1>15. parent_idx' = MergedPix(parent, parent_idx, gone, node, a + 1, p, i)
    <2>1. \A c \in Slots : c \in ToSet(edges[node]) <=> parent[c] = node
        BY <1>4, <1>11, EdgesAre
    <2>2. \A c \in Slots : c \in EdgesFrom(edges[p], i) <=> parent[c] = p /\ parent_idx[c] >= i
        BY <1>4, <1>11, EdgesFromIs
    <2>3. PICK sh : sh = Shifted(parent_idx, ToSet(edges[node]), a + 1)
        OBVIOUS
    <2>4. sh = [c \in Slots |-> IF parent[c] = node THEN parent_idx[c] + (a + 1)
                                ELSE parent_idx[c]]
        BY <1>12, <2>1, <2>3 DEF Shifted
    <2>5. PICK shifted : shifted = Shifted(sh, EdgesFrom(edges[p], i), -1)
        OBVIOUS
    <2>6. shifted = [c \in Slots |-> IF parent[c] = p /\ parent_idx[c] >= i THEN sh[c] - 1
                                     ELSE sh[c]]
        BY <2>2, <2>4, <2>5 DEF Shifted
    <2>7. parent_idx' = [shifted EXCEPT ![gone] = -1]
        BY <1>4, <2>3, <2>5 DEF MergePrevInternal, Uninit
    <2>8. p # node
        BY <1>4
    <2>9. parent_idx' = [c \in Slots |-> IF c = gone THEN -1 ELSE shifted[c]]
        BY ONLY <2>6, <2>7
    <2>10. \A c \in Slots : shifted[c] = IF parent[c] = node THEN parent_idx[c] + (a + 1)
                                         ELSE IF parent[c] = p /\ parent_idx[c] >= i
                                         THEN parent_idx[c] - 1 ELSE parent_idx[c]
        BY ONLY <2>4, <2>6, <2>8
    <2>11. QED
        BY ONLY <2>9, <2>10 DEF MergedPix
<1> HIDE DEF N, P
<1>16. Wiring(owner)' /\ Len(edges'[node]) = (a + 1) + (b + 1) /\ Len(edges'[p]) = n + 1 - 1
    <2>1. PICK z \in Nat, j \in Nat, x \in Nat, y \in Nat :
            z = n + 1 /\ j = i /\ x = a + 1 /\ y = b + 1 /\ j \in 1 .. z
        BY <1>4
    <2>2. /\ p \in live /\ node \in live /\ gone \in live
          /\ node # gone /\ node # p /\ gone # p /\ parent[node] = p /\ parent[gone] = p
          /\ level[node] = level[gone] /\ owner[node] = owner[gone]
          /\ Len(edges[p]) = z /\ gone = edges[p][j]
          /\ Len(edges[gone]) = x /\ Len(edges[node]) = y
          /\ live' = live \ {gone} /\ level' = [level EXCEPT ![gone] = 0]
        BY <1>3, <1>4, <1>6, <1>13, <2>1
    <2>3. /\ edges' = MergedEs(edges, node, gone, gone, node, p, j)
          /\ parent_idx' = MergedPix(parent, parent_idx, gone, node, x, p, j)
        BY <1>13, <1>15, <2>1
    <2>4. j \in 1 .. z
        BY <2>1
    <2>5. Wiring(owner)'
        BY ONLY <1>1, <1>14, <2>2, <2>3, <2>4, z \in Nat, x \in Nat, y \in Nat,
                MergeInternalWiring
    <2>6. edges'[node] = edges[gone] \o edges[node] /\ edges'[p] = RemoveAt(edges[p], j)
        BY <1>4, <2>3 DEF MergedEs
    <2>7. PICK q \in Seq(Slots), r \in Seq(Slots), u \in Seq(Slots) :
            q = edges[gone] /\ r = edges[node] /\ u = edges[p]
        BY <1>4, <1>12
    <2>8. Len(q) = x /\ Len(r) = y /\ Len(u) = z
        BY <2>2, <2>7
    <2>9. Len(q \o r) = x + y /\ Len(RemoveAt(u, j)) = z - 1
        BY ONLY <2>4, <2>8, x \in Nat, y \in Nat, z \in Nat, q \in Seq(Slots),
                r \in Seq(Slots), u \in Seq(Slots), MergedEdges
    <2>10. QED
        BY <2>1, <2>5, <2>6, <2>7, <2>9
<1>17. \A s \in Slots \ {gone} : parent'[s] = NULL <=> parent[s] = NULL
    BY <1>4, <1>12, <1>14, SlotsAssumption DEF MergedPar
<1>18. /\ gone \in live /\ gone # node /\ parent[gone] = p /\ level[gone] = level[node]
       /\ ~CanLend(Len(keys[gone]))
    BY <1>3, <1>4
<1>19. /\ keys'[gone] = <<>> /\ edges'[gone] = <<>>
       /\ \A s \in Slots \ {node, gone, p} : keys'[s] = keys[s] /\ edges'[s] = edges[s]
    BY <1>4, <1>10, <1>13 DEF MergedEs
<1>20. /\ Len(keys'[node]) = Len(keys[gone]) + 1 + Len(keys[node])
       /\ Len(edges'[node]) = Len(edges[gone]) + Len(edges[node])
       /\ Len(keys'[p]) = Len(keys[p]) - 1
       /\ Len(edges'[p]) = Len(edges[p]) - 1
    <2>1. keys'[node] = N /\ keys'[p] = P
        BY <1>4, <1>10
    <2>2. (a + 1) + (b + 1) = a + 1 + (b + 1)
        BY a \in Nat, b \in Nat
    <2>3. QED
        BY <1>4, <1>6, <1>7, <1>8, <1>16, <2>1, <2>2
<1>21. QED
    BY <1>1, <1>2, <1>3, <1>10, <1>13, <1>16, <1>17, <1>18, <1>19, <1>20, MergeInternalInv

\* The node after goes, the separator and its edges with it into the node.
LEMMA MergeNextInternalInv ==
    ASSUME IInv, MergeNextInternal
    PROVE  IInv'
<1> DEFINE node == op.node
           p == parent[op.node]
           gone == NextSibling
           N == Append(keys[op.node], keys[parent[op.node]][1]) \o keys[NextSibling]
           P == RemoveAt(keys[parent[op.node]], 1)
<1>1. PICK owner : Wiring(owner) /\ OpOwned(owner) /\ RootsOwned(owner)
    BY InvToForest
<1>2. Local
    BY InvToForest
<1>3. /\ op.pc = "underflow" /\ op.is_leaf = FALSE /\ p # NULL
      /\ HasNext /\ ~HasPrev /\ ~CanLend(Len(keys[gone]))
      /\ MergedIntoParent(p) /\ live' = live \ {gone}
    <2>1. /\ op.pc = "underflow" /\ op.is_leaf = FALSE /\ p # NULL
          /\ ~NextLends /\ ~HasPrev
          /\ MergedIntoParent(p) /\ live' = live \ {gone}
        BY DEF MergeNextInternal, Underflowing, AtRoot
    <2>2. HasNext
        BY <1>1, <1>2, <2>1, FirstHasNext
    <2>3. QED
        BY <2>1, <2>2 DEF NextLends
<1>4. PICK n \in Nat, i \in Nat, a \in Nat :
        /\ i + 1 <= n
        /\ node \in live /\ node \in Slots
        /\ p \in live /\ p \in Slots /\ p # node
        /\ parent_idx[node] = i
        /\ Len(keys[p]) = n /\ keys[p] \in Seq(Keys)
        /\ Len(edges[p]) = n + 1
        /\ gone = edges[p][i + 2]
        /\ gone \in live /\ gone \in Slots /\ gone # node /\ gone # p
        /\ parent[gone] = p /\ level[gone] = level[node] /\ owner[gone] = owner[node]
        /\ Len(keys[gone]) = a /\ keys[gone] \in Seq(Keys)
    BY <1>1, <1>2, <1>3, NextData
<1>40. i = 0 /\ n >= 1 /\ gone = edges[p][2]
    <2>1. i = 0
        BY <1>1, <1>2, <1>3, <1>4, FirstHasNext
    <2>2. QED
        BY <1>4, <2>1
<1>5. level[node] # 0
    BY <1>1, <1>2, <1>3, UnderflowData
<1>6. PICK b \in Nat :
        /\ keys[node] \in Seq(Keys) /\ Len(keys[node]) = b
        /\ Len(edges[node]) = b + 1 /\ Len(edges[gone]) = a + 1
    <2>1. Len(edges[gone]) = a + 1
        BY <1>2, <1>4, <1>5 DEF Local, NodeShape
    <2>2. PICK b \in Nat :
            keys[node] \in Seq(Keys) /\ Len(keys[node]) = b /\ Len(edges[node]) = b + 1
        BY <1>1, <1>2, <1>4, <1>5, NodeData
    <2>3. QED
        BY <2>1, <2>2
<1>7. N \in Seq(Keys) /\ Len(N) = b + 1 + a
    <2>1. PICK q \in Seq(Keys), r \in Seq(Keys), k \in Keys :
            q = keys[node] /\ r = keys[gone] /\ k = keys[p][1]
        BY <1>4, <1>40, <1>6
    <2>2. Len(q) = b /\ Len(r) = a
        BY <1>4, <1>6, <2>1
    <2>3. Append(q, k) \o r \in Seq(Keys) /\ Len(Append(q, k) \o r) = b + 1 + a
        BY <2>2, MergedKeys
    <2>4. QED
        BY <2>1, <2>3
<1>8. P \in Seq(Keys) /\ Len(P) = n - 1
    <2>1. PICK q \in Seq(Keys), j \in 1 .. n : q = keys[p] /\ j = 1
        BY <1>4, <1>40
    <2>2. Len(q) = n
        BY <1>4, <2>1
    <2>3. RemoveAt(q, j) \in Seq(Keys) /\ Len(RemoveAt(q, j)) = n - 1
        BY <2>2, RemoveAtSeq
    <2>4. QED
        BY <1>4, <2>1, <2>3
<1>9. keys \in [Slots -> Seq(Keys)]
    BY <1>2 DEF Local, DataTypes
<1>10. /\ keys' \in [Slots -> Seq(Keys)]
       /\ \A s \in Slots : keys'[s] = IF s = p THEN P ELSE IF s = node THEN N
                                      ELSE IF s = gone THEN <<>> ELSE keys[s]
    <2>1. keys' = [s \in Slots |-> IF s = p THEN P ELSE IF s = node THEN N
                                   ELSE IF s = gone THEN <<>> ELSE keys[s]]
        BY <1>4, <1>9 DEF MergeNextInternal
    <2> HIDE DEF N, P
    <2>2. QED
        BY <1>7, <1>8, <1>9, <2>1
<1>11. Forest(live, level, parent, parent_idx, edges, owner)
    BY <1>1 DEF Wiring
<1>12. /\ parent \in [Slots -> Slots \cup {NULL}]
       /\ parent_idx \in [Slots -> Nat \cup {-1}]
       /\ edges \in [Slots -> Seq(Slots)]
    BY <1>11 DEF Forest
<1>13. /\ edges' = MergedEs(edges, node, gone, node, gone, p, 2)
       /\ level' = [level EXCEPT ![gone] = 0]
       /\ UNCHANGED <<vals, prev, next, mapVars>>
    BY <1>4, <1>12 DEF MergeNextInternal, MergedEs
<1>14. parent' = MergedPar(parent, node, gone)
    <2>1. \A c \in Slots : c \in ToSet(edges[gone]) <=> parent[c] = gone
        BY <1>4, <1>11, EdgesAre
    <2>2. QED
        BY <2>1 DEF MergeNextInternal, MergedPar
<1>15. parent_idx' = MergedPix(parent, parent_idx, gone, gone, b + 1, p, 2)
    <2>1. \A c \in Slots : c \in ToSet(edges[gone]) <=> parent[c] = gone
        BY <1>4, <1>11, EdgesAre
    <2>2. \A c \in Slots : c \in EdgesFrom(edges[p], 2) <=> parent[c] = p /\ parent_idx[c] >= 2
        BY <1>4, <1>11, EdgesFromIs
    <2>3. PICK sh : sh = Shifted(parent_idx, ToSet(edges[gone]), b + 1)
        OBVIOUS
    <2>4. sh = [c \in Slots |-> IF parent[c] = gone THEN parent_idx[c] + (b + 1)
                                ELSE parent_idx[c]]
        BY <1>12, <2>1, <2>3 DEF Shifted
    <2>5. PICK shifted : shifted = Shifted(sh, EdgesFrom(edges[p], 2), -1)
        OBVIOUS
    <2>6. shifted = [c \in Slots |-> IF parent[c] = p /\ parent_idx[c] >= 2 THEN sh[c] - 1
                                     ELSE sh[c]]
        BY <2>2, <2>4, <2>5 DEF Shifted
    <2>7. parent_idx' = [shifted EXCEPT ![gone] = -1]
        BY <1>6, <2>3, <2>5 DEF MergeNextInternal, Uninit
    <2>8. p # gone
        BY <1>4
    <2>9. parent_idx' = [c \in Slots |-> IF c = gone THEN -1 ELSE shifted[c]]
        BY ONLY <2>6, <2>7
    <2>10. \A c \in Slots : shifted[c] = IF parent[c] = gone THEN parent_idx[c] + (b + 1)
                                         ELSE IF parent[c] = p /\ parent_idx[c] >= 2
                                         THEN parent_idx[c] - 1 ELSE parent_idx[c]
        BY ONLY <2>4, <2>6, <2>8
    <2>11. QED
        BY ONLY <2>9, <2>10 DEF MergedPix
<1> HIDE DEF N, P
<1>16. Wiring(owner)' /\ Len(edges'[node]) = (b + 1) + (a + 1) /\ Len(edges'[p]) = n + 1 - 1
    <2>1. PICK z \in Nat, j \in Nat, x \in Nat, y \in Nat :
            z = n + 1 /\ j = 2 /\ x = b + 1 /\ y = a + 1 /\ j \in 1 .. z
        BY <1>4, <1>40
    <2>2. /\ p \in live /\ node \in live /\ gone \in live
          /\ node # gone /\ node # p /\ gone # p /\ parent[node] = p /\ parent[gone] = p
          /\ level[node] = level[gone] /\ owner[node] = owner[gone]
          /\ Len(edges[p]) = z /\ gone = edges[p][j]
          /\ Len(edges[node]) = x /\ Len(edges[gone]) = y
          /\ live' = live \ {gone} /\ level' = [level EXCEPT ![gone] = 0]
        BY <1>3, <1>4, <1>40, <1>6, <1>13, <2>1
    <2>3. /\ edges' = MergedEs(edges, node, gone, node, gone, p, j)
          /\ parent_idx' = MergedPix(parent, parent_idx, gone, gone, x, p, j)
        BY <1>13, <1>15, <2>1
    <2>4. j \in 1 .. z
        BY <2>1
    <2>50. PICK A, B : A = node /\ B = gone
        OBVIOUS
    <2>51. /\ edges' = MergedEs(edges, node, gone, A, B, p, j)
           /\ parent_idx' = MergedPix(parent, parent_idx, gone, B, x, p, j)
           /\ Len(edges[A]) = x /\ Len(edges[B]) = y
        BY ONLY <2>2, <2>3, <2>50
    <2>52. (A = node /\ B = gone) \/ (A = gone /\ B = node)
        BY ONLY <2>50
    <2>5. Wiring(owner)'
        BY ONLY <1>1, <1>14, <2>2, <2>51, <2>52, <2>4, z \in Nat, x \in Nat, y \in Nat,
                MergeInternalWiring
    <2>6. edges'[node] = edges[node] \o edges[gone] /\ edges'[p] = RemoveAt(edges[p], j)
        BY <1>4, <2>3 DEF MergedEs
    <2>7. PICK q \in Seq(Slots), r \in Seq(Slots), u \in Seq(Slots) :
            q = edges[node] /\ r = edges[gone] /\ u = edges[p]
        BY <1>4, <1>12
    <2>8. Len(q) = x /\ Len(r) = y /\ Len(u) = z
        BY <2>2, <2>7
    <2>9. Len(q \o r) = x + y /\ Len(RemoveAt(u, j)) = z - 1
        BY ONLY <2>4, <2>8, x \in Nat, y \in Nat, z \in Nat, q \in Seq(Slots),
                r \in Seq(Slots), u \in Seq(Slots), MergedEdges
    <2>10. QED
        BY <2>1, <2>5, <2>6, <2>7, <2>9
<1>17. \A s \in Slots \ {gone} : parent'[s] = NULL <=> parent[s] = NULL
    BY <1>4, <1>12, <1>14, SlotsAssumption DEF MergedPar
<1>18. /\ gone \in live /\ gone # node /\ parent[gone] = p /\ level[gone] = level[node]
       /\ ~CanLend(Len(keys[gone]))
    BY <1>3, <1>4
<1>19. /\ keys'[gone] = <<>> /\ edges'[gone] = <<>>
       /\ \A s \in Slots \ {node, gone, p} : keys'[s] = keys[s] /\ edges'[s] = edges[s]
    BY <1>4, <1>10, <1>13 DEF MergedEs
<1>20. /\ Len(keys'[node]) = Len(keys[gone]) + 1 + Len(keys[node])
       /\ Len(edges'[node]) = Len(edges[gone]) + Len(edges[node])
       /\ Len(keys'[p]) = Len(keys[p]) - 1
       /\ Len(edges'[p]) = Len(edges[p]) - 1
    <2>1. keys'[node] = N /\ keys'[p] = P
        BY <1>4, <1>10
    <2>2. (b + 1) + (a + 1) = (a + 1) + (b + 1) /\ b + 1 + a = a + 1 + b
        BY a \in Nat, b \in Nat
    <2>3. QED
        BY <1>4, <1>6, <1>7, <1>8, <1>16, <2>1, <2>2
<1>21. QED
    BY <1>1, <1>2, <1>3, <1>10, <1>13, <1>16, <1>17, <1>18, <1>19, <1>20, MergeInternalInv

-----------------------------------------------------------------------------
(***************************************************************************)
(* Descents.                                                               *)
(***************************************************************************)

\* One step down: an edge of an internal node leads to a node one level lower
\* of the same map.
LEMMA StepDown ==
    ASSUME Local, NEW owner, Wiring(owner), NEW s \in live, level[s] # 0,
           NEW n \in Nat, Len(keys[s]) = n, NEW i \in 1 .. n + 1
    PROVE  /\ edges[s][i] \in live
           /\ parent[edges[s][i]] # NULL
           /\ level[edges[s][i]] = level[s] - 1
           /\ owner[edges[s][i]] = owner[s]
<1>1. s \in Slots /\ Forest(live, level, parent, parent_idx, edges, owner)
    BY DEF Wiring, Forest
<1>2. i \in DOMAIN edges[s]
    BY <1>1, NodeData
<1>3. s # NULL
    BY <1>1, SlotsAssumption
<1>4. QED
    BY <1>1, <1>2, <1>3, ForestChild

\* `height` steps down from the root of a map, along edges of any choice, end
\* at a leaf of the map.
LEMMA DescentEnds ==
    ASSUME Local, NEW owner, Wiring(owner), RootsOwned(owner),
           NEW m \in Maps, root[m] # NULL, NEW child,
           \A s \in live : level[s] # 0 =>
              /\ child[s] \in live
              /\ parent[child[s]] # NULL
              /\ level[child[s]] = level[s] - 1
              /\ owner[child[s]] = owner[s]
    PROVE  /\ Descend(m, child) \in live
           /\ level[Descend(m, child)] = 0
           /\ owner[Descend(m, child)] = m
           /\ Descend(m, child) = root[m] \/ parent[Descend(m, child)] # NULL
<1>1. PICK h \in Nat : h = height[m]
    BY DEF Local, DataTypes
<1>2. root[m] \in live /\ level[root[m]] = h /\ owner[root[m]] = m
    BY <1>1 DEF Local, RootsAgree, RootsOwned
<1>3. PICK G : G = [n \in Nat |-> {s \in live : /\ level[s] = h - n
                                                /\ owner[s] = m
                                                /\ s = root[m] \/ parent[s] # NULL}]
    OBVIOUS
<1>4. root[m] \in G[0]
    BY <1>2, <1>3
<1>5. ASSUME NEW n \in Nat, n < h, NEW s \in G[n]
      PROVE  child[s] \in G[n + 1]
    <2>1. s \in live /\ level[s] = h - n /\ owner[s] = m
        BY <1>3, <1>5
    <2>2. level[s] # 0 /\ level[s] - 1 = h - (n + 1)
        BY <1>5, <2>1
    <2>3. QED
        BY <1>3, <2>1, <2>2
<1>6. \A n \in 0 .. h : Repeat(child, root[m])[n] \in G[n]
    <2>1. \A n \in Nat : n < h => \A y \in G[n] : child[y] \in G[n + 1]
        BY <1>5
    <2>2. QED
        BY ONLY h \in Nat, <1>4, <2>1, WalkStays
<1>7. Repeat(child, root[m])[h] \in G[h]
    BY <1>6
<1>8. QED
    BY <1>1, <1>3, <1>7 DEF Descend

\* The three descents of the map
LEMMA FindLeafEnds ==
    ASSUME Local, NEW owner, Wiring(owner), RootsOwned(owner),
           NEW m \in Maps, root[m] # NULL, NEW k \in Keys
    PROVE  /\ FindLeaf(m, k) \in live
           /\ level[FindLeaf(m, k)] = 0
           /\ owner[FindLeaf(m, k)] = m
           /\ FindLeaf(m, k) = root[m] \/ parent[FindLeaf(m, k)] # NULL
<1>1. PICK child : child = [s \in Slots |-> edges[s][EdgeIndex(keys[s], k) + 1]]
    OBVIOUS
<1>2. ASSUME NEW s \in live, level[s] # 0
      PROVE  /\ child[s] \in live
             /\ parent[child[s]] # NULL
             /\ level[child[s]] = level[s] - 1
             /\ owner[child[s]] = owner[s]
    <2>1. s \in Slots
        BY DEF Wiring, Forest
    <2>2. PICK n \in Nat : Len(keys[s]) = n /\ keys[s] \in Seq(Keys)
        BY <2>1, NodeData
    <2>3. EdgeIndex(keys[s], k) \in 0 .. n
        BY <2>2, IndexBounds
    <2>4. PICK i \in 1 .. n + 1 : i = EdgeIndex(keys[s], k) + 1
        BY <2>3
    <2>5. child[s] = edges[s][i]
        BY <1>1, <2>1, <2>4
    <2>6. QED
        BY <1>2, <2>2, <2>5, StepDown
<1>3. FindLeaf(m, k) = Descend(m, child)
    BY <1>1 DEF FindLeaf
<1>4. QED
    BY <1>2, <1>3, DescentEnds

\* first_leaf
LEMMA FirstLeafEnds ==
    ASSUME Local, NEW owner, Wiring(owner), RootsOwned(owner),
           NEW m \in Maps, root[m] # NULL
    PROVE  /\ first_leaf(m) \in live
           /\ level[first_leaf(m)] = 0
           /\ owner[first_leaf(m)] = m
           /\ first_leaf(m) = root[m] \/ parent[first_leaf(m)] # NULL
<1>1. PICK child : child = [s \in Slots |-> edges[s][1]]
    OBVIOUS
<1>2. ASSUME NEW s \in live, level[s] # 0
      PROVE  /\ child[s] \in live
             /\ parent[child[s]] # NULL
             /\ level[child[s]] = level[s] - 1
             /\ owner[child[s]] = owner[s]
    <2>1. s \in Slots
        BY DEF Wiring, Forest
    <2>2. PICK n \in Nat : Len(keys[s]) = n
        BY <2>1, NodeData
    <2>3. PICK i \in 1 .. n + 1 : i = 1
        OBVIOUS
    <2>4. child[s] = edges[s][i]
        BY <1>1, <2>1, <2>3
    <2>5. QED
        BY <1>2, <2>2, <2>4, StepDown
<1>3. first_leaf(m) = Descend(m, child)
    BY <1>1 DEF first_leaf
<1>4. QED
    BY <1>2, <1>3, DescentEnds

\* last_leaf
LEMMA LastLeafEnds ==
    ASSUME Local, NEW owner, Wiring(owner), RootsOwned(owner),
           NEW m \in Maps, root[m] # NULL
    PROVE  /\ last_leaf(m) \in live
           /\ level[last_leaf(m)] = 0
           /\ owner[last_leaf(m)] = m
           /\ last_leaf(m) = root[m] \/ parent[last_leaf(m)] # NULL
<1>1. PICK child : child = [s \in Slots |-> edges[s][Len(keys[s]) + 1]]
    OBVIOUS
<1>2. ASSUME NEW s \in live, level[s] # 0
      PROVE  /\ child[s] \in live
             /\ parent[child[s]] # NULL
             /\ level[child[s]] = level[s] - 1
             /\ owner[child[s]] = owner[s]
    <2>1. s \in Slots
        BY DEF Wiring, Forest
    <2>2. PICK n \in Nat : Len(keys[s]) = n
        BY <2>1, NodeData
    <2>3. PICK i \in 1 .. n + 1 : i = n + 1
        OBVIOUS
    <2>4. child[s] = edges[s][i]
        BY <1>1, <2>1, <2>2, <2>3
    <2>5. QED
        BY <1>2, <2>2, <2>4, StepDown
<1>3. last_leaf(m) = Descend(m, child)
    BY <1>1 DEF last_leaf
<1>4. QED
    BY <1>2, <1>3, DescentEnds

\* Such a leaf, between two calls: it has an entry, and below a parent at
\* least the least number of them.
LEMMA LeafData ==
    ASSUME Local, NEW owner, Wiring(owner), RootsOwned(owner), op = Idle,
           NEW m \in Maps, root[m] # NULL,
           NEW leaf \in live, level[leaf] = 0, owner[leaf] = m,
           leaf = root[m] \/ parent[leaf] # NULL
    PROVE  \E n \in Nat :
              /\ n >= 1 /\ n <= M
              /\ leaf \in Slots
              /\ keys[leaf] \in Seq(Keys) /\ Len(keys[leaf]) = n
              /\ vals[leaf] \in Seq(Values) /\ Len(vals[leaf]) = n
              /\ edges[leaf] = <<>>
              /\ parent[leaf] # NULL => n >= M \div 2
              /\ parent[leaf] = NULL => root[m] = leaf
<1>1. leaf \in Slots
    BY DEF Wiring, Forest
<1>2. PICK n \in Nat :
        /\ n <= M
        /\ keys[leaf] \in Seq(Keys) /\ Len(keys[leaf]) = n
        /\ vals[leaf] \in Seq(Values) /\ Len(vals[leaf]) = n
        /\ edges[leaf] = <<>>
    BY <1>1, NodeData
<1>3. PICK h \in Nat : h = M \div 2 /\ h >= 1
    BY HalfOfM
<1>4. \/ n >= h
      \/ parent[leaf] = NULL /\ (keys[leaf] = <<>> => \A q \in Maps : root[q] # leaf)
    BY <1>2, <1>3 DEF Local, Occupancy, Underfull, Idle
<1>5. n >= 1
    <2>1. CASE n >= h
        BY <1>3, <2>1
    <2>2. CASE parent[leaf] = NULL /\ (keys[leaf] = <<>> => \A q \in Maps : root[q] # leaf)
        <3>1. keys[leaf] # <<>>
            BY <2>2
        <3>2. n # 0
            BY <1>2, <3>1
        <3>3. QED
            BY <3>2
    <2>3. QED
        BY <1>4, <2>1, <2>2
<1>6. QED
    BY <1>1, <1>2, <1>3, <1>4, <1>5

-----------------------------------------------------------------------------
(***************************************************************************)
(* Entries put into a leaf, changed and taken out.                         *)
(***************************************************************************)

\* A call that changes one leaf, and starts the loop if too little is left.
LEMMA LeafChangeInv ==
    ASSUME Local, NEW owner, Wiring(owner), RootsOwned(owner), op = Idle,
           NEW m \in Maps, NEW leaf \in live, level[leaf] = 0, owner[leaf] = m,
           parent[leaf] = NULL => root[m] = leaf,
           keys' \in [Slots -> Seq(Keys)], vals' \in [Slots -> Seq(Values)],
           length' \in [Maps -> Int],
           NEW n \in Nat, n <= M, Len(keys'[leaf]) = n, Len(vals'[leaf]) = n,
           \A s \in Slots \ {leaf} : keys'[s] = keys[s] /\ vals'[s] = vals[s],
           \/ op' = Idle /\ (~Underfull(n) \/ (parent[leaf] = NULL /\ n # 0))
           \/ /\ op' = [pc |-> "underflow", map |-> m, node |-> leaf, is_leaf |-> TRUE]
              /\ Underfull(n) /\ (parent[leaf] # NULL => n = M \div 2 - 1),
           UNCHANGED <<live, level, parent, parent_idx, edges, prev, next, root, height>>
    PROVE  IInv'
<1>1. /\ live' = live /\ level' = level /\ parent' = parent /\ parent_idx' = parent_idx
      /\ edges' = edges /\ prev' = prev /\ next' = next /\ root' = root /\ height' = height
    OBVIOUS
<1>2. leaf \in Slots /\ live \subseteq Slots
    BY DEF Wiring, Forest
<1>3. Wiring(owner)' /\ RootsOwned(owner)'
    BY <1>1 DEF Wiring, RootsOwned
<1>4. op'.pc = "idle" \/ op'.pc = "underflow"
    BY DEF Idle
<1>5. ASSUME op'.pc = "underflow"
      PROVE  /\ op'.node = leaf /\ op'.map = m /\ op'.is_leaf = TRUE
             /\ Underfull(n) /\ (parent[leaf] # NULL => n = M \div 2 - 1)
             /\ op' \in UnderflowOps
    <2>1. /\ op' = [pc |-> "underflow", map |-> m, node |-> leaf, is_leaf |-> TRUE]
          /\ Underfull(n) /\ (parent[leaf] # NULL => n = M \div 2 - 1)
        BY <1>5 DEF Idle
    <2>2. [pc |-> "underflow", map |-> m, node |-> leaf, is_leaf |-> TRUE] \in UnderflowOps
        BY <1>2 DEF UnderflowOps
    <2>3. op'.node = leaf /\ op'.map = m /\ op'.is_leaf = TRUE
        BY ONLY <2>1
    <2>4. QED
        BY ONLY <2>1, <2>2, <2>3
<1>6. op'.pc = "idle" => op' = Idle /\ (~Underfull(n) \/ (parent[leaf] = NULL /\ n # 0))
    BY DEF Idle
<1>7. DataTypes'
    <2>1. op' \in {Idle} \cup OverflowOps \cup UnderflowOps
        BY <1>4, <1>5, <1>6
    <2>2. QED
        BY <1>1, <2>1 DEF Local, DataTypes
<1>8. DataBlank'
    BY <1>1, <1>2 DEF Local, DataBlank
<1>9. NodeShape'
    <2>1. SUFFICES ASSUME NEW s \in Slots
                   PROVE  /\ Len(keys'[s]) <= M
                          /\ level[s] = 0 => edges[s] = <<>> /\ Len(vals'[s]) = Len(keys'[s])
                          /\ level[s] # 0 => vals'[s] = <<>> /\ Len(edges[s]) = Len(keys'[s]) + 1
        BY <1>1 DEF NodeShape
    <2>2. NodeShape
        BY DEF Local
    <2>3. CASE s = leaf
        BY <2>2, <2>3 DEF NodeShape
    <2>4. CASE s # leaf
        BY <2>2, <2>4 DEF NodeShape
    <2>5. QED
        BY <2>3, <2>4
<1>10. RootsAgree'
    BY <1>1 DEF Local, RootsAgree
<1>11. keys'[leaf] = <<>> => n = 0
    OBVIOUS
<1>12. Occupancy'
    <2>1. Occupancy
        BY DEF Local
    <2>2. SUFFICES ASSUME NEW s \in live, Underfull(Len(keys'[s]))
                   PROVE  \/ /\ op'.pc = "underflow" /\ s = op'.node
                             /\ parent[s] = NULL \/ Len(keys'[s]) = M \div 2 - 1
                          \/ /\ parent[s] = NULL /\ ~(op'.pc = "overflow" /\ s = op'.right)
                             /\ keys'[s] = <<>> => \A q \in Maps : root[q] # s
        BY <1>1 DEF Occupancy
    <2>3. CASE s = leaf
        BY <1>4, <1>5, <1>6, <1>11, <2>2, <2>3
    <2>4. CASE s # leaf
        <3>1. keys'[s] = keys[s]
            BY <1>2, <2>4
        <3>2. parent[s] = NULL /\ (keys[s] = <<>> => \A q \in Maps : root[q] # s)
            BY <2>1, <2>2, <3>1 DEF Occupancy, Idle
        <3>3. QED
            BY <1>4, <3>1, <3>2
    <2>5. QED
        BY <2>3, <2>4
<1>13. PendingOverflow'
    BY <1>4 DEF PendingOverflow
<1>14. PendingUnderflow'
    BY <1>1, <1>5 DEF PendingUnderflow
<1>15. Orphans'
    <2>1. SUFFICES ASSUME NEW s \in live, parent[s] = NULL
                   PROVE  (\E q \in Maps : root[q] = s) \/ (level[s] = 0 /\ keys'[s] = <<>>)
        BY <1>1 DEF Orphans
    <2>2. (\E q \in Maps : root[q] = s) \/ (level[s] = 0 /\ keys[s] = <<>>)
        BY <2>1 DEF Local, Orphans, Idle
    <2>3. CASE s = leaf
        BY <2>1, <2>3
    <2>4. CASE s # leaf
        BY <1>2, <2>2, <2>4
    <2>5. QED
        BY <2>3, <2>4
<1>16. OpOwned(owner)'
    BY <1>4, <1>5 DEF OpOwned
<1>17. QED
    BY <1>3, <1>7, <1>8, <1>9, <1>10, <1>12, <1>13, <1>14, <1>15, <1>16,
       ForestToInvPrime DEF Local

\* insert_val
LEMMA InsertIntoLeafInv ==
    ASSUME Local, NEW owner, Wiring(owner), RootsOwned(owner), op = Idle,
           NEW m \in Maps, root[m] # NULL,
           NEW leaf \in live, level[leaf] = 0, owner[leaf] = m,
           leaf = root[m] \/ parent[leaf] # NULL,
           NEW k \in Keys, NEW v \in Values, InsertIntoLeaf(m, leaf, k, v)
    PROVE  IInv'
<1> DEFINE K == InsertAt(keys[leaf], InsertionIndex(keys[leaf], k) + 1, k)
           V == InsertAt(vals[leaf], InsertionIndex(keys[leaf], k) + 1, v)
<1>1. PICK n \in Nat :
        /\ n >= 1
        /\ leaf \in Slots
        /\ keys[leaf] \in Seq(Keys) /\ Len(keys[leaf]) = n
        /\ vals[leaf] \in Seq(Values) /\ Len(vals[leaf]) = n
        /\ parent[leaf] # NULL => n >= M \div 2
        /\ parent[leaf] = NULL => root[m] = leaf
    BY LeafData
<1>2. n < M
    BY <1>1 DEF InsertIntoLeaf, HasRoom
<1>3. K \in Seq(Keys) /\ Len(K) = n + 1 /\ V \in Seq(Values) /\ Len(V) = n + 1
    <2>1. InsertionIndex(keys[leaf], k) \in 0 .. n
        BY <1>1, IndexBounds
    <2>2. PICK i \in 1 .. n + 1 : i = InsertionIndex(keys[leaf], k) + 1
        BY <2>1
    <2>3. PICK q \in Seq(Keys), r \in Seq(Values) : q = keys[leaf] /\ r = vals[leaf]
        BY <1>1
    <2>4. Len(q) = n /\ Len(r) = n
        BY <1>1, <2>3
    <2>5. InsertAt(q, i, k) \in Seq(Keys) /\ Len(InsertAt(q, i, k)) = n + 1
        BY <2>4, InsertAtSeq
    <2>6. InsertAt(r, i, v) \in Seq(Values) /\ Len(InsertAt(r, i, v)) = n + 1
        BY <2>4, InsertAtSeq
    <2>7. QED
        BY <2>2, <2>3, <2>5, <2>6
<1>4. /\ keys' = [keys EXCEPT ![leaf] = K] /\ vals' = [vals EXCEPT ![leaf] = V]
      /\ length' = [length EXCEPT ![m] = @ + 1]
      /\ op' = Idle
      /\ UNCHANGED <<live, level, parent, parent_idx, edges, prev, next, root, height>>
    BY DEF InsertIntoLeaf
<1> HIDE DEF K, V
<1>5. /\ keys' \in [Slots -> Seq(Keys)] /\ keys'[leaf] = K
      /\ vals' \in [Slots -> Seq(Values)] /\ vals'[leaf] = V
      /\ \A s \in Slots \ {leaf} : keys'[s] = keys[s] /\ vals'[s] = vals[s]
    BY <1>1, <1>3, <1>4 DEF Local, DataTypes
<1>6. length' \in [Maps -> Int]
    BY <1>4 DEF Local, DataTypes
<1>7. PICK x \in Nat : x = n + 1 /\ x <= M /\ x # 0
    BY <1>2, MAssumption
<1>8. ~Underfull(x) \/ (parent[leaf] = NULL /\ x # 0)
    <2>1. M \div 2 \in Nat
        BY HalfOfM
    <2>2. QED
        BY <1>1, <1>7, <2>1 DEF Underfull
<1>9. QED
    BY <1>1, <1>3, <1>4, <1>5, <1>6, <1>7, <1>8, LeafChangeInv, SMTT(30)

\* replace_val and write_val
LEMMA WriteValInv ==
    ASSUME Local, NEW owner, Wiring(owner), RootsOwned(owner), op = Idle,
           NEW m \in Maps, root[m] # NULL,
           NEW leaf \in live, level[leaf] = 0, owner[leaf] = m,
           leaf = root[m] \/ parent[leaf] # NULL,
           NEW k \in Keys, NEW v \in Values, WriteVal(leaf, k, v)
    PROVE  IInv'
<1> DEFINE V == [vals[leaf] EXCEPT ![InsertionIndex(keys[leaf], k) + 1] = v]
<1>1. PICK n \in Nat :
        /\ n >= 1 /\ n <= M
        /\ leaf \in Slots
        /\ keys[leaf] \in Seq(Keys) /\ Len(keys[leaf]) = n
        /\ vals[leaf] \in Seq(Values) /\ Len(vals[leaf]) = n
        /\ parent[leaf] # NULL => n >= M \div 2
        /\ parent[leaf] = NULL => root[m] = leaf
    BY LeafData
<1>2. V \in Seq(Values) /\ Len(V) = n
    <2>1. PICK r \in Seq(Values) : r = vals[leaf]
        BY <1>1
    <2>2. \A j : [r EXCEPT ![j] = v] \in Seq(Values) /\ Len([r EXCEPT ![j] = v]) = Len(r)
        BY ExceptProperties
    <2>3. QED
        BY <1>1, <2>1, <2>2
<1>3. /\ vals' = [vals EXCEPT ![leaf] = V]
      /\ keys' = keys /\ length' = length /\ op' = Idle
      /\ UNCHANGED <<live, level, parent, parent_idx, edges, prev, next, root, height>>
    BY DEF WriteVal
<1> HIDE DEF V
<1>4. /\ keys' \in [Slots -> Seq(Keys)]
      /\ vals' \in [Slots -> Seq(Values)] /\ vals'[leaf] = V
      /\ \A s \in Slots \ {leaf} : keys'[s] = keys[s] /\ vals'[s] = vals[s]
      /\ length' \in [Maps -> Int]
    BY <1>1, <1>2, <1>3 DEF Local, DataTypes
<1>5. ~Underfull(n) \/ (parent[leaf] = NULL /\ n # 0)
    <2>1. M \div 2 \in Nat
        BY HalfOfM
    <2>2. QED
        BY <1>1, <2>1 DEF Underfull
<1>6. QED
    BY <1>1, <1>2, <1>3, <1>4, <1>5, LeafChangeInv

\* remove_val and the start of post_removal
LEMMA RemoveValInv ==
    ASSUME Local, NEW owner, Wiring(owner), RootsOwned(owner), op = Idle,
           NEW m \in Maps, root[m] # NULL,
           NEW leaf \in live, level[leaf] = 0, owner[leaf] = m,
           leaf = root[m] \/ parent[leaf] # NULL,
           NEW idx \in 0 .. Len(keys[leaf]) - 1, RemoveVal(m, leaf, idx)
    PROVE  IInv'
<1> DEFINE K == RemoveAt(keys[leaf], idx + 1)
           V == RemoveAt(vals[leaf], idx + 1)
<1>1. PICK n \in Nat :
        /\ n >= 1 /\ n <= M
        /\ leaf \in Slots
        /\ keys[leaf] \in Seq(Keys) /\ Len(keys[leaf]) = n
        /\ vals[leaf] \in Seq(Values) /\ Len(vals[leaf]) = n
        /\ parent[leaf] # NULL => n >= M \div 2
        /\ parent[leaf] = NULL => root[m] = leaf
    BY LeafData
<1>2. PICK x \in Nat : x = n - 1 /\ x <= M
    <2>1. n - 1 \in Nat /\ n - 1 <= n /\ M \in Nat
        BY <1>1, MAssumption
    <2>2. QED
        BY <1>1, <2>1
<1>3. K \in Seq(Keys) /\ Len(K) = x /\ V \in Seq(Values) /\ Len(V) = x
    <2>1. PICK i \in 1 .. n : i = idx + 1
        BY <1>1
    <2>2. PICK q \in Seq(Keys), r \in Seq(Values) : q = keys[leaf] /\ r = vals[leaf]
        BY <1>1
    <2>3. Len(q) = n /\ Len(r) = n
        BY <1>1, <2>2
    <2>4. RemoveAt(q, i) \in Seq(Keys) /\ Len(RemoveAt(q, i)) = n - 1
        BY ONLY <2>3, n \in Nat, i \in 1 .. n, q \in Seq(Keys), RemoveAtSeq
    <2>5. RemoveAt(r, i) \in Seq(Values) /\ Len(RemoveAt(r, i)) = n - 1
        BY ONLY <2>3, n \in Nat, i \in 1 .. n, r \in Seq(Values), RemoveAtSeq
    <2>6. QED
        BY <1>2, <2>1, <2>2, <2>4, <2>5
<1>4. /\ keys' = [keys EXCEPT ![leaf] = K] /\ vals' = [vals EXCEPT ![leaf] = V]
      /\ length' = [length EXCEPT ![m] = @ - 1]
      /\ op' = Rebalance(m, leaf, x, TRUE)
      /\ UNCHANGED <<live, level, parent, parent_idx, edges, prev, next, root, height>>
    BY <1>1, <1>2 DEF RemoveVal
<1> HIDE DEF K, V
<1>5. /\ keys' \in [Slots -> Seq(Keys)] /\ keys'[leaf] = K
      /\ vals' \in [Slots -> Seq(Values)] /\ vals'[leaf] = V
      /\ \A s \in Slots \ {leaf} : keys'[s] = keys[s] /\ vals'[s] = vals[s]
    BY <1>1, <1>3, <1>4 DEF Local, DataTypes
<1>6. length' \in [Maps -> Int]
    BY <1>4 DEF Local, DataTypes
<1>7. \/ op' = Idle /\ (~Underfull(x) \/ (parent[leaf] = NULL /\ x # 0))
      \/ /\ op' = [pc |-> "underflow", map |-> m, node |-> leaf, is_leaf |-> TRUE]
         /\ Underfull(x) /\ (parent[leaf] # NULL => x = M \div 2 - 1)
    <2>1. CASE Underfull(x)
        <3>1. op' = [pc |-> "underflow", map |-> m, node |-> leaf, is_leaf |-> TRUE]
            BY <1>4, <2>1 DEF Rebalance
        <3>2. PICK h \in Nat : h = M \div 2
            BY HalfOfM
        <3>3. parent[leaf] # NULL => x = h - 1
            BY <1>1, <1>2, <2>1, <3>2 DEF Underfull
        <3>4. QED
            BY <2>1, <3>1, <3>2, <3>3
    <2>2. CASE ~Underfull(x)
        BY <1>4, <2>2 DEF Rebalance
    <2>3. QED
        BY <2>1, <2>2
<1>8. Len(keys'[leaf]) = x /\ Len(vals'[leaf]) = x
    BY <1>3, <1>5
<1>9. /\ Local /\ Wiring(owner) /\ RootsOwned(owner) /\ op = Idle
      /\ m \in Maps /\ leaf \in live /\ level[leaf] = 0 /\ owner[leaf] = m
    OBVIOUS
<1>10. /\ parent[leaf] = NULL => root[m] = leaf
       /\ x \in Nat /\ x <= M
    BY <1>1, <1>2
<1>11. UNCHANGED <<live, level, parent, parent_idx, edges, prev, next, root, height>>
    BY <1>4
<1>12. QED
    BY ONLY <1>5, <1>6, <1>7, <1>8, <1>9, <1>10, <1>11, LeafChangeInv, SMTT(60)

-----------------------------------------------------------------------------
(***************************************************************************)
(* New nodes.                                                              *)
(***************************************************************************)

\* A blank slot becomes a leaf of map m that is in no parent yet.
LEMMA NewLeafWiring ==
    ASSUME Local, NEW owner, Wiring(owner), RootsOwned(owner), CanAlloc,
           NEW m \in Maps, NEW ow \in [Slots -> Maps], ow[Fresh] = m,
           \A s \in Slots \ {Fresh} : ow[s] = owner[s],
           live' = live \cup {Fresh},
           level' = level, parent' = parent, parent_idx' = parent_idx, edges' = edges
    PROVE  Wiring(ow)'
<1>1. PICK new \in Slots \ live : new = Fresh /\ level[new] = 0
    BY FreshData
<1>2. Forest(live, level, parent, parent_idx, edges, owner)
    BY DEF Wiring
<1>3. level \in [Slots -> Nat] /\ owner \in [Slots -> Maps]
    BY <1>2 DEF Forest
<1>4. PICK h \in Nat : h = 0
    OBVIOUS
<1>5. Forest(live \cup {new}, [level EXCEPT ![new] = h], parent, parent_idx, edges,
             [owner EXCEPT ![new] = m])
    BY ONLY <1>2, h \in Nat, m \in Maps, new \in Slots \ live, AddNode
<1>6. [level EXCEPT ![new] = h] = level
    BY <1>1, <1>3, <1>4
<1>7. [owner EXCEPT ![new] = m] = ow
    BY <1>1, <1>3
<1>8. Forest(live \cup {new}, level, parent, parent_idx, edges, ow)
    BY <1>5, <1>6, <1>7
<1>9. QED
    BY <1>1, <1>8 DEF Wiring

\* insert_root, after which the map's height is that of a leaf
LEMMA InsertRootInv ==
    ASSUME IInv, op = Idle, ReuseAfterClear = FALSE,
           NEW m \in Maps, NEW k \in Keys, NEW v \in Values, insert_root(m, k, v)
    PROVE  IInv'
<1> DEFINE new == Fresh
<1>1. PICK owner : Wiring(owner) /\ OpOwned(owner) /\ RootsOwned(owner)
    BY InvToForest
<1>2. Local
    BY InvToForest
<1>3. PICK ow \in [Slots -> Maps] :
        ow[new] = m /\ \A s \in Slots \ {new} : ow[s] = owner[s]
    <2>1. owner \in [Slots -> Maps]
        BY <1>1 DEF Wiring, Forest
    <2>2. [s \in Slots |-> IF s = new THEN m ELSE owner[s]] \in [Slots -> Maps]
        BY <2>1
    <2>3. new \in Slots
        BY <1>1, <1>2, FreshData DEF insert_root
    <2>4. QED
        BY <2>2, <2>3
<1>4. /\ root[m] = NULL /\ height[m] = 0 /\ CanAlloc
      /\ live' = live \cup {new}
      /\ keys' = [keys EXCEPT ![new] = <<k>>]
      /\ vals' = [vals EXCEPT ![new] = <<v>>]
      /\ root' = [root EXCEPT ![m] = new]
      /\ length' = [length EXCEPT ![m] = @ + 1]
      /\ level' = level /\ parent' = parent /\ parent_idx' = parent_idx /\ edges' = edges
      /\ prev' = prev /\ next' = next /\ height' = height /\ op' = Idle
    BY DEF insert_root
<1>5. /\ new \in Slots /\ new \notin live
      /\ edges[new] = <<>> /\ parent[new] = NULL /\ level[new] = 0
      /\ \A q \in Maps : root[q] # new
    BY <1>1, <1>2, <1>4, FreshData
<1>6. Wiring(ow)'
    BY <1>1, <1>2, <1>3, <1>4, NewLeafWiring
<1> HIDE DEF new
<1>7. live \subseteq Slots /\ NULL \notin Slots
    BY <1>1, SlotsAssumption DEF Wiring, Forest
<1>8. /\ keys' \in [Slots -> Seq(Keys)] /\ vals' \in [Slots -> Seq(Values)]
      /\ keys'[new] = <<k>> /\ vals'[new] = <<v>>
      /\ \A s \in Slots \ {new} : keys'[s] = keys[s] /\ vals'[s] = vals[s]
    <2>1. <<k>> \in Seq(Keys) /\ <<v>> \in Seq(Values)
        OBVIOUS
    <2>2. keys \in [Slots -> Seq(Keys)] /\ vals \in [Slots -> Seq(Values)]
        BY <1>2 DEF Local, DataTypes
    <2>3. QED
        BY <1>4, <1>5, <2>1, <2>2
<1>9. root' \in [Maps -> Slots \cup {NULL}] /\ root'[m] = new
      /\ \A q \in Maps \ {m} : root'[q] = root[q]
    BY <1>2, <1>4, <1>5 DEF Local, DataTypes
<1>10. DataTypes'
    <2>1. length' \in [Maps -> Int]
        BY <1>2, <1>4 DEF Local, DataTypes
    <2>2. op' \in {Idle} \cup OverflowOps \cup UnderflowOps
        BY <1>4
    <2>3. QED
        BY <1>2, <1>4, <1>8, <1>9, <2>1, <2>2 DEF Local, DataTypes
<1>11. DataBlank'
    BY <1>2, <1>4, <1>8 DEF Local, DataBlank
<1>12. NodeShape'
    <2>1. SUFFICES ASSUME NEW s \in Slots
                   PROVE  /\ Len(keys'[s]) <= M
                          /\ level[s] = 0 => edges[s] = <<>> /\ Len(vals'[s]) = Len(keys'[s])
                          /\ level[s] # 0 => vals'[s] = <<>> /\ Len(edges[s]) = Len(keys'[s]) + 1
        BY <1>4 DEF NodeShape
    <2>2. CASE s = new
        <3>1. Len(keys'[new]) = 1 /\ Len(vals'[new]) = 1
            BY <1>8
        <3>2. 1 <= M
            BY MAssumption
        <3>3. QED
            BY <1>5, <2>2, <3>1, <3>2
    <2>3. CASE s # new
        BY <1>2, <1>8, <2>3 DEF Local, NodeShape
    <2>4. QED
        BY <2>2, <2>3
<1>13. RootsAgree'
    <2>1. RootsAgree
        BY <1>2 DEF Local
    <2>2. ASSUME NEW q \in Maps, root'[q] # NULL
          PROVE  root'[q] \in live' /\ parent[root'[q]] = NULL /\ level[root'[q]] = height[q]
        <3>1. CASE q = m
            BY <1>4, <1>5, <1>9, <3>1
        <3>2. CASE q # m
            BY <1>4, <1>9, <2>1, <2>2, <3>2 DEF RootsAgree
        <3>3. QED
            BY <3>1, <3>2
    <2>3. ASSUME NEW q \in Maps, NEW r \in Maps, root'[q] # NULL, root'[q] = root'[r]
          PROVE  q = r
        BY <1>5, <1>9, <2>1, <2>3 DEF RootsAgree
    <2>4. QED
        BY <1>4, <2>2, <2>3 DEF RootsAgree
<1>14. keys'[new] # <<>>
    BY <1>8
<1>15. Occupancy'
    <2>1. SUFFICES ASSUME NEW s \in live', Underfull(Len(keys'[s]))
                   PROVE  parent[s] = NULL /\ (keys'[s] = <<>> => \A q \in Maps : root'[q] # s)
        BY <1>4 DEF Occupancy, Idle
    <2>2. CASE s = new
        BY <1>5, <1>14, <2>2
    <2>3. CASE s # new
        <3>1. s \in live /\ keys'[s] = keys[s]
            BY <1>4, <1>7, <1>8, <2>1, <2>3
        <3>2. parent[s] = NULL /\ (keys[s] = <<>> => \A q \in Maps : root[q] # s)
            BY <1>2, <2>1, <3>1 DEF Local, Occupancy, Idle
        <3>3. QED
            BY <1>9, <2>3, <3>1, <3>2
    <2>4. QED
        BY <2>2, <2>3
<1>16. PendingOverflow' /\ PendingUnderflow' /\ OpOwned(ow)'
    BY <1>4 DEF PendingOverflow, PendingUnderflow, OpOwned, Idle
<1>17. Orphans'
    <2>1. SUFFICES ASSUME NEW s \in live', parent[s] = NULL
                   PROVE  (\E q \in Maps : root'[q] = s) \/ (level[s] = 0 /\ keys'[s] = <<>>)
        BY <1>4 DEF Orphans
    <2>2. CASE s = new
        BY <1>9, <2>2
    <2>3. CASE s # new
        <3>1. s \in live /\ s \in Slots /\ keys'[s] = keys[s]
            BY <1>4, <1>7, <1>8, <2>1, <2>3
        <3>2. (\E q \in Maps : root[q] = s) \/ (level[s] = 0 /\ keys[s] = <<>>)
            BY <1>2, <2>1, <3>1 DEF Local, Orphans, Idle
        <3>3. root[m] # s
            BY <1>4, <1>7, <3>1
        <3>4. QED
            BY <1>9, <3>1, <3>2, <3>3
    <2>4. QED
        BY <2>2, <2>3
<1>18. RootsOwned(ow)'
    <2>1. SUFFICES ASSUME NEW q \in Maps, root'[q] # NULL PROVE ow[root'[q]] = q
        BY DEF RootsOwned
    <2>2. CASE q = m
        BY <1>3, <1>9, <2>2
    <2>3. CASE q # m
        <3>1. root'[q] = root[q] /\ root[q] \in Slots /\ root[q] # new
            BY <1>2, <1>5, <1>9, <2>1, <2>3 DEF Local, DataTypes
        <3>2. QED
            BY <1>1, <1>3, <2>1, <3>1 DEF RootsOwned
    <2>4. QED
        BY <2>2, <2>3
<1>19. QED
    BY <1>6, <1>10, <1>11, <1>12, <1>13, <1>15, <1>16, <1>17, <1>18,
       ForestToInvPrime DEF Local

\* The bound on a split leaves a slot for the right half.
LEMMA RoomForRight ==
    ASSUME Local, NEW owner, Wiring(owner), NEW m \in Maps, NEW leaf \in live,
           RoomToSplit(m, leaf)
    PROVE  CanAlloc
<1> DEFINE climb == [s \in Slots |-> IF parent[s] = NULL \/ HasRoom(Len(keys[parent[s]]))
                                     THEN s ELSE parent[s]]
           top == Repeat(climb, leaf)[height[m]]
<1>1. /\ parent \in [Slots -> Slots \cup {NULL}] /\ level \in [Slots -> Nat]
      /\ live \subseteq Slots
    BY DEF Wiring, Forest
<1>2. PICK h \in Nat : h = height[m]
    BY DEF Local, DataTypes
<1>3. PICK f : f = climb
    OBVIOUS
<1>4. \A s \in Slots : f[s] \in Slots
    BY <1>1, <1>3
<1>5. PICK G : G = [n \in Nat |-> Slots]
    OBVIOUS
<1>6. \A n \in 0 .. h : Repeat(f, leaf)[n] \in G[n]
    <2>1. leaf \in G[0]
        BY <1>1, <1>5
    <2>2. \A n \in Nat : n < h => \A y \in G[n] : f[y] \in G[n + 1]
        BY <1>4, <1>5
    <2>3. QED
        BY ONLY h \in Nat, <2>1, <2>2, WalkStays
<1>7. top \in Slots
    BY <1>2, <1>3, <1>5, <1>6
<1>8. Cardinality(Slots \ live) > level[top] + (IF parent[top] = NULL THEN 1 ELSE 0)
    BY DEF RoomToSplit
<1> HIDE DEF top
<1>9. level[top] \in Nat
    BY <1>1, <1>7
<1>10. Cardinality(Slots \ live) # 0
    BY <1>8, <1>9
<1>11. Cardinality({}) = 0
    BY FS_EmptySet
<1>12. Slots \ live # {}
    BY <1>10, <1>11
<1>13. QED
    BY <1>12 DEF CanAlloc

\* split_leaf: both halves have enough, and the right one waits for its parent.
LEMMA SplitLeafInv ==
    ASSUME Local, NEW owner, Wiring(owner), RootsOwned(owner), op = Idle,
           NEW m \in Maps, root[m] # NULL,
           NEW leaf \in live, level[leaf] = 0, owner[leaf] = m,
           leaf = root[m] \/ parent[leaf] # NULL,
           NEW k \in Keys, NEW v \in Values, SplitLeaf(m, leaf, k, v)
    PROVE  IInv'
<1> DEFINE ks == InsertAt(keys[leaf], InsertionIndex(keys[leaf], k) + 1, k)
           vs == InsertAt(vals[leaf], InsertionIndex(keys[leaf], k) + 1, v)
           right == Fresh
<1>1. PICK n \in Nat :
        /\ n <= M /\ leaf \in Slots
        /\ keys[leaf] \in Seq(Keys) /\ Len(keys[leaf]) = n
        /\ vals[leaf] \in Seq(Values) /\ Len(vals[leaf]) = n
        /\ edges[leaf] = <<>>
        /\ parent[leaf] = NULL => root[m] = leaf
    BY LeafData
<1>2. n = M /\ CanAlloc
    <2>1. ~HasRoom(Len(keys[leaf])) /\ RoomToSplit(m, leaf)
        BY DEF SplitLeaf
    <2>2. n = M
        BY <1>1, <2>1, MAssumption DEF HasRoom
    <2>3. QED
        BY <2>1, <2>2, RoomForRight
<1>3. /\ right \in Slots /\ right \notin live
      /\ edges[right] = <<>> /\ parent[right] = NULL /\ level[right] = 0
      /\ \A q \in Maps : root[q] # right
    BY <1>2, FreshData
<1>4. PICK h \in Nat : h >= 1 /\ M = h + h /\ M \div 2 = h
    BY HalfOfM
<1>5. /\ ks \in Seq(Keys) /\ Len(ks) = M + 1
      /\ vs \in Seq(Values) /\ Len(vs) = M + 1
    <2>1. InsertionIndex(keys[leaf], k) \in 0 .. n
        BY <1>1, IndexBounds
    <2>2. PICK i \in 1 .. n + 1 : i = InsertionIndex(keys[leaf], k) + 1
        BY <2>1
    <2>3. PICK q \in Seq(Keys), r \in Seq(Values) : q = keys[leaf] /\ r = vals[leaf]
        BY <1>1
    <2>4. Len(q) = n /\ Len(r) = n
        BY <1>1, <2>3
    <2>5. InsertAt(q, i, k) \in Seq(Keys) /\ Len(InsertAt(q, i, k)) = n + 1
        BY <2>4, InsertAtSeq, SMTT(30)
    <2>6. InsertAt(r, i, v) \in Seq(Values) /\ Len(InsertAt(r, i, v)) = n + 1
        BY <2>4, InsertAtSeq
    <2>7. QED
        BY <1>2, <2>2, <2>3, <2>5, <2>6
<1>6. /\ live' = live \cup {right}
      /\ keys' = [keys EXCEPT ![leaf] = LeafLeft(ks), ![right] = LeafRight(ks)]
      /\ vals' = [vals EXCEPT ![leaf] = LeafLeft(vs), ![right] = LeafRight(vs)]
      /\ next' = [next EXCEPT ![leaf] = right, ![right] = next[leaf]]
      /\ prev' = SetLink([prev EXCEPT ![right] = leaf], next[leaf], right)
      /\ op' = [pc |-> "overflow", map |-> m, node |-> leaf, right |-> right,
                key |-> LeafSplitKey(ks)]
      /\ level' = level /\ parent' = parent /\ parent_idx' = parent_idx /\ edges' = edges
      /\ root' = root /\ height' = height /\ length' = length
    BY DEF SplitLeaf
<1>7. PICK ow \in [Slots -> Maps] :
        ow[right] = m /\ \A s \in Slots \ {right} : ow[s] = owner[s]
    <2>1. owner \in [Slots -> Maps]
        BY DEF Wiring, Forest
    <2>2. [s \in Slots |-> IF s = right THEN m ELSE owner[s]] \in [Slots -> Maps]
        BY <2>1
    <2>3. QED
        BY <1>3, <2>2
<1>8. Wiring(ow)'
    BY <1>2, <1>6, <1>7, NewLeafWiring
<1> HIDE DEF ks, vs, right
<1>9. /\ LeafLeft(ks) \in Seq(Keys) /\ Len(LeafLeft(ks)) = h
      /\ LeafRight(ks) \in Seq(Keys) /\ Len(LeafRight(ks)) = h + 1
      /\ LeafSplitKey(ks) \in Keys
      /\ LeafLeft(vs) \in Seq(Values) /\ Len(LeafLeft(vs)) = h
      /\ LeafRight(vs) \in Seq(Values) /\ Len(LeafRight(vs)) = h + 1
    BY <1>4, <1>5, LeafHalves
<1>10. live \subseteq Slots /\ NULL \notin Slots /\ leaf # right
    BY <1>3, SlotsAssumption DEF Wiring, Forest
<1>11. /\ keys' \in [Slots -> Seq(Keys)] /\ vals' \in [Slots -> Seq(Values)]
       /\ keys'[leaf] = LeafLeft(ks) /\ keys'[right] = LeafRight(ks)
       /\ vals'[leaf] = LeafLeft(vs) /\ vals'[right] = LeafRight(vs)
       /\ \A s \in Slots \ {leaf, right} : keys'[s] = keys[s] /\ vals'[s] = vals[s]
    <2>1. keys \in [Slots -> Seq(Keys)] /\ vals \in [Slots -> Seq(Values)]
        BY DEF Local, DataTypes
    <2>2. QED
        BY <1>1, <1>3, <1>6, <1>9, <1>10, <2>1
<1>12. op' \in OverflowOps
    BY <1>1, <1>3, <1>6, <1>9 DEF OverflowOps
<1>13. DataTypes'
    <2>1. prev \in [Slots -> Slots \cup {NULL}] /\ next \in [Slots -> Slots \cup {NULL}]
        BY DEF Local, DataTypes
    <2>2. next' \in [Slots -> Slots \cup {NULL}]
        BY <1>1, <1>3, <1>6, <2>1
    <2>3. PICK q \in [Slots -> Slots \cup {NULL}] : q = [prev EXCEPT ![right] = leaf]
        BY <1>1, <2>1
    <2>4. prev' = SetLink(q, next[leaf], right)
        BY <1>6, <2>3
    <2>5. prev' \in [Slots -> Slots \cup {NULL}]
        BY <1>3, <2>4 DEF SetLink
    <2>6. QED
        BY <1>6, <1>11, <1>12, <2>2, <2>5 DEF Local, DataTypes
<1>14. DataBlank'
    BY <1>6, <1>11 DEF Local, DataBlank
<1>15. NodeShape'
    <2>1. SUFFICES ASSUME NEW s \in Slots
                   PROVE  /\ Len(keys'[s]) <= M
                          /\ level[s] = 0 => edges[s] = <<>> /\ Len(vals'[s]) = Len(keys'[s])
                          /\ level[s] # 0 => vals'[s] = <<>> /\ Len(edges[s]) = Len(keys'[s]) + 1
        BY <1>6 DEF NodeShape
    <2>2. h <= M /\ h + 1 <= M
        BY <1>4
    <2>3. CASE s = leaf
        BY <1>1, <1>9, <1>11, <2>2, <2>3
    <2>4. CASE s = right
        BY <1>3, <1>9, <1>11, <2>2, <2>4
    <2>5. CASE s # leaf /\ s # right
        BY <1>11, <2>5 DEF Local, NodeShape
    <2>6. QED
        BY <2>3, <2>4, <2>5
<1>16. RootsAgree'
    BY <1>6 DEF Local, RootsAgree
<1>17. ~Underfull(Len(keys'[leaf])) /\ ~Underfull(Len(keys'[right]))
    BY <1>4, <1>9, <1>11 DEF Underfull
<1>18. /\ op'.pc = "overflow" /\ op'.map = m /\ op'.node = leaf /\ op'.right = right
    BY <1>6
<1>19. Occupancy'
    <2>1. SUFFICES ASSUME NEW s \in live', Underfull(Len(keys'[s]))
                   PROVE  /\ parent[s] = NULL /\ s # right
                          /\ keys'[s] = <<>> => \A q \in Maps : root[q] # s
        BY <1>6, <1>18 DEF Occupancy
    <2>2. s # leaf /\ s # right
        BY <1>17, <2>1
    <2>3. s \in live /\ keys'[s] = keys[s]
        BY <1>6, <1>10, <1>11, <2>1, <2>2
    <2>4. QED
        BY <2>1, <2>2, <2>3 DEF Local, Occupancy, Idle
<1>20. PendingOverflow'
    BY <1>1, <1>3, <1>6, <1>10, <1>17, <1>18 DEF PendingOverflow
<1>21. PendingUnderflow'
    BY <1>18 DEF PendingUnderflow
<1>22. Orphans'
    <2>1. SUFFICES ASSUME NEW s \in live', parent[s] = NULL, s # right
                   PROVE  (\E q \in Maps : root[q] = s) \/ (level[s] = 0 /\ keys'[s] = <<>>)
        BY <1>6, <1>18 DEF Orphans
    <2>2. CASE s = leaf
        BY <1>1, <2>1, <2>2
    <2>3. CASE s # leaf
        <3>1. s \in live /\ keys'[s] = keys[s]
            BY <1>6, <1>10, <1>11, <2>1, <2>3
        <3>2. QED
            BY <2>1, <3>1 DEF Local, Orphans, Idle
    <2>4. QED
        BY <2>2, <2>3
<1>23. OpOwned(ow)'
    BY <1>1, <1>7, <1>10, <1>18 DEF OpOwned
<1>24. RootsOwned(ow)'
    <2>1. \A q \in Maps : root[q] # NULL => root[q] \in Slots /\ root[q] # right
        BY <1>3 DEF Local, DataTypes
    <2>2. QED
        BY <1>6, <1>7, <2>1 DEF RootsOwned
<1>25. QED
    BY <1>8, <1>13, <1>14, <1>15, <1>16, <1>19, <1>20, <1>21, <1>22, <1>23, <1>24,
       ForestToInvPrime DEF Local

-----------------------------------------------------------------------------
(***************************************************************************)
(* All nodes of a map given back.                                          *)
(***************************************************************************)

\* The nodes drop_node_ptr visits are a tree of the forest: its root and all
\* descendants of the root, every one the map's.
LEMMA TreeData ==
    ASSUME Local, NEW owner, Wiring(owner), RootsOwned(owner),
           NEW m \in Maps, root[m] # NULL
    PROVE  /\ TreeOf(m) \subseteq live
           /\ root[m] \in TreeOf(m)
           /\ \A s \in TreeOf(m) : owner[s] = m
           /\ \A s \in live : parent[s] # NULL => (s \in TreeOf(m) <=> parent[s] \in TreeOf(m))
<1>1. PICK h \in Nat : h = height[m]
    BY DEF Local, DataTypes
<1>2. PICK r \in live : r = root[m] /\ parent[r] = NULL /\ level[r] = h /\ owner[r] = m
    BY <1>1 DEF Local, RootsAgree, RootsOwned
<1>3. Forest(live, level, parent, parent_idx, edges, owner) /\ live \subseteq Slots
    BY DEF Wiring, Forest
<1>4. PICK step : step = [S \in SUBSET Slots |-> Children(S)]
    OBVIOUS
<1>5. PICK D : D = Repeat(step, {r})
    OBVIOUS
<1>6. D[0] = {r} /\ \A n \in Nat : D[n + 1] = step[D[n]]
    BY <1>5, RepeatDef
<1>7. TreeOf(m) = UNION {D[n] : n \in 0 .. h}
    <2>1. Subtree(root[m], height[m]) = UNION {Repeat(step, {r})[n] : n \in 0 .. h}
        BY <1>1, <1>2, <1>4 DEF Subtree
    <2>2. QED
        BY <1>5, <2>1 DEF TreeOf
<1>8. PICK G : G = [n \in Nat |-> {S \in SUBSET live : \A s \in S : level[s] = h - n /\ owner[s] = m}]
    OBVIOUS
<1>9. \A s \in Slots : \A c \in ToSet(edges[s]) :
        /\ s \in live /\ c \in live /\ parent[c] = s
        /\ level[c] = level[s] - 1 /\ owner[c] = owner[s]
    <2>1. SUFFICES ASSUME NEW s \in Slots, NEW c \in ToSet(edges[s])
                   PROVE  /\ s \in live /\ c \in live /\ parent[c] = s
                          /\ level[c] = level[s] - 1 /\ owner[c] = owner[s]
        OBVIOUS
    <2>2. PICK i \in DOMAIN edges[s] : c = edges[s][i]
        BY DEF ToSet
    <2>3. QED
        BY <1>3, <2>2, ForestChild
<1>10. \A n \in 0 .. h : D[n] \in G[n]
    <2>1. {r} \in G[0]
        BY <1>2, <1>8
    <2>2. ASSUME NEW n \in Nat, n < h, NEW S \in G[n]
          PROVE  step[S] \in G[n + 1]
        <3>1. S \in SUBSET live /\ \A s \in S : level[s] = h - n /\ owner[s] = m
            BY <1>8, <2>2
        <3>2. step[S] = Children(S)
            BY <1>3, <1>4, <3>1
        <3>3. ASSUME NEW c \in Children(S)
              PROVE  c \in live /\ level[c] = h - (n + 1) /\ owner[c] = m
            <4>1. PICK s \in S : c \in ToSet(edges[s])
                BY <3>3 DEF Children
            <4>2. c \in live /\ level[c] = (h - n) - 1 /\ owner[c] = m
                BY <1>3, <1>9, <3>1, <4>1
            <4>3. QED
                BY <4>2
        <3>4. QED
            BY <1>8, <3>2, <3>3
    <2>3. \A n \in Nat : n < h => \A S \in G[n] : step[S] \in G[n + 1]
        BY <2>2
    <2>4. QED
        BY ONLY h \in Nat, <1>5, <2>1, <2>3, WalkStays
<1>11. \A n \in 0 .. h : D[n] \subseteq live /\ \A s \in D[n] : level[s] = h - n /\ owner[s] = m
    BY <1>8, <1>10
<1>12. TreeOf(m) \subseteq live /\ \A s \in TreeOf(m) : owner[s] = m
    BY <1>7, <1>11
<1>13. root[m] \in TreeOf(m)
    BY <1>2, <1>6, <1>7
<1>14. ASSUME NEW s \in live, parent[s] # NULL, s \in TreeOf(m)
       PROVE  parent[s] \in TreeOf(m)
    <2>1. PICK n \in 0 .. h : s \in D[n]
        BY <1>7, <1>14
    <2>2. n # 0
        BY <1>2, <1>6, <1>14, <2>1
    <2>3. PICK k \in 0 .. h : n = k + 1
        <3>1. n - 1 \in 0 .. h /\ n = (n - 1) + 1
            BY <2>2
        <3>2. QED
            BY <3>1
    <2>4. s \in Children(D[k])
        <3>1. D[n] = step[D[k]]
            BY <1>6, <2>3
        <3>2. D[k] \in SUBSET Slots
            BY <1>3, <1>11
        <3>3. QED
            BY <1>4, <2>1, <3>1, <3>2
    <2>5. PICK q \in D[k] : s \in ToSet(edges[q])
        BY <2>4 DEF Children
    <2>6. parent[s] = q
        BY <1>3, <1>9, <1>11, <2>5
    <2>7. QED
        BY <1>7, <2>5, <2>6
<1>15. ASSUME NEW s \in live, parent[s] # NULL, parent[s] \in TreeOf(m)
       PROVE  s \in TreeOf(m)
    <2>1. PICK n \in 0 .. h : parent[s] \in D[n]
        BY <1>7, <1>15
    <2>2. parent[s] \in Slots /\ level[parent[s]] = h - n
        BY <1>3, <1>11, <2>1
    <2>3. s \in ToSet(edges[parent[s]])
        BY <1>3, <2>2, EdgesAre
    <2>4. level[s] = (h - n) - 1 /\ level[s] \in Nat
        BY <1>3, <1>9, <2>2, <2>3 DEF Forest
    <2>5. n + 1 \in 0 .. h
        BY <2>4
    <2>6. s \in D[n + 1]
        <3>1. s \in Children(D[n])
            BY <2>1, <2>3 DEF Children
        <3>2. D[n] \in SUBSET Slots
            BY <1>3, <1>11
        <3>3. QED
            BY <1>4, <1>6, <3>1, <3>2
    <2>7. QED
        BY <1>7, <2>5, <2>6
<1>16. QED
    BY <1>12, <1>13, <1>14, <1>15

\* Parent pointers lead up only so far: a node that has a parent is in the
\* tree of a map.  Were it in none, neither would be its parent, which has a
\* parent of its own; but the levels rise on the way and the slots are finite.
LEMMA ChildrenReached ==
    ASSUME Local, NEW owner, Wiring(owner), RootsOwned(owner), op = Idle,
           NEW s \in live, parent[s] # NULL
    PROVE  \E m \in Maps : s \in TreeOf(m)
<1> DEFINE trees == UNION {TreeOf(m) : m \in Maps}
<1>1. SUFFICES ASSUME s \notin trees PROVE FALSE
    OBVIOUS
<1>2. Forest(live, level, parent, parent_idx, edges, owner)
    BY DEF Wiring
<1>3. live \subseteq Slots /\ level \in [Slots -> Nat]
    BY <1>2 DEF Forest
<1>4. PICK N \in Nat, l \in Nat : N = Cardinality(Slots) /\ l = level[s]
    BY <1>3, FS_CardinalityType, SlotsAssumption
<1>5. PICK up : up = [c \in Slots |-> parent[c]]
    OBVIOUS
<1>6. PICK G : G = [n \in Nat |-> {c \in live : /\ c \notin trees /\ parent[c] # NULL
                                                /\ level[c] = l + n}]
    OBVIOUS
<1>7. s \in G[0]
    BY <1>1, <1>4, <1>6
<1>8. ASSUME NEW n \in Nat, NEW c \in G[n]
      PROVE  up[c] \in G[n + 1]
    <2>1. c \in live /\ c \notin trees /\ parent[c] # NULL /\ level[c] = l + n
        BY <1>6
    <2>2. PICK p \in live : p = parent[c] /\ up[c] = p /\ level[p] \in Nat
        BY <1>2, <1>3, <1>5, <2>1, ForestParent
    <2>3. level[c] = level[p] - 1
        BY <1>2, <1>3, <2>1, <2>2, ForestParent
    <2>4. level[p] = l + (n + 1) /\ level[p] # 0
        BY <2>1, <2>2, <2>3
    <2>5. \A m \in Maps : TreeOf(m) # {} => root[m] # NULL
        BY DEF TreeOf
    <2>6. p \notin trees
        <3>1. SUFFICES ASSUME NEW m \in Maps, p \in TreeOf(m) PROVE FALSE
            OBVIOUS
        <3>2. c \in TreeOf(m)
            BY <2>1, <2>2, <2>5, <3>1, TreeData
        <3>3. QED
            BY <2>1, <3>2
    <2>7. parent[p] # NULL
        <3>1. SUFFICES ASSUME parent[p] = NULL PROVE FALSE
            OBVIOUS
        <3>2. PICK m \in Maps : root[m] = p
            BY <2>4, <3>1 DEF Local, Orphans, Idle
        <3>3. p # NULL
            BY <1>3, SlotsAssumption
        <3>4. p \in TreeOf(m)
            BY <3>2, <3>3, TreeData
        <3>5. QED
            BY <2>6, <3>4
    <2>8. QED
        BY <1>6, <2>2, <2>4, <2>6, <2>7
<1>9. \A n \in 0 .. N : Repeat(up, s)[n] \in G[n]
    <2>1. \A n \in Nat : n < N => \A c \in G[n] : up[c] \in G[n + 1]
        BY <1>8
    <2>2. QED
        BY ONLY N \in Nat, <1>7, <2>1, WalkStays
<1>10. \A n \in 0 .. N : Repeat(up, s)[n] \in Slots /\ level[Repeat(up, s)[n]] = l + n
    BY <1>3, <1>6, <1>9
<1>11. PICK f \in [0 .. N -> Slots] : \A n \in 0 .. N : level[f[n]] = l + n
    <2>1. [n \in 0 .. N |-> Repeat(up, s)[n]] \in [0 .. N -> Slots]
        BY <1>10
    <2>2. QED
        BY <1>10, <2>1
<1>12. IsFiniteSet(0 .. N) /\ Cardinality(0 .. N) = N + 1
    BY FS_Interval
<1>13. PICK x, y \in 0 .. N : x # y /\ f[x] = f[y]
    <2>1. Cardinality(Slots) < Cardinality(0 .. N)
        BY <1>4, <1>12
    <2>2. QED
        BY ONLY <1>12, <2>1, SlotsAssumption, f \in [0 .. N -> Slots], FS_PigeonHole
<1>14. QED
    BY <1>11, <1>13

\* clear and Drop
LEMMA DropNodesInv ==
    ASSUME IInv, op = Idle, NEW m \in Maps, DropNodes(m),
           root' = [root EXCEPT ![m] = NULL],
           height' \in [Maps -> Nat], \A q \in Maps \ {m} : height'[q] = height[q],
           length' \in [Maps -> Int], op' = op
    PROVE  IInv'
<1>1. PICK owner : Wiring(owner) /\ OpOwned(owner) /\ RootsOwned(owner)
    BY InvToForest
<1>2. Local
    BY InvToForest
<1>3. PICK gone : gone = TreeOf(m)
    OBVIOUS
<1>4. /\ gone \subseteq live
      /\ \A s \in gone : owner[s] = m
      /\ root[m] # NULL => root[m] \in gone
      /\ \A s \in live : parent[s] # NULL => (s \in gone <=> parent[s] \in gone)
    <2>1. CASE root[m] = NULL
        BY <1>3, <2>1 DEF TreeOf
    <2>2. CASE root[m] # NULL
        BY <1>1, <1>2, <1>3, <2>2, TreeData
    <2>3. QED
        BY <2>1, <2>2
<1>5. /\ live' = live \ gone
      /\ level' = Wiped(level, gone, 0)
      /\ parent' = Wiped(parent, gone, NULL)
      /\ parent_idx' = Wiped(parent_idx, gone, -1)
      /\ keys' = Wiped(keys, gone, <<>>)
      /\ vals' = Wiped(vals, gone, <<>>)
      /\ edges' = Wiped(edges, gone, <<>>)
      /\ prev' = Wiped(prev, gone, NULL)
      /\ next' = Wiped(next, gone, NULL)
    BY <1>3 DEF DropNodes, GiveBack, Uninit
<1>6. Forest(live, level, parent, parent_idx, edges, owner)
    BY <1>1 DEF Wiring
<1>7. /\ live \subseteq Slots /\ parent_idx \in [Slots -> Nat \cup {-1}]
      /\ parent \in [Slots -> Slots \cup {NULL}] /\ level \in [Slots -> Nat]
      /\ edges \in [Slots -> Seq(Slots)] /\ NULL \notin Slots
    BY <1>6, SlotsAssumption DEF Forest
<1>8. Wiring(owner)'
    <2>1. gone \in SUBSET Slots
        BY <1>4, <1>7
    <2>2. parent_idx' \in [Slots -> Nat \cup {-1}]
        BY <1>5, <1>7 DEF Wiped
    <2>3. \A s \in Slots \ gone : parent_idx'[s] = parent_idx[s]
        BY <1>5 DEF Wiped
    <2>4. PICK pix2 \in [Slots -> Nat \cup {-1}] :
            pix2 = parent_idx' /\ \A s \in Slots \ gone : pix2[s] = parent_idx[s]
        BY <2>2, <2>3
    <2>5. Forest(live \ gone, Wiped(level, gone, 0), Wiped(parent, gone, NULL), pix2,
                 Wiped(edges, gone, <<>>), owner)
        BY ONLY <1>4, <1>6, <2>1, <2>4, pix2 \in [Slots -> Nat \cup {-1}], Discard
    <2>6. QED
        BY <1>5, <2>4, <2>5 DEF Wiring
<1>9. \A s \in Slots \ gone :
        /\ keys'[s] = keys[s] /\ vals'[s] = vals[s] /\ edges'[s] = edges[s]
        /\ parent'[s] = parent[s] /\ level'[s] = level[s]
    BY <1>5 DEF Wiped
<1>10. \A s \in gone : keys'[s] = <<>> /\ vals'[s] = <<>> /\ edges'[s] = <<>> /\ level'[s] = 0
    BY <1>4, <1>5, <1>7 DEF Wiped
<1>11. root' \in [Maps -> Slots \cup {NULL}] /\ root'[m] = NULL
       /\ \A q \in Maps \ {m} : root'[q] = root[q]
    BY <1>2 DEF Local, DataTypes
<1>12. \A q \in Maps \ {m} : root[q] # NULL => root[q] \notin gone
    BY <1>1, <1>4 DEF RootsOwned
<1>13. DataTypes'
    <2>1. /\ keys \in [Slots -> Seq(Keys)] /\ vals \in [Slots -> Seq(Values)]
          /\ prev \in [Slots -> Slots \cup {NULL}] /\ next \in [Slots -> Slots \cup {NULL}]
        BY <1>2 DEF Local, DataTypes
    <2>2. keys' \in [Slots -> Seq(Keys)]
        <3>1. <<>> \in Seq(Keys)
            OBVIOUS
        <3>2. QED
            BY <1>5, <2>1, <3>1 DEF Wiped
    <2>3. vals' \in [Slots -> Seq(Values)]
        <3>1. <<>> \in Seq(Values)
            OBVIOUS
        <3>2. QED
            BY <1>5, <2>1, <3>1 DEF Wiped
    <2>4. prev' \in [Slots -> Slots \cup {NULL}] /\ next' \in [Slots -> Slots \cup {NULL}]
        BY <1>5, <2>1 DEF Wiped
    <2>5. QED
        BY <1>11, <2>2, <2>3, <2>4 DEF DataTypes
<1>14. DataBlank'
    <2>1. DataBlank
        BY <1>2 DEF Local
    <2>2. SUFFICES ASSUME NEW s \in Slots, s \notin live'
                   PROVE  keys'[s] = <<>> /\ vals'[s] = <<>>
        BY DEF DataBlank
    <2>3. CASE s \in gone
        BY <1>10, <2>3
    <2>4. CASE s \notin gone
        BY <1>5, <1>9, <2>1, <2>2, <2>4 DEF DataBlank
    <2>5. QED
        BY <2>3, <2>4
<1>15. NodeShape'
    <2>1. NodeShape
        BY <1>2 DEF Local
    <2>2. SUFFICES ASSUME NEW s \in Slots
                   PROVE  /\ Len(keys'[s]) <= M
                          /\ level'[s] = 0 => edges'[s] = <<>> /\ Len(vals'[s]) = Len(keys'[s])
                          /\ level'[s] # 0 => vals'[s] = <<>> /\ Len(edges'[s]) = Len(keys'[s]) + 1
        BY DEF NodeShape
    <2>3. CASE s \in gone
        <3>1. Len(<<>>) = 0 /\ 0 <= M
            BY MAssumption
        <3>2. QED
            BY <1>10, <2>3, <3>1
    <2>4. CASE s \notin gone
        BY <1>9, <2>1, <2>4 DEF NodeShape
    <2>5. QED
        BY <2>3, <2>4
<1>16. RootsAgree'
    <2>1. RootsAgree
        BY <1>2 DEF Local
    <2>2. ASSUME NEW q \in Maps, root'[q] # NULL
          PROVE  root'[q] \in live' /\ parent'[root'[q]] = NULL /\ level'[root'[q]] = height'[q]
        <3>1. q # m /\ root'[q] = root[q] /\ root[q] \notin gone
            BY <1>11, <1>12, <2>2
        <3>2. root[q] \in live /\ parent[root[q]] = NULL /\ level[root[q]] = height[q]
            BY <2>1, <2>2, <3>1 DEF RootsAgree
        <3>3. QED
            BY <1>5, <1>7, <1>9, <3>1, <3>2
    <2>3. ASSUME NEW q \in Maps, NEW r \in Maps, root'[q] # NULL, root'[q] = root'[r]
          PROVE  q = r
        BY <1>11, <2>1, <2>3 DEF RootsAgree
    <2>4. QED
        BY <2>2, <2>3 DEF RootsAgree
<1>17. \A s \in live' : s \in live /\ s \in Slots \ gone
    BY <1>5, <1>7
<1>18. Occupancy'
    <2>1. Occupancy
        BY <1>2 DEF Local
    <2>2. SUFFICES ASSUME NEW s \in live', Underfull(Len(keys'[s]))
                   PROVE  parent'[s] = NULL /\ (keys'[s] = <<>> => \A q \in Maps : root'[q] # s)
        BY DEF Occupancy, Idle
    <2>3. parent[s] = NULL /\ (keys[s] = <<>> => \A q \in Maps : root[q] # s)
        BY <1>9, <1>17, <2>1, <2>2 DEF Occupancy, Idle
    <2>4. QED
        BY <1>7, <1>9, <1>11, <1>17, <2>3
<1>19. PendingOverflow' /\ PendingUnderflow' /\ OpOwned(owner)'
    BY DEF PendingOverflow, PendingUnderflow, OpOwned, Idle
<1>20. Orphans'
    <2>1. SUFFICES ASSUME NEW s \in live', parent'[s] = NULL
                   PROVE  (\E q \in Maps : root'[q] = s) \/ (level'[s] = 0 /\ keys'[s] = <<>>)
        BY DEF Orphans
    <2>2. parent[s] = NULL
        BY <1>9, <1>17, <2>1
    <2>3. (\E q \in Maps : root[q] = s) \/ (level[s] = 0 /\ keys[s] = <<>>)
        BY <1>2, <1>17, <2>2 DEF Local, Orphans, Idle
    <2>4. ASSUME NEW q \in Maps, root[q] = s PROVE root'[q] = s
        BY <1>4, <1>7, <1>11, <1>17, <2>4
    <2>5. QED
        BY <1>9, <1>17, <2>3, <2>4
<1>21. RootsOwned(owner)'
    BY <1>1, <1>11 DEF RootsOwned
<1>22. QED
    BY <1>8, <1>13, <1>14, <1>15, <1>16, <1>18, <1>19, <1>20, <1>21, ForestToInvPrime DEF Local

-----------------------------------------------------------------------------
(***************************************************************************)
(* The calls.                                                              *)
(***************************************************************************)

\* insert_before at the leaf a key belongs into
LEMMA InsertBeforeInv ==
    ASSUME IInv, NEW m \in Maps, NEW k \in Keys, NEW v \in Values, Found(m),
           insert_before(m, FindLeaf(m, k), k, v)
    PROVE  IInv'
<1>1. PICK owner : Wiring(owner) /\ OpOwned(owner) /\ RootsOwned(owner)
    BY InvToForest
<1>2. Local /\ op = Idle /\ root[m] # NULL
    BY InvToForest DEF Found
<1>3. PICK leaf \in live : /\ leaf = FindLeaf(m, k)
                           /\ level[leaf] = 0 /\ owner[leaf] = m
                           /\ leaf = root[m] \/ parent[leaf] # NULL
    BY <1>1, <1>2, FindLeafEnds
<1>4. CASE InsertIntoLeaf(m, leaf, k, v)
    BY <1>1, <1>2, <1>3, <1>4, InsertIntoLeafInv
<1>5. CASE SplitLeaf(m, leaf, k, v)
    BY <1>1, <1>2, <1>3, <1>5, SplitLeafInv
<1>6. QED
    BY <1>3, <1>4, <1>5 DEF insert_before

\* insert
LEMMA InsertInv ==
    ASSUME IInv, ReuseAfterClear = FALSE,
           NEW m \in Maps, NEW k \in Keys, NEW v \in Values, insert(m, k, v)
    PROVE  IInv'
<1>1. CASE op = Idle /\ insert_root(m, k, v)
    BY <1>1, InsertRootInv
<1>2. CASE Found(m) /\ insert_before(m, FindLeaf(m, k), k, v)
    BY <1>2, InsertBeforeInv
<1>3. CASE Found(m) /\ WriteVal(FindLeaf(m, k), k, v)
    <2>1. PICK owner : Wiring(owner) /\ OpOwned(owner) /\ RootsOwned(owner)
        BY InvToForest
    <2>2. Local /\ op = Idle /\ root[m] # NULL
        BY <1>3, InvToForest DEF Found
    <2>3. PICK leaf \in live : /\ leaf = FindLeaf(m, k)
                               /\ level[leaf] = 0 /\ owner[leaf] = m
                               /\ leaf = root[m] \/ parent[leaf] # NULL
        BY <2>1, <2>2, FindLeafEnds
    <2>4. QED
        BY <1>3, <2>1, <2>2, <2>3, WriteValInv
<1>4. QED
    BY <1>1, <1>2, <1>3 DEF insert

\* get_or_insert
LEMMA GetOrInsertInv ==
    ASSUME IInv, ReuseAfterClear = FALSE,
           NEW m \in Maps, NEW k \in Keys, NEW v \in Values, get_or_insert(m, k, v)
    PROVE  IInv'
<1>1. CASE op = Idle /\ insert_root(m, k, v)
    BY <1>1, InsertRootInv
<1>2. CASE Found(m) /\ insert_before(m, FindLeaf(m, k), k, v)
    BY <1>2, InsertBeforeInv
<1>3. QED
    BY <1>1, <1>2 DEF get_or_insert

\* remove_key_value
LEMMA RemoveInv ==
    ASSUME IInv, NEW m \in Maps, NEW k \in Keys, remove_key_value(m, k)
    PROVE  IInv'
<1>1. PICK owner : Wiring(owner) /\ OpOwned(owner) /\ RootsOwned(owner)
    BY InvToForest
<1>2. Local /\ op = Idle /\ root[m] # NULL
    BY InvToForest DEF remove_key_value, Found
<1>3. PICK leaf \in live : /\ leaf = FindLeaf(m, k)
                           /\ level[leaf] = 0 /\ owner[leaf] = m
                           /\ leaf = root[m] \/ parent[leaf] # NULL
    BY <1>1, <1>2, FindLeafEnds
<1>4. k \in ToSet(keys[leaf]) /\ RemoveVal(m, leaf, InsertionIndex(keys[leaf], k))
    BY <1>3 DEF remove_key_value, IsAt
<1>5. PICK n \in Nat : keys[leaf] \in Seq(Keys) /\ Len(keys[leaf]) = n
    BY <1>1, <1>2, <1>3, LeafData
<1>6. k \in Int
    BY KeysAssumption
<1>7. InsertionIndex(keys[leaf], k) \in 0 .. n - 1
    BY <1>4, <1>5, <1>6, IndexBounds
<1>8. PICK idx \in 0 .. Len(keys[leaf]) - 1 : idx = InsertionIndex(keys[leaf], k)
    BY <1>5, <1>7
<1>9. RemoveVal(m, leaf, idx)
    BY <1>4, <1>8
<1>10. QED
    BY <1>1, <1>2, <1>3, <1>9, RemoveValInv

\* pop_first
LEMMA PopFirstInv ==
    ASSUME IInv, NEW m \in Maps, pop_first(m)
    PROVE  IInv'
<1>1. PICK owner : Wiring(owner) /\ OpOwned(owner) /\ RootsOwned(owner)
    BY InvToForest
<1>2. Local /\ op = Idle /\ root[m] # NULL
    BY InvToForest DEF pop_first, Found
<1>3. PICK leaf \in live : /\ leaf = first_leaf(m)
                           /\ level[leaf] = 0 /\ owner[leaf] = m
                           /\ leaf = root[m] \/ parent[leaf] # NULL
    BY <1>1, <1>2, FirstLeafEnds
<1>4. PICK n \in Nat : n >= 1 /\ Len(keys[leaf]) = n
    BY <1>1, <1>2, <1>3, LeafData
<1>5. PICK idx \in 0 .. Len(keys[leaf]) - 1 : idx = 0
    BY <1>4
<1>6. RemoveVal(m, leaf, idx)
    BY <1>3, <1>5 DEF pop_first
<1>7. QED
    BY <1>1, <1>2, <1>3, <1>6, RemoveValInv

\* pop_last
LEMMA PopLastInv ==
    ASSUME IInv, NEW m \in Maps, pop_last(m)
    PROVE  IInv'
<1>1. PICK owner : Wiring(owner) /\ OpOwned(owner) /\ RootsOwned(owner)
    BY InvToForest
<1>2. Local /\ op = Idle /\ root[m] # NULL
    BY InvToForest DEF pop_last, Found
<1>3. PICK leaf \in live : /\ leaf = last_leaf(m)
                           /\ level[leaf] = 0 /\ owner[leaf] = m
                           /\ leaf = root[m] \/ parent[leaf] # NULL
    BY <1>1, <1>2, LastLeafEnds
<1>4. PICK n \in Nat : n >= 1 /\ Len(keys[leaf]) = n
    BY <1>1, <1>2, <1>3, LeafData
<1>5. PICK idx \in 0 .. Len(keys[leaf]) - 1 : idx = Len(keys[leaf]) - 1
    BY <1>4
<1>6. RemoveVal(m, leaf, idx)
    BY <1>3, <1>5 DEF pop_last
<1>7. QED
    BY <1>1, <1>2, <1>3, <1>6, RemoveValInv

\* clear
LEMMA ClearInv ==
    ASSUME IInv, NEW m \in Maps, clear(m)
    PROVE  IInv'
<1>1. height \in [Maps -> Nat] /\ length \in [Maps -> Int]
    BY DEF IInv, TypeOK
<1>2. /\ op = Idle /\ DropNodes(m) /\ root' = [root EXCEPT ![m] = NULL]
      /\ height' = height /\ length' = [length EXCEPT ![m] = 0] /\ op' = op
    BY DEF clear
<1>3. length' \in [Maps -> Int] /\ height' \in [Maps -> Nat]
      /\ \A q \in Maps \ {m} : height'[q] = height[q]
    BY <1>1, <1>2
<1>4. QED
    BY <1>2, <1>3, DropNodesInv

\* Drop, and new_in in its place
LEMMA DropAndNewInv ==
    ASSUME IInv, NEW m \in Maps, drop_and_new_in(m)
    PROVE  IInv'
<1>1. height \in [Maps -> Nat] /\ length \in [Maps -> Int]
    BY DEF IInv, TypeOK
<1>2. /\ op = Idle /\ DropNodes(m) /\ root' = [root EXCEPT ![m] = NULL]
      /\ height' = [height EXCEPT ![m] = 0] /\ length' = [length EXCEPT ![m] = 0] /\ op' = op
    BY DEF drop_and_new_in
<1>3. length' \in [Maps -> Int] /\ height' \in [Maps -> Nat]
      /\ \A q \in Maps \ {m} : height'[q] = height[q]
    BY <1>1, <1>2
<1>4. QED
    BY <1>2, <1>3, DropNodesInv

\* Every call
LEMMA CallInv ==
    ASSUME IInv, ReuseAfterClear = FALSE, Call
    PROVE  IInv'
<1>1. PICK m \in Maps :
        \/ \E k \in Keys, v \in Values :
              \/ insert(m, k, v)
              \/ get_or_insert(m, k, v)
              \/ \E outcome \in {"some", "none", "panic"} :
                    update_and_return(m, k, v, outcome)
        \/ \E k \in Keys : remove_key_value(m, k)
        \/ pop_first(m)
        \/ pop_last(m)
        \/ clear(m)
        \/ drop_and_new_in(m)
    BY DEF Call, CallOn
<1>2. CASE \E k \in Keys, v \in Values : insert(m, k, v)
    BY <1>2, InsertInv
<1>3. CASE \E k \in Keys, v \in Values : get_or_insert(m, k, v)
    BY <1>3, GetOrInsertInv
<1>4. CASE \E k \in Keys, v \in Values : \E outcome \in {"some", "none", "panic"} :
              update_and_return(m, k, v, outcome)
    <2>1. PICK k \in Keys, v \in Values, outcome \in {"some", "none", "panic"} :
            update_and_return(m, k, v, outcome)
        BY <1>4
    <2>2. insert(m, k, v) \/ remove_key_value(m, k)
        BY <2>1 DEF update_and_return
    <2>3. QED
        BY <2>2, InsertInv, RemoveInv
<1>5. CASE \E k \in Keys : remove_key_value(m, k)
    BY <1>5, RemoveInv
<1>6. CASE pop_first(m) \/ pop_last(m)
    BY <1>6, PopFirstInv, PopLastInv
<1>7. CASE clear(m) \/ drop_and_new_in(m)
    BY <1>7, ClearInv, DropAndNewInv
<1>8. QED
    BY <1>1, <1>2, <1>3, <1>4, <1>5, <1>6, <1>7
=============================================================================
