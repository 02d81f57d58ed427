-------------------------- MODULE BTreeIterProofs --------------------------
(***************************************************************************)
(* Iterators over one map of a store while the other maps are called, and  *)
(* writes through the references that IterMut hands out (BTreeIter); then  *)
(* the search for the ends of a range, and the iterators that run between  *)
(* them (BTreeRange).                                                      *)
(***************************************************************************)
EXTENDS BTreeMapProofs, BTreeIter, BTreeRange

-----------------------------------------------------------------------------
(***************************************************************************)
(* The maps.                                                               *)
(***************************************************************************)

\* A write through such a reference changes a value and nothing else, whatever
\* the cursor it was read at.
LEMMA WriteInv ==
    ASSUME IInv, NEW c, NEW v \in Values, WriteAt(c, v)
    PROVE  IInv'
<1>1. /\ TypeOK /\ NodeShape /\ ParentAgrees /\ RootsAgree /\ Occupancy
      /\ PendingOverflow /\ PendingUnderflow /\ Orphans /\ Owned /\ FreeBlank
    BY DEF IInv
<1>2. /\ live' = live /\ level' = level /\ parent' = parent /\ parent_idx' = parent_idx
      /\ keys' = keys /\ edges' = edges /\ prev' = prev /\ next' = next
      /\ root' = root /\ height' = height /\ length' = length /\ op' = op
    BY DEF WriteAt
<1>3. vals \in [Slots -> Seq(Values)]
    BY <1>1 DEF TypeOK
<1>4. vals' = [vals EXCEPT ![c.node] = [@ EXCEPT ![c.index + 1] = v]]
    BY DEF WriteAt
<1>5. ASSUME NEW q \in Seq(Values)
      PROVE  /\ [q EXCEPT ![c.index + 1] = v] \in Seq(Values)
             /\ Len([q EXCEPT ![c.index + 1] = v]) = Len(q)
    <2>1. CASE c.index + 1 \in 1 .. Len(q)
        BY <2>1, ExceptSeq
    <2>2. CASE c.index + 1 \notin 1 .. Len(q)
        <3>1. c.index + 1 \notin DOMAIN q
            BY <2>2
        <3>2. [q EXCEPT ![c.index + 1] = v] = q
            BY <3>1
        <3>3. QED
            BY <3>2
    <2>3. QED
        BY <2>1, <2>2
<1>6. /\ vals' \in [Slots -> Seq(Values)]
      /\ \A s \in Slots : Len(vals'[s]) = Len(vals[s])
    BY <1>3, <1>4, <1>5
<1>7. \A s \in Slots : vals[s] = <<>> => vals'[s] = <<>>
    BY <1>3, <1>6
<1>8. TypeOK' /\ NodeShape'
    BY <1>1, <1>2, <1>6, <1>7 DEF TypeOK, NodeShape
<1>9. ParentAgrees' /\ RootsAgree' /\ Occupancy'
    BY <1>1, <1>2 DEF ParentAgrees, RootsAgree, Occupancy
<1>10. PendingOverflow' /\ PendingUnderflow' /\ Orphans'
    BY <1>1, <1>2 DEF PendingOverflow, PendingUnderflow, Orphans
<1>11. Owned'
    BY <1>1, <1>2 DEF Owned, OwnedBy
<1>12. FreeBlank'
    BY <1>1, <1>2, <1>7 DEF FreeBlank
<1>13. QED
    BY <1>8, <1>9, <1>10, <1>11, <1>12 DEF IInv

\* A step of an iterator, of its client, or of a call on another map
LEMMA IterNextInv ==
    ASSUME ReuseAfterClear = FALSE, IInv, [IterNext]_iterVars
    PROVE  IInv'
<1>1. CASE CallElsewhere
    <2>1. Next
        BY <1>1 DEF CallElsewhere, Next, Call
    <2>2. QED
        BY <2>1, NextInv
<1>2. CASE \E m \in Maps : iter_of(m) \/ iter_mut_of(m)
    <2>1. UNCHANGED vars
        BY <1>2 DEF iter_of, iter_mut_of
    <2>2. QED
        BY <2>1, NextInv
<1>3. CASE iter_next \/ iter_next_back \/ iter_drop
    <2>1. UNCHANGED vars
        BY <1>3 DEF iter_next, iter_next_back, iter_drop
    <2>2. QED
        BY <2>1, NextInv
<1>4. CASE \E v \in Values : iter_mut_next(v) \/ iter_mut_next_back(v)
    <2>1. PICK v \in Values : \/ WriteAt(iter.cursor, v)
                             \/ WriteAt(iter.back_cursor, v)
        BY <1>4 DEF iter_mut_next, iter_mut_next_back
    <2>2. QED
        BY <2>1, WriteInv
<1>5. CASE UNCHANGED iterVars
    <2>1. UNCHANGED vars
        BY <1>5 DEF iterVars
    <2>2. QED
        BY <2>1, NextInv
<1>6. QED
    BY <1>1, <1>2, <1>3, <1>4, <1>5 DEF IterNext

LEMMA IterNextOrder ==
    ASSUME IInv, Ordered, [IterNext]_iterVars
    PROVE  Ordered'
<1>1. CASE CallElsewhere
    <2>1. Next
        BY <1>1 DEF CallElsewhere, Next, Call
    <2>2. QED
        BY <2>1, NextOrder
<1>2. CASE \E v \in Values : iter_mut_next(v) \/ iter_mut_next_back(v)
    <2>1. PICK v \in Values : \/ WriteAt(iter.cursor, v)
                             \/ WriteAt(iter.back_cursor, v)
        BY <1>2 DEF iter_mut_next, iter_mut_next_back
    <2>2. /\ op' = op /\ live' = live /\ level' = level /\ parent' = parent
          /\ keys' = keys /\ edges' = edges /\ prev' = prev /\ next' = next
          /\ root' = root /\ length' = length
        BY <2>1 DEF WriteAt
    <2>3. QED
        BY <2>2, WriteOrder
<1>3. CASE UNCHANGED vars
    BY <1>3, NextOrder
<1>4. ~CallElsewhere /\ ~(\E v \in Values : iter_mut_next(v) \/ iter_mut_next_back(v))
        => UNCHANGED vars
    BY DEF IterNext, iterVars, iter_of, iter_mut_of, iter_next, iter_next_back, iter_drop
<1>5. QED
    BY <1>1, <1>2, <1>3, <1>4

-----------------------------------------------------------------------------
(***************************************************************************)
(* A cursor, and the two of an iterator.                                   *)
(***************************************************************************)
Cursors == [node : Slots \cup {NULL}, index : Int]

\* c is at entry p of the map whose n leaves are q.
AtEntry(c, p, q, n, o) ==
    \E i \in 1 .. n : \E j \in 1 .. Len(keys[q[i]]) :
        c = Address(q[i], j - 1) /\ p = o[i] + j

\* The leaves of m, and how many entries are before each of them
Leaves(m, q, n, o) == Chain(m, q, n) /\ Offsets(o, KeysOn(q), n)

LEMMA LeafOffsets ==
    ASSUME IInv, NEW m \in Maps, NEW q, NEW n, NEW o, Leaves(m, q, n, o)
    PROVE  /\ n \in Nat /\ o[1] = 0
           /\ \A i \in 1 .. n + 1 : o[i] \in Nat
           /\ \A i \in 1 .. n : /\ Len(keys[q[i]]) \in Nat /\ Len(keys[q[i]]) >= 1
                                /\ o[i + 1] = o[i] + Len(keys[q[i]])
           /\ \A i, j \in 1 .. n + 1 : i <= j => o[i] <= o[j]
<1>1. Chain(m, q, n) /\ Offsets(o, KeysOn(q), n)
    BY DEF Leaves
<1>2. PICK ss : ss = KeysOn(q)
    OBVIOUS
<1>3. /\ n \in Nat /\ ss \in [1 .. n -> Seq(Keys)]
      /\ \A i \in 1 .. n : ss[i] = keys[q[i]]
    BY <1>1, <1>2, ChainKeysOn
<1>4. \A i \in 1 .. n : ss[i] \in Seq(Keys)
    BY <1>3
<1>5. \A i \in 1 .. n : Len(ss[i]) \in Nat
    BY <1>4
<1>6. \A i \in 1 .. n : Len(keys[q[i]]) >= 1
    BY <1>1 DEF Chain
<1>7. o[1] = 0
    BY <1>1 DEF Offsets
<1>8. Offsets(o, ss, n)
    BY <1>1, <1>2
<1>9. /\ \A i \in 1 .. n + 1 : o[i] \in Nat
      /\ \A i \in 1 .. n : o[i + 1] = o[i] + Len(ss[i])
      /\ \A i, j \in 1 .. n + 1 : i <= j => o[i] <= o[j]
    BY ONLY <1>3, <1>8, OffsetsRise
<1>10. QED
    BY <1>3, <1>5, <1>6, <1>7, <1>9

\* Every entry is in one of the leaves, and at one place there.
LEMMA LeafPlace ==
    ASSUME IInv, NEW m \in Maps, NEW q, NEW n, NEW o, Leaves(m, q, n, o)
    PROVE  /\ \A x \in 1 .. o[n + 1] :
                  \E i \in 1 .. n : \E j \in 1 .. Len(keys[q[i]]) : x = o[i] + j
           /\ \A i, k \in 1 .. n :
                  \A j \in 1 .. Len(keys[q[i]]) : \A l \in 1 .. Len(keys[q[k]]) :
                      o[i] + j = o[k] + l => i = k /\ j = l
<1>1. Chain(m, q, n) /\ Offsets(o, KeysOn(q), n)
    BY DEF Leaves
<1>2. PICK ss : ss = KeysOn(q)
    OBVIOUS
<1>3. PICK S : S = Keys
    OBVIOUS
<1>4. /\ n \in Nat /\ ss \in [1 .. n -> Seq(S)]
      /\ \A i \in 1 .. n : ss[i] = keys[q[i]]
    BY <1>1, <1>2, <1>3, ChainKeysOn
<1>5. Offsets(o, ss, n)
    BY <1>1, <1>2
<1>6. Placed(o, ss, n)
    BY <1>4, <1>5, JoinPlaces
<1>7. ASSUME NEW x \in 1 .. o[n + 1]
      PROVE  \E i \in 1 .. n : \E j \in 1 .. Len(keys[q[i]]) : x = o[i] + j
    <2>1. PICK i \in 1 .. n : \E j \in 1 .. Len(ss[i]) : x = o[i] + j
        BY <1>6 DEF Placed
    <2>2. QED
        BY <1>4, <2>1
<1>8. ASSUME NEW i \in 1 .. n, NEW k \in 1 .. n, NEW j \in 1 .. Len(keys[q[i]]),
             NEW l \in 1 .. Len(keys[q[k]]), o[i] + j = o[k] + l
      PROVE  i = k /\ j = l
    <2>1. j \in 1 .. Len(ss[i]) /\ l \in 1 .. Len(ss[k])
        BY <1>4
    <2>2. QED
        BY <1>6, <1>8, <2>1 DEF Placed
<1>9. QED
    BY <1>4, <1>7, <1>8

\* What AtEntry says of the cursor
LEMMA AtEntryIs ==
    ASSUME IInv, NEW m \in Maps, NEW q, NEW n, NEW o, Leaves(m, q, n, o),
           NEW c, NEW p, AtEntry(c, p, q, n, o)
    PROVE  /\ c \in Cursors /\ IsAttached(c) /\ IsValid(c)
           /\ c.node \in TreeOf(m) \cap live /\ level[c.node] = 0
           /\ ChainKeys(m) \in Seq(Keys) /\ Len(ChainKeys(m)) = o[n + 1]
           /\ p \in 1 .. o[n + 1]
           /\ CursorKey(c) = ChainKeys(m)[p] /\ CursorKey(c) \in Keys
<1>1. PICK i \in 1 .. n, j \in Nat : /\ 1 <= j /\ j <= Len(keys[q[i]])
                                     /\ c = Address(q[i], j - 1) /\ p = o[i] + j
    <2>0. PICK i \in 1 .. n : \E j \in 1 .. Len(keys[q[i]]) :
              c = Address(q[i], j - 1) /\ p = o[i] + j
        BY DEF AtEntry
    <2>1. PICK j \in 1 .. Len(keys[q[i]]) : c = Address(q[i], j - 1) /\ p = o[i] + j
        BY <2>0
    <2>2. j \in Nat /\ 1 <= j /\ j <= Len(keys[q[i]])
        <3>1. q[i] \in live
            BY DEF Leaves, Chain
        <3>2. Len(keys[q[i]]) \in Nat
            BY <3>1 DEF IInv, TypeOK
        <3>3. QED
            BY <3>2
    <2>3. QED
        BY <2>1, <2>2
<1>2. Chain(m, q, n) /\ Offsets(o, KeysOn(q), n)
    BY DEF Leaves
<1>3. /\ q[i] \in TreeOf(m) /\ q[i] \in live /\ level[q[i]] = 0
    BY <1>2 DEF Chain
<1>4. live \subseteq Slots /\ keys \in [Slots -> Seq(Keys)]
    BY DEF IInv, TypeOK
<1>5. q[i] \in Slots /\ q[i] # NULL
    BY <1>3, <1>4, SlotsAssumption
<1>6. c.node = q[i] /\ c.index = j - 1 /\ c \in Cursors
    BY <1>1, <1>5 DEF Address, Cursors
<1>7. IsAttached(c) /\ IsValid(c)
    BY <1>1, <1>4, <1>5, <1>6 DEF IsAttached, IsValid
<1>8. /\ ChainKeys(m) \in Seq(Keys) /\ Len(ChainKeys(m)) = o[n + 1]
      /\ \A l \in 1 .. Len(keys[q[i]]) : ChainKeys(m)[o[i] + l] = keys[q[i]][l]
    BY <1>2, ChainEntries
<1>9. j \in 1 .. Len(keys[q[i]])
    BY <1>1, <1>4, <1>5
<1>10. CursorKey(c) = keys[q[i]][j] /\ keys[q[i]][j] \in Keys
    <2>1. (j - 1) + 1 = j
        BY <1>1
    <2>2. keys[q[i]] \in Seq(Keys)
        BY <1>4, <1>5
    <2>3. QED
        BY <1>6, <1>9, <2>1, <2>2 DEF CursorKey
<1>11. p \in 1 .. o[n + 1]
    <2>1. n \in Nat
        BY LeafOffsets
    <2>2. i \in 1 .. n + 1 /\ i + 1 \in 1 .. n + 1 /\ n + 1 \in 1 .. n + 1 /\ i + 1 <= n + 1
        BY <2>1
    <2>3. /\ o[i] \in Nat /\ o[i + 1] = o[i] + Len(keys[q[i]]) /\ o[i + 1] <= o[n + 1]
          /\ o[n + 1] \in Nat /\ Len(keys[q[i]]) \in Nat
        BY <2>2, LeafOffsets
    <2>4. QED
        BY <1>1, <2>3
<1>12. QED
    BY <1>1, <1>3, <1>6, <1>7, <1>8, <1>9, <1>10, <1>11

\* One further
LEMMA AdvancedPlace ==
    ASSUME IInv, NEW m \in Maps, NEW q, NEW n, NEW o, Leaves(m, q, n, o),
           NEW c, NEW p, AtEntry(c, p, q, n, o), p # o[n + 1]
    PROVE  AtEntry(Advanced(c), p + 1, q, n, o)
<1>0. PICK i \in 1 .. n : \E j \in 1 .. Len(keys[q[i]]) :
          c = Address(q[i], j - 1) /\ p = o[i] + j
    BY DEF AtEntry
<1>1. PICK j \in 1 .. Len(keys[q[i]]) : c = Address(q[i], j - 1) /\ p = o[i] + j
    BY <1>0
<1>2. Chain(m, q, n) /\ Offsets(o, KeysOn(q), n)
    BY DEF Leaves
<1>3. n \in Nat
    BY LeafOffsets
<1>4. PICK k \in Nat : k = Len(keys[q[i]])
    BY LeafOffsets
<1>5. j \in 1 .. k /\ o[i] \in Nat /\ o[i + 1] = o[i] + k
    <2>1. i \in 1 .. n + 1
        BY <1>3
    <2>2. QED
        BY <1>4, <2>1, LeafOffsets
<1>6. c.node = q[i] /\ c.index = j - 1
    BY <1>1 DEF Address
<1>7. CASE j # k
    <2>1. c.index < k - 1 /\ c.index + 1 = (j + 1) - 1 /\ j + 1 \in 1 .. k
        BY <1>5, <1>6, <1>7
    <2>2. Advanced(c) = [c EXCEPT !.index = @ + 1]
        BY <1>4, <1>6, <2>1 DEF Advanced
    <2>3. Advanced(c) = Address(q[i], (j + 1) - 1)
        BY <1>1, <1>5, <2>1, <2>2 DEF Address
    <2>4. p + 1 = o[i] + (j + 1)
        <3>1. PICK y \in Nat : y = o[i]
            BY ONLY <1>5
        <3>2. p = y + j /\ j \in Nat
            BY ONLY <1>1, <1>4, <1>5, <3>1
        <3>3. p + 1 = y + (j + 1)
            BY ONLY <3>2, y \in Nat
        <3>4. QED
            BY ONLY <3>1, <3>3
    <2>5. QED
        BY <1>4, <2>1, <2>3, <2>4 DEF AtEntry
<1>8. CASE j = k
    <2>1. p = o[i + 1]
        BY <1>1, <1>5, <1>8
    <2>2. i # n
        BY <2>1
    <2>3. i + 1 \in 1 .. n
        BY <1>3, <2>2
    <2>4. next[q[i]] = q[i + 1]
        BY <1>2, <2>2 DEF Chain
    <2>5. ~(c.index < k - 1)
        BY <1>5, <1>6, <1>8
    <2>6. Advanced(c) = Address(q[i + 1], 0)
        BY <1>4, <1>6, <2>4, <2>5 DEF Advanced, AtStart
    <2>7. 1 \in 1 .. Len(keys[q[i + 1]])
        <3>1. Len(keys[q[i + 1]]) >= 1 /\ Len(keys[q[i + 1]]) \in Nat
            BY <2>3, LeafOffsets
        <3>2. QED
            BY <3>1
    <2>8. 1 - 1 = 0
        OBVIOUS
    <2>9. AtEntry(Advanced(c), o[i + 1] + 1, q, n, o)
        BY <2>3, <2>6, <2>7, <2>8 DEF AtEntry
    <2>10. QED
        BY <2>1, <2>9
<1>9. QED
    BY <1>7, <1>8

\* One back
LEMMA AdvancedBackPlace ==
    ASSUME IInv, NEW m \in Maps, NEW q, NEW n, NEW o, Leaves(m, q, n, o),
           NEW c, NEW p, AtEntry(c, p, q, n, o), p # 1
    PROVE  AtEntry(AdvancedBack(c), p - 1, q, n, o)
<1>0. PICK i \in 1 .. n : \E j \in 1 .. Len(keys[q[i]]) :
          c = Address(q[i], j - 1) /\ p = o[i] + j
    BY DEF AtEntry
<1>1. PICK j \in 1 .. Len(keys[q[i]]) : c = Address(q[i], j - 1) /\ p = o[i] + j
    BY <1>0
<1>2. Chain(m, q, n) /\ Offsets(o, KeysOn(q), n)
    BY DEF Leaves
<1>3. n \in Nat
    BY LeafOffsets
<1>4. PICK k \in Nat : k = Len(keys[q[i]])
    BY LeafOffsets
<1>5. j \in 1 .. k /\ o[i] \in Nat
    <2>1. i \in 1 .. n + 1
        BY <1>3
    <2>2. QED
        BY <1>4, <2>1, LeafOffsets
<1>6. c.node = q[i] /\ c.index = j - 1
    BY <1>1 DEF Address
<1>7. CASE j # 1
    <2>1. c.index > 0 /\ c.index - 1 = (j - 1) - 1 /\ j - 1 \in 1 .. k
        BY <1>5, <1>6, <1>7
    <2>2. AdvancedBack(c) = [c EXCEPT !.index = @ - 1]
        BY <2>1 DEF AdvancedBack
    <2>3. AdvancedBack(c) = Address(q[i], (j - 1) - 1)
        BY <1>1, <1>5, <2>1, <2>2 DEF Address
    <2>4. p - 1 = o[i] + (j - 1)
        BY <1>1, <1>5
    <2>5. QED
        BY <1>4, <2>1, <2>3, <2>4 DEF AtEntry
<1>8. CASE j = 1
    <2>1. i # 1
        <3>1. o[1] = 0
            BY LeafOffsets
        <3>2. QED
            BY <1>1, <1>8, <3>1
    <2>2. PICK h \in 1 .. n : i = h + 1 /\ h = i - 1
        <3>1. i - 1 \in 1 .. n /\ i = (i - 1) + 1
            BY <1>3, <2>1
        <3>2. QED
            BY <3>1
    <2>3. prev[q[i]] = q[h]
        BY <1>2, <2>1, <2>2 DEF Chain
    <2>4. ~(c.index > 0)
        BY <1>6, <1>8
    <2>5. PICK l \in Nat : l = Len(keys[q[h]]) /\ l >= 1
        BY LeafOffsets
    <2>6. q[h] # NULL
        <3>1. q[h] \in live
            BY <1>2 DEF Chain
        <3>2. QED
            BY <3>1, SlotsAssumption DEF IInv, TypeOK
    <2>7. AdvancedBack(c) = Address(q[h], l - 1)
        BY <1>6, <2>3, <2>4, <2>5, <2>6 DEF AdvancedBack, AtEnd
    <2>8. p - 1 = o[h] + l
        <3>1. h \in 1 .. n + 1
            BY <1>3
        <3>2. o[h] \in Nat /\ o[h + 1] = o[h] + l
            BY <2>5, <3>1, LeafOffsets
        <3>3. QED
            BY <1>1, <1>8, <2>2, <2>5, <3>2
    <2>9. l \in 1 .. Len(keys[q[h]])
        BY <2>5
    <2>10. QED
        BY <2>7, <2>8, <2>9 DEF AtEntry
<1>9. QED
    BY <1>7, <1>8

(***************************************************************************)
(* The two cursors of an iterator, `front` and `back` being the keys that  *)
(* it has handed out.                                                      *)
(***************************************************************************)
Iters ==
    [kind : {"Iter", "IterMut"}, map : Maps, cursor : Cursors, back_cursor : Cursors,
     length : Nat, front : Seq(Keys), back : Seq(Keys), values : Seq(Values)]

\* The cursors are at the entries after those handed out in front and before
\* those handed out at the back, `length` counts what is between.
Between(i, q, n, o) ==
    LET ks == ChainKeys(i.map)
        all == o[n + 1]
    IN  /\ Len(i.front) + Len(i.back) + i.length = all
        /\ i.length > 0 => /\ AtEntry(i.cursor, Len(i.front) + 1, q, n, o)
                           /\ AtEntry(i.back_cursor, all - Len(i.back), q, n, o)
        /\ \A x \in 1 .. Len(i.front) : i.front[x] = ks[x]
        /\ \A x \in 1 .. Len(i.back) : i.back[x] = ks[all + 1 - x]
        /\ i.values = ChainVals(i.map)

\* What holds of the iterator as long as it exists
IterInv ==
    iter # NoIter =>
        /\ iter \in Iters
        /\ op # Idle => op.map # iter.map
        /\ \E q, n, o : Leaves(iter.map, q, n, o) /\ Between(iter, q, n, o)

LEMMA AdvancedType ==
    ASSUME IInv, NEW c \in Cursors, c.node \in Slots
    PROVE  Advanced(c) \in Cursors /\ AdvancedBack(c) \in Cursors
<1>1. /\ next[c.node] \in Slots \cup {NULL} /\ prev[c.node] \in Slots \cup {NULL}
      /\ keys \in [Slots -> Seq(Keys)]
    BY DEF IInv, TypeOK
<1>2. c.index \in Int /\ c = [node |-> c.node, index |-> c.index]
    BY DEF Cursors
<1>3. ASSUME NEW s \in Slots \cup {NULL}, NEW x \in Int
      PROVE  Address(s, x) \in Cursors
    BY DEF Address, Cursors
<1>4. /\ [c EXCEPT !.index = @ + 1] \in Cursors /\ [c EXCEPT !.index = @ - 1] \in Cursors
    BY <1>2 DEF Cursors
<1>5. AtStart(next[c.node]) \in Cursors
    <2>1. 0 \in Int
        OBVIOUS
    <2>2. QED
        BY <1>1, <1>3, <2>1 DEF AtStart
<1>6. AtEnd(prev[c.node]) \in Cursors
    <2>1. CASE prev[c.node] = NULL
        BY <1>3, <2>1 DEF AtEnd, Detached
    <2>2. CASE prev[c.node] # NULL
        <3>1. prev[c.node] \in Slots
            BY <1>1, <2>2
        <3>2. Len(keys[prev[c.node]]) - 1 \in Int
            BY <1>1, <3>1
        <3>3. QED
            BY <1>3, <2>2, <3>1, <3>2 DEF AtEnd
    <2>3. QED
        BY <2>1, <2>2
<1>7. QED
    BY <1>4, <1>5, <1>6 DEF Advanced, AdvancedBack

LEMMA AdvanceIs ==
    ASSUME NEW i \in Iters
    PROVE  /\ Advance(i) = [kind |-> i.kind, map |-> i.map,
                            cursor |-> Advanced(i.cursor), back_cursor |-> i.back_cursor,
                            length |-> i.length - 1,
                            front |-> Append(i.front, CursorKey(i.cursor)), back |-> i.back,
                            values |-> i.values]
           /\ AdvanceBack(i) = [kind |-> i.kind, map |-> i.map,
                            cursor |-> i.cursor, back_cursor |-> AdvancedBack(i.back_cursor),
                            length |-> i.length - 1,
                            front |-> i.front,
                            back |-> Append(i.back, CursorKey(i.back_cursor)),
                            values |-> i.values]
<1>1. i = [kind |-> i.kind, map |-> i.map, cursor |-> i.cursor, back_cursor |-> i.back_cursor,
           length |-> i.length, front |-> i.front, back |-> i.back, values |-> i.values]
    BY DEF Iters
<1>2. Advance(i) = [kind |-> i.kind, map |-> i.map,
                    cursor |-> Advanced(i.cursor), back_cursor |-> i.back_cursor,
                    length |-> i.length - 1,
                    front |-> Append(i.front, CursorKey(i.cursor)), back |-> i.back,
                    values |-> i.values]
    <2>1. PICK d, L, f : /\ d = Advanced(i.cursor) /\ L = i.length - 1
                         /\ f = Append(i.front, CursorKey(i.cursor))
        OBVIOUS
    <2>2. Advance(i) = [i EXCEPT !.cursor = d, !.length = L, !.front = f]
        BY <2>1 DEF Advance
    <2>3. [i EXCEPT !.cursor = d, !.length = L, !.front = f]
            = [kind |-> i.kind, map |-> i.map, cursor |-> d, back_cursor |-> i.back_cursor,
               length |-> L, front |-> f, back |-> i.back, values |-> i.values]
        <3>1. PICK r : r = [i EXCEPT !.cursor = d]
            OBVIOUS
        <3>2. r = [kind |-> i.kind, map |-> i.map, cursor |-> d, back_cursor |-> i.back_cursor,
                   length |-> i.length, front |-> i.front, back |-> i.back, values |-> i.values]
            BY <1>1, <3>1
        <3>3. PICK s : s = [r EXCEPT !.length = L]
            OBVIOUS
        <3>4. s = [kind |-> i.kind, map |-> i.map, cursor |-> d, back_cursor |-> i.back_cursor,
                   length |-> L, front |-> i.front, back |-> i.back, values |-> i.values]
            BY <3>2, <3>3
        <3>5. [s EXCEPT !.front = f]
                = [kind |-> i.kind, map |-> i.map, cursor |-> d, back_cursor |-> i.back_cursor,
                   length |-> L, front |-> f, back |-> i.back, values |-> i.values]
            BY <3>4
        <3>6. QED
            BY <3>1, <3>3, <3>5, Zenon
    <2>4. QED
        BY <2>1, <2>2, <2>3
<1>3. AdvanceBack(i) = [kind |-> i.kind, map |-> i.map,
                        cursor |-> i.cursor, back_cursor |-> AdvancedBack(i.back_cursor),
                        length |-> i.length - 1, front |-> i.front,
                        back |-> Append(i.back, CursorKey(i.back_cursor)),
                        values |-> i.values]
    <2>1. PICK d, L, g : /\ d = AdvancedBack(i.back_cursor) /\ L = i.length - 1
                         /\ g = Append(i.back, CursorKey(i.back_cursor))
        OBVIOUS
    <2>2. AdvanceBack(i) = [i EXCEPT !.back_cursor = d, !.length = L, !.back = g]
        BY <2>1 DEF AdvanceBack
    <2>3. [i EXCEPT !.back_cursor = d, !.length = L, !.back = g]
            = [kind |-> i.kind, map |-> i.map, cursor |-> i.cursor, back_cursor |-> d,
               length |-> L, front |-> i.front, back |-> g, values |-> i.values]
        <3>1. PICK r : r = [i EXCEPT !.back_cursor = d]
            OBVIOUS
        <3>2. r = [kind |-> i.kind, map |-> i.map, cursor |-> i.cursor, back_cursor |-> d,
                   length |-> i.length, front |-> i.front, back |-> i.back, values |-> i.values]
            BY <1>1, <3>1
        <3>3. PICK s : s = [r EXCEPT !.length = L]
            OBVIOUS
        <3>4. s = [kind |-> i.kind, map |-> i.map, cursor |-> i.cursor, back_cursor |-> d,
                   length |-> L, front |-> i.front, back |-> i.back, values |-> i.values]
            BY <3>2, <3>3
        <3>5. [s EXCEPT !.back = g]
                = [kind |-> i.kind, map |-> i.map, cursor |-> i.cursor, back_cursor |-> d,
                   length |-> L, front |-> i.front, back |-> g, values |-> i.values]
            BY <3>4
        <3>6. QED
            BY <3>1, <3>3, <3>5, Zenon
    <2>4. QED
        BY <2>1, <2>2, <2>3
<1>4. QED
    BY <1>2, <1>3

LEMMA AdvanceKept ==
    ASSUME IInv, NEW i \in Iters, NEW q, NEW n, NEW o, Leaves(i.map, q, n, o),
           Between(i, q, n, o), i.length > 0
    PROVE  LET a == Advance(i)
           IN  /\ a \in Iters /\ a.kind = i.kind /\ a.map = i.map /\ a.values = i.values
               /\ Between(a, q, n, o)
               /\ AtEntry(i.cursor, Len(a.front), q, n, o)
<1>0. PICK ks : ks = ChainKeys(i.map)
    OBVIOUS
<1>1. PICK m \in Maps, c \in Cursors, b \in Cursors, L \in Nat, f \in Seq(Keys),
           g \in Seq(Keys), vs \in Seq(Values) :
          /\ m = i.map /\ c = i.cursor /\ b = i.back_cursor /\ L = i.length
          /\ f = i.front /\ g = i.back /\ vs = i.values
    BY DEF Iters
<1>2. PICK F \in Nat, B \in Nat, N \in Nat : F = Len(f) /\ B = Len(g) /\ N = o[n + 1]
    <2>1. n + 1 \in 1 .. n + 1
        BY LeafOffsets, <1>1
    <2>2. o[n + 1] \in Nat
        BY <1>1, <2>1, LeafOffsets
    <2>3. Len(f) \in Nat /\ Len(g) \in Nat
        OBVIOUS
    <2>4. QED
        BY <2>2, <2>3
<1>3. /\ F + B + L = N /\ L > 0
      /\ AtEntry(c, F + 1, q, n, o) /\ AtEntry(b, N - B, q, n, o)
      /\ \A x \in 1 .. F : f[x] = ks[x]
      /\ \A x \in 1 .. B : g[x] = ks[N + 1 - x]
      /\ vs = ChainVals(m)
    BY <1>0, <1>1, <1>2 DEF Between
<1>4. /\ c.node \in TreeOf(m) \cap live /\ CursorKey(c) = ks[F + 1] /\ CursorKey(c) \in Keys
    BY <1>0, <1>1, <1>3, AtEntryIs
<1>5. c.node \in Slots
    BY <1>4 DEF IInv, TypeOK
<1>6. PICK d \in Cursors, k \in Keys, f2 \in Seq(Keys) :
          d = Advanced(c) /\ k = CursorKey(c) /\ f2 = Append(f, k)
    <2>1. Advanced(c) \in Cursors
        BY <1>5, AdvancedType
    <2>2. Append(f, CursorKey(c)) \in Seq(Keys)
        BY <1>4
    <2>3. QED
        BY <1>4, <2>1, <2>2
<1>7. f2 \in Seq(Keys) /\ Len(f2) = F + 1
      /\ \A x \in 1 .. F + 1 : f2[x] = IF x = F + 1 THEN k ELSE f[x]
    BY <1>2, <1>6
<1>8. PICK a : a = Advance(i)
    OBVIOUS
<1>9. a = [kind |-> i.kind, map |-> m, cursor |-> d, back_cursor |-> b, length |-> L - 1,
           front |-> f2, back |-> g, values |-> vs]
    BY <1>1, <1>6, <1>8, AdvanceIs
<1>10. L - 1 \in Nat
    BY <1>3
<1>11. /\ a.kind = i.kind /\ a.map = m /\ a.cursor = d /\ a.back_cursor = b
       /\ a.length = L - 1 /\ a.front = f2 /\ a.back = g /\ a.values = vs
    BY <1>9
<1>12. a \in Iters
    <2>1. i.kind \in {"Iter", "IterMut"}
        BY DEF Iters
    <2>2. QED
        BY <1>7, <1>9, <1>10, <2>1 DEF Iters
<1>13. L - 1 > 0 => AtEntry(d, (F + 1) + 1, q, n, o)
    <2>1. SUFFICES ASSUME L - 1 > 0 PROVE AtEntry(d, (F + 1) + 1, q, n, o)
        OBVIOUS
    <2>2. F + 1 # o[n + 1]
        BY <1>2, <1>3, <2>1
    <2>3. QED
        BY <1>1, <1>3, <1>6, <2>2, AdvancedPlace
<1>14. \A x \in 1 .. F + 1 : f2[x] = ks[x]
    <2>1. ASSUME NEW x \in 1 .. F + 1
          PROVE  f2[x] = ks[x]
        <3>1. CASE x = F + 1
            BY <1>4, <1>6, <1>7, <3>1
        <3>2. CASE x # F + 1
            <4>1. x \in 1 .. F
                BY <3>2
            <4>2. QED
                BY <1>3, <1>7, <3>2, <4>1
        <3>3. QED
            BY <3>1, <3>2
    <2>2. QED
        BY <2>1
<1>15. Between(a, q, n, o)
    <2>1. (F + 1) + B + (L - 1) = N
        BY <1>3, <1>1
    <2>2. Len(a.front) + Len(a.back) + a.length = o[n + 1]
        BY <1>2, <1>7, <1>11, <2>1
    <2>3. a.length > 0 => /\ AtEntry(a.cursor, Len(a.front) + 1, q, n, o)
                          /\ AtEntry(a.back_cursor, o[n + 1] - Len(a.back), q, n, o)
        BY <1>2, <1>3, <1>7, <1>11, <1>13
    <2>4. /\ \A x \in 1 .. Len(a.front) : a.front[x] = ChainKeys(a.map)[x]
          /\ a.values = ChainVals(a.map)
        <3>1. Len(a.front) = F + 1 /\ a.front = f2 /\ ChainKeys(a.map) = ks
            BY ONLY <1>0, <1>1, <1>7, <1>11
        <3>2. a.values = ChainVals(a.map)
            BY ONLY <1>3, <1>11
        <3>3. QED
            BY ONLY <1>14, <3>1, <3>2
    <2>5. \A x \in 1 .. Len(a.back) : a.back[x] = ChainKeys(a.map)[o[n + 1] + 1 - x]
        BY <1>0, <1>1, <1>2, <1>3, <1>11
    <2>6. QED
        BY <2>2, <2>3, <2>4, <2>5 DEF Between
<1>16. QED
    BY <1>1, <1>3, <1>7, <1>8, <1>11, <1>12, <1>15

LEMMA AdvanceBackKept ==
    ASSUME IInv, NEW i \in Iters, NEW q, NEW n, NEW o, Leaves(i.map, q, n, o),
           Between(i, q, n, o), i.length > 0
    PROVE  LET a == AdvanceBack(i)
           IN  /\ a \in Iters /\ a.kind = i.kind /\ a.map = i.map /\ a.values = i.values
               /\ Between(a, q, n, o)
               /\ Len(a.back) \in Nat
               /\ AtEntry(i.back_cursor, o[n + 1] + 1 - Len(a.back), q, n, o)
<1>0. PICK ks : ks = ChainKeys(i.map)
    OBVIOUS
<1>1. PICK m \in Maps, c \in Cursors, b \in Cursors, L \in Nat, f \in Seq(Keys),
           g \in Seq(Keys), vs \in Seq(Values) :
          /\ m = i.map /\ c = i.cursor /\ b = i.back_cursor /\ L = i.length
          /\ f = i.front /\ g = i.back /\ vs = i.values
    BY DEF Iters
<1>2. PICK F \in Nat, B \in Nat, N \in Nat : F = Len(f) /\ B = Len(g) /\ N = o[n + 1]
    <2>1. n + 1 \in 1 .. n + 1
        BY LeafOffsets, <1>1
    <2>2. o[n + 1] \in Nat
        BY <1>1, <2>1, LeafOffsets
    <2>3. Len(f) \in Nat /\ Len(g) \in Nat
        OBVIOUS
    <2>4. QED
        BY <2>2, <2>3
<1>3. /\ F + B + L = N /\ L > 0
      /\ AtEntry(c, F + 1, q, n, o) /\ AtEntry(b, N - B, q, n, o)
      /\ \A x \in 1 .. F : f[x] = ks[x]
      /\ \A x \in 1 .. B : g[x] = ks[N + 1 - x]
      /\ vs = ChainVals(m)
    BY <1>0, <1>1, <1>2 DEF Between
<1>4. /\ b.node \in TreeOf(m) \cap live /\ CursorKey(b) = ks[N - B] /\ CursorKey(b) \in Keys
    BY <1>0, <1>1, <1>3, AtEntryIs
<1>5. b.node \in Slots
    BY <1>4 DEF IInv, TypeOK
<1>6. PICK d \in Cursors, k \in Keys, g2 \in Seq(Keys) :
          d = AdvancedBack(b) /\ k = CursorKey(b) /\ g2 = Append(g, k)
    <2>1. AdvancedBack(b) \in Cursors
        BY <1>5, AdvancedType
    <2>2. Append(g, CursorKey(b)) \in Seq(Keys)
        BY <1>4
    <2>3. QED
        BY <1>4, <2>1, <2>2
<1>7. g2 \in Seq(Keys) /\ Len(g2) = B + 1
      /\ \A x \in 1 .. B + 1 : g2[x] = IF x = B + 1 THEN k ELSE g[x]
    BY <1>2, <1>6
<1>8. PICK a : a = AdvanceBack(i)
    OBVIOUS
<1>9. a = [kind |-> i.kind, map |-> m, cursor |-> c, back_cursor |-> d, length |-> L - 1,
           front |-> f, back |-> g2, values |-> vs]
    BY <1>1, <1>6, <1>8, AdvanceIs
<1>10. L - 1 \in Nat
    BY <1>3
<1>11. /\ a.kind = i.kind /\ a.map = m /\ a.cursor = c /\ a.back_cursor = d
       /\ a.length = L - 1 /\ a.front = f /\ a.back = g2 /\ a.values = vs
    BY <1>9
<1>12. a \in Iters
    <2>1. i.kind \in {"Iter", "IterMut"}
        BY DEF Iters
    <2>2. QED
        BY <1>7, <1>9, <1>10, <2>1 DEF Iters
<1>13. L - 1 > 0 => AtEntry(d, N - (B + 1), q, n, o)
    <2>1. SUFFICES ASSUME L - 1 > 0 PROVE AtEntry(d, N - (B + 1), q, n, o)
        OBVIOUS
    <2>2. N - B # 1 /\ N - (B + 1) = (N - B) - 1
        <3>1. F + B + L = N
            BY <1>3
        <3>2. QED
            BY <2>1, <3>1
    <2>3. PICK p : p = N - B
        OBVIOUS
    <2>4. AtEntry(b, p, q, n, o) /\ p # 1 /\ p - 1 = N - (B + 1)
        BY <1>3, <2>2, <2>3
    <2>5. AtEntry(AdvancedBack(b), p - 1, q, n, o)
        BY <1>1, <2>4, AdvancedBackPlace
    <2>6. QED
        BY <1>6, <2>4, <2>5
<1>14. \A x \in 1 .. B + 1 : g2[x] = ks[N + 1 - x]
    <2>1. ASSUME NEW x \in 1 .. B + 1
          PROVE  g2[x] = ks[N + 1 - x]
        <3>1. CASE x = B + 1
            <4>1. N + 1 - x = N - B
                BY <3>1
            <4>2. QED
                BY <1>4, <1>6, <1>7, <3>1, <4>1
        <3>2. CASE x # B + 1
            <4>1. x \in 1 .. B
                BY <3>2
            <4>2. QED
                BY <1>3, <1>7, <3>2, <4>1
        <3>3. QED
            BY <3>1, <3>2
    <2>2. QED
        BY <2>1
<1>15. Between(a, q, n, o)
    <2>1. F + (B + 1) + (L - 1) = N
        BY <1>3, <1>1
    <2>2. Len(a.front) + Len(a.back) + a.length = o[n + 1]
        BY <1>2, <1>7, <1>11, <2>1
    <2>3. a.length > 0 => /\ AtEntry(a.cursor, Len(a.front) + 1, q, n, o)
                          /\ AtEntry(a.back_cursor, o[n + 1] - Len(a.back), q, n, o)
        BY <1>2, <1>3, <1>7, <1>11, <1>13
    <2>4. /\ \A x \in 1 .. Len(a.front) : a.front[x] = ChainKeys(a.map)[x]
          /\ a.values = ChainVals(a.map)
        BY <1>0, <1>1, <1>2, <1>3, <1>11
    <2>5. \A x \in 1 .. Len(a.back) : a.back[x] = ChainKeys(a.map)[o[n + 1] + 1 - x]
        BY <1>0, <1>1, <1>2, <1>7, <1>11, <1>14
    <2>6. QED
        BY <2>2, <2>3, <2>4, <2>5 DEF Between
<1>16. N + 1 - (B + 1) = N - B
    OBVIOUS
<1>17. Len(a.back) \in Nat /\ AtEntry(i.back_cursor, o[n + 1] + 1 - Len(a.back), q, n, o)
    <2>1. i.back_cursor = b /\ o[n + 1] = N /\ Len(a.back) = B + 1
        BY ONLY <1>1, <1>2, <1>7, <1>11
    <2>2. o[n + 1] + 1 - Len(a.back) = N - B
        BY <1>16, <2>1
    <2>3. QED
        BY ONLY <1>2, <1>3, <2>1, <2>2
<1>18. a \in Iters /\ a.kind = i.kind /\ a.map = i.map /\ a.values = i.values
    BY ONLY <1>1, <1>11, <1>12
<1>19. QED
    BY <1>8, <1>15, <1>17, <1>18, Zenon

-----------------------------------------------------------------------------
(***************************************************************************)
(* A write through a cursor.                                               *)
(***************************************************************************)
LEMMA LeavesHold ==
    ASSUME IInv
    PROVE  \A m \in Maps : \A q, n, o : Leaves(m, q, n, o) =>
              /\ ChainVals(m) \in Seq(Values) /\ Len(ChainVals(m)) = o[n + 1]
              /\ \A i \in 1 .. n : \A j \in 1 .. Len(keys[q[i]]) :
                    ChainVals(m)[o[i] + j] = vals[q[i]][j]
BY ChainEntries DEF Leaves

LEMMA LeavesHoldPrime ==
    ASSUME IInv'
    PROVE  (\A m \in Maps : \A q, n, o : Leaves(m, q, n, o) =>
              /\ ChainVals(m) \in Seq(Values) /\ Len(ChainVals(m)) = o[n + 1]
              /\ \A i \in 1 .. n : \A j \in 1 .. Len(keys[q[i]]) :
                    ChainVals(m)[o[i] + j] = vals[q[i]][j])'
BY LeavesHold, PTL

\* It leaves the leaves and their keys.
LEMMA WriteLeaves ==
    ASSUME NEW m \in Maps, NEW q, NEW n, NEW o, Leaves(m, q, n, o),
           NEW c, NEW v, WriteAt(c, v)
    PROVE  Leaves(m, q, n, o)' /\ Chain(m, q, n)' /\ KeysOn(q)' = KeysOn(q)
<1>1. /\ live' = live /\ level' = level /\ keys' = keys /\ edges' = edges
      /\ prev' = prev /\ next' = next /\ root' = root /\ height' = height
    BY DEF WriteAt
<1>2. first_leaf(m)' = first_leaf(m)
    BY <1>1 DEF first_leaf, Descend
<1>3. TreeOf(m)' = TreeOf(m)
    BY <1>1 DEF TreeOf, Subtree, Children
<1>4. Chain(m, q, n) /\ Offsets(o, KeysOn(q), n)
    BY DEF Leaves
<1>5. Chain(m, q, n)'
    BY <1>1, <1>2, <1>3, <1>4 DEF Chain
<1>6. KeysOn(q)' = KeysOn(q)
    BY <1>1 DEF KeysOn
<1>7. Offsets(o, KeysOn(q), n)'
    BY <1>4, <1>6 DEF Offsets
<1>8. QED
    BY <1>5, <1>6, <1>7 DEF Leaves

\* One value along them is another.
LEMMA WriteVals ==
    ASSUME IInv, IInv', NEW m \in Maps, NEW q, NEW n, NEW o, Leaves(m, q, n, o),
           NEW c, NEW p, AtEntry(c, p, q, n, o), NEW v \in Values, WriteAt(c, v)
    PROVE  /\ ChainVals(m)' \in Seq(Values)
           /\ ChainVals(m)' = [ChainVals(m) EXCEPT ![p] = v]
<1>1. Chain(m, q, n) /\ Offsets(o, KeysOn(q), n)
    BY DEF Leaves
<1>2. Leaves(m, q, n, o)' /\ keys' = keys
    BY WriteLeaves DEF WriteAt
<1>4. n \in Nat /\ \A i \in 1 .. n : q[i] \in Slots
    BY <1>1, ChainKeysOn
<1>5. PICK w, u : w = ChainVals(m) /\ u = ChainVals(m)'
    OBVIOUS
<1>6. PICK N \in Nat : N = o[n + 1]
    <2>1. n + 1 \in 1 .. n + 1
        BY <1>4
    <2>2. o[n + 1] \in Nat
        BY <2>1, LeafOffsets
    <2>3. QED
        BY <2>2
<1>7. /\ w \in Seq(Values) /\ Len(w) = N
      /\ \A i \in 1 .. n : \A j \in 1 .. Len(keys[q[i]]) : w[o[i] + j] = vals[q[i]][j]
    BY <1>5, <1>6, LeavesHold
<1>8. /\ u \in Seq(Values) /\ Len(u) = N
      /\ \A i \in 1 .. n : \A j \in 1 .. Len(keys[q[i]]) : u[o[i] + j] = vals'[q[i]][j]
    BY <1>2, <1>5, <1>6, LeavesHoldPrime
<1>9. PICK i \in 1 .. n : \E j \in 1 .. Len(keys[q[i]]) :
          c = Address(q[i], j - 1) /\ p = o[i] + j
    BY DEF AtEntry
<1>10. PICK j \in 1 .. Len(keys[q[i]]) : c = Address(q[i], j - 1) /\ p = o[i] + j
    BY <1>9
<1>11. c.node = q[i] /\ c.index + 1 = j /\ j \in DOMAIN vals[q[i]] /\ q[i] \in DOMAIN vals
    <2>1. Len(vals[q[i]]) = Len(keys[q[i]]) /\ Len(keys[q[i]]) \in Nat
        BY <1>1, ChainKeysOn, LeafOffsets
    <2>2. vals \in [Slots -> Seq(Values)]
        BY DEF IInv, TypeOK
    <2>3. vals[q[i]] \in Seq(Values)
        BY <1>4, <2>2
    <2>4. QED
        BY <1>4, <1>10, <2>1, <2>2, <2>3 DEF Address
<1>12. /\ vals'[q[i]] = [vals[q[i]] EXCEPT ![j] = v]
       /\ \A s \in Slots : s # q[i] => vals'[s] = vals[s]
    <2>1. vals' = [vals EXCEPT ![q[i]] = [@ EXCEPT ![j] = v]]
        BY <1>11 DEF WriteAt
    <2>2. vals \in [Slots -> Seq(Values)]
        BY DEF IInv, TypeOK
    <2>3. QED
        BY <1>11, <2>1, <2>2
<1>13. ASSUME NEW x \in 1 .. N
       PROVE  u[x] = IF x = p THEN v ELSE w[x]
    <2>0. PICK k \in 1 .. n : \E l \in 1 .. Len(keys[q[k]]) : x = o[k] + l
        BY <1>6, LeafPlace
    <2>1. PICK l \in 1 .. Len(keys[q[k]]) : x = o[k] + l
        BY <2>0
    <2>2. q[k] \in Slots
        BY <1>4
    <2>3. u[x] = vals'[q[k]][l] /\ w[x] = vals[q[k]][l]
        BY <1>7, <1>8, <2>1, <2>2
    <2>5. x = p => k = i /\ l = j
        BY <1>10, <2>1, LeafPlace
    <2>6. CASE k = i
        <3>1. l \in DOMAIN vals[q[i]]
            <4>1. Len(vals[q[i]]) = Len(keys[q[i]]) /\ vals[q[i]] \in Seq(Values)
                BY <1>1, ChainKeysOn
            <4>2. QED
                BY <2>2, <2>6, <4>1
        <3>2. u[x] = IF l = j THEN v ELSE vals[q[i]][l]
            BY <1>12, <2>3, <2>6, <3>1
        <3>3. x = p <=> l = j
            BY <1>10, <2>1, <2>5, <2>6
        <3>4. QED
            BY <2>3, <2>6, <3>2, <3>3
    <2>7. CASE k # i
        <3>1. q[k] # q[i]
            BY <1>1, <2>7, ChainOnce
        <3>2. QED
            BY <1>12, <2>2, <2>3, <2>5, <2>7, <3>1
    <2>8. QED
        BY <2>6, <2>7
<1>14. u = [w EXCEPT ![p] = v]
    <2>1. u = [x \in 1 .. N |-> u[x]] /\ w = [x \in 1 .. N |-> w[x]]
        BY <1>7, <1>8
    <2>2. [w EXCEPT ![p] = v] = [x \in 1 .. N |-> IF x = p THEN v ELSE w[x]]
        BY <2>1
    <2>3. QED
        BY <1>13, <2>1, <2>2
<1>15. QED
    BY <1>5, <1>8, <1>14

-----------------------------------------------------------------------------
(***************************************************************************)
(* The steps of the iterators.                                             *)
(***************************************************************************)

\* An iterator whose value at p is another
LEMMA ValuesIs ==
    ASSUME NEW i \in Iters, NEW p, NEW v
    PROVE  [i EXCEPT !.values[p] = v] =
              [kind |-> i.kind, map |-> i.map, cursor |-> i.cursor,
               back_cursor |-> i.back_cursor, length |-> i.length,
               front |-> i.front, back |-> i.back,
               values |-> [i.values EXCEPT ![p] = v]]
<1>1. i = [kind |-> i.kind, map |-> i.map, cursor |-> i.cursor,
           back_cursor |-> i.back_cursor, length |-> i.length,
           front |-> i.front, back |-> i.back, values |-> i.values]
    BY DEF Iters
<1>2. PICK w : w = [i.values EXCEPT ![p] = v]
    OBVIOUS
<1>3. [i EXCEPT !.values[p] = v] = [i EXCEPT !.values = w]
    BY <1>2
<1>4. [i EXCEPT !.values = w] =
              [kind |-> i.kind, map |-> i.map, cursor |-> i.cursor,
               back_cursor |-> i.back_cursor, length |-> i.length,
               front |-> i.front, back |-> i.back, values |-> w]
    BY <1>1
<1>5. QED
    BY <1>2, <1>3, <1>4, Zenon

\* A write at entry p, and what the client remembers of it
LEMMA WriteKept ==
    ASSUME IInv, IInv', NEW i \in Iters, NEW q, NEW n, NEW o, Leaves(i.map, q, n, o),
           Between(i, q, n, o),
           NEW c, NEW p, AtEntry(c, p, q, n, o), NEW v \in Values, WriteAt(c, v),
           NEW b, b = [i EXCEPT !.values[p] = v]
    PROVE  /\ b \in Iters /\ b.map = i.map
           /\ Leaves(i.map, q, n, o)'
           /\ Between(b, q, n, o)'
<1>1. PICK m : m = i.map
    OBVIOUS
<1>2. m \in Maps /\ Leaves(m, q, n, o) /\ Chain(m, q, n)
    BY <1>1 DEF Iters, Leaves
<1>3. Leaves(m, q, n, o)' /\ Chain(m, q, n)' /\ KeysOn(q)' = KeysOn(q)
    BY <1>2, WriteLeaves
<1>4. ChainKeys(m)' = ChainKeys(m)
    BY <1>2, <1>3, SameKeys
<1>5. /\ ChainVals(m)' \in Seq(Values)
      /\ ChainVals(m)' = [ChainVals(m) EXCEPT ![p] = v]
    BY <1>2, WriteVals
<1>6. PICK w \in Seq(Values) : w = ChainVals(m)'
    BY <1>5
<1>7. i.values = ChainVals(m)
    BY <1>1 DEF Between
<1>8. b = [kind |-> i.kind, map |-> i.map, cursor |-> i.cursor,
           back_cursor |-> i.back_cursor, length |-> i.length,
           front |-> i.front, back |-> i.back, values |-> w]
    <2>1. [i.values EXCEPT ![p] = v] = w
        BY <1>5, <1>6, <1>7
    <2>2. [i EXCEPT !.values[p] = v] =
              [kind |-> i.kind, map |-> i.map, cursor |-> i.cursor,
               back_cursor |-> i.back_cursor, length |-> i.length,
               front |-> i.front, back |-> i.back,
               values |-> [i.values EXCEPT ![p] = v]]
        BY ValuesIs
    <2>3. QED
        BY <2>1, <2>2, Zenon
<1>9. /\ b.map = m /\ b.cursor = i.cursor /\ b.back_cursor = i.back_cursor
      /\ b.length = i.length /\ b.front = i.front /\ b.back = i.back /\ b.values = w
    BY <1>1, <1>8
<1>10. b \in Iters
    <2>1. /\ i.kind \in {"Iter", "IterMut"} /\ i.map \in Maps
          /\ i.cursor \in Cursors /\ i.back_cursor \in Cursors /\ i.length \in Nat
          /\ i.front \in Seq(Keys) /\ i.back \in Seq(Keys) /\ w \in Seq(Values)
        BY <1>6 DEF Iters
    <2>2. QED
        BY ONLY <1>8, <2>1 DEF Iters
<1>11. \A d, x : AtEntry(d, x, q, n, o) <=> AtEntry(d, x, q, n, o)'
    BY DEF WriteAt, AtEntry
<1>12. /\ Len(b.front) + Len(b.back) + b.length = o[n + 1]
       /\ b.length > 0 => /\ AtEntry(b.cursor, Len(b.front) + 1, q, n, o)'
                          /\ AtEntry(b.back_cursor, o[n + 1] - Len(b.back), q, n, o)'
    BY <1>9, <1>11 DEF Between
<1>13. /\ \A x \in 1 .. Len(b.front) : b.front[x] = ChainKeys(m)'[x]
       /\ \A x \in 1 .. Len(b.back) : b.back[x] = ChainKeys(m)'[o[n + 1] + 1 - x]
    BY <1>1, <1>4, <1>9 DEF Between
<1>14. b.values = ChainVals(m)'
    BY <1>6, <1>9
<1>15. Between(b, q, n, o)'
    BY <1>9, <1>12, <1>13, <1>14 DEF Between
<1>16. QED
    BY <1>1, <1>3, <1>9, <1>10, <1>15

\* A new iterator is at the first and at the last entry of its map.
LEMMA IterStarts ==
    ASSUME IInv, Ordered, op = Idle, NEW m \in Maps, NEW kind \in {"Iter", "IterMut"}
    PROVE  /\ IterNew(m, kind) \in Iters /\ IterNew(m, kind).map = m
           /\ \E q, n, o : Leaves(m, q, n, o) /\ Between(IterNew(m, kind), q, n, o)
<1>1. PICK q, n : Chain(m, q, n) /\ (n # 0 => q[n] = last_leaf(m))
    BY ChainFound
<1>2. PICK ss : ss = KeysOn(q)
    OBVIOUS
<1>3. n \in Nat /\ ss \in [1 .. n -> Seq(Keys)]
    BY <1>1, <1>2, ChainKeysOn
<1>4. PICK S : S = Keys
    OBVIOUS
<1>5. \E o : Offsets(o, ss, n)
    BY <1>3, <1>4, OffsetsExist
<1>6. PICK o : Leaves(m, q, n, o)
    BY <1>1, <1>2, <1>5 DEF Leaves
<1>7. Offsets(o, KeysOn(q), n)
    BY <1>6 DEF Leaves
<1>8. /\ length[m] = o[n + 1]
      /\ ChainVals(m) \in Seq(Values) /\ Len(ChainVals(m)) = o[n + 1]
    BY <1>1, <1>7, ChainLength, ChainEntries
<1>9. /\ o[1] = 0 /\ n + 1 \in 1 .. n + 1
      /\ \A i \in 1 .. n + 1 : o[i] \in Nat
      /\ \A i \in 1 .. n : /\ Len(keys[q[i]]) \in Nat /\ Len(keys[q[i]]) >= 1
                           /\ o[i + 1] = o[i] + Len(keys[q[i]])
    BY <1>3, <1>6, LeafOffsets
<1>10. PICK N \in Nat : N = o[n + 1]
    BY <1>9
<1>11. PICK f, l : f = AtStart(FirstLeaf(m)) /\ l = AtEnd(LastLeaf(m))
    OBVIOUS
<1>12. f \in Cursors /\ l \in Cursors
       /\ (N > 0 => AtEntry(f, 1, q, n, o) /\ AtEntry(l, N, q, n, o))
    <2>1. ASSUME NEW s \in Slots \cup {NULL}, NEW x \in Int
          PROVE  Address(s, x) \in Cursors
        BY DEF Address, Cursors
    <2>2. CASE n = 0
        <3>1. FirstLeaf(m) = NULL /\ LastLeaf(m) = NULL /\ N = 0
            BY <1>1, <1>9, <1>10, <2>2 DEF Chain, FirstLeaf, LastLeaf
        <3>2. f = Address(NULL, 0) /\ l = Address(NULL, 0)
            BY <1>11, <3>1 DEF AtStart, AtEnd, Detached
        <3>3. QED
            BY <2>1, <3>1, <3>2
    <2>3. CASE n # 0
        <3>1. 1 \in 1 .. n /\ n \in 1 .. n
            BY <1>3, <2>3
        <3>2. q[1] \in Slots /\ q[n] \in Slots /\ q[n] # NULL
            BY <1>1, <3>1, ChainKeysOn, SlotsAssumption
        <3>3. FirstLeaf(m) = q[1] /\ LastLeaf(m) = q[n]
            BY <1>1, <2>3 DEF Chain, FirstLeaf, LastLeaf
        <3>4. PICK j \in Nat : j = Len(keys[q[n]])
            BY <1>9, <3>1
        <3>5. f = Address(q[1], 0) /\ l = Address(q[n], j - 1)
            BY <1>11, <3>2, <3>3, <3>4 DEF AtStart, AtEnd
        <3>6. f \in Cursors /\ l \in Cursors
            BY <2>1, <3>2, <3>5
        <3>7. AtEntry(f, 1, q, n, o)
            <4>1. 1 \in 1 .. Len(keys[q[1]])
                BY <1>9, <3>1
            <4>2. f = Address(q[1], 1 - 1) /\ 1 = o[1] + 1
                BY <1>9, <3>5
            <4>3. QED
                BY <3>1, <4>1, <4>2 DEF AtEntry
        <3>8. AtEntry(l, N, q, n, o)
            <4>1. j \in 1 .. Len(keys[q[n]])
                BY <1>9, <3>1, <3>4
            <4>2. N = o[n] + j
                BY <1>9, <1>10, <3>1, <3>4
            <4>3. QED
                BY <3>1, <3>5, <4>1, <4>2 DEF AtEntry
        <3>9. QED
            BY <3>6, <3>7, <3>8
    <2>4. QED
        BY <2>2, <2>3
<1>13. PICK b : b = IterNew(m, kind)
    OBVIOUS
<1>14. PICK vs \in Seq(Values) : vs = ChainVals(m)
    BY <1>8
<1>15. b = [kind |-> kind, map |-> m, cursor |-> f, back_cursor |-> l,
            length |-> N, front |-> <<>>, back |-> <<>>, values |-> vs]
    BY <1>8, <1>10, <1>11, <1>13, <1>14 DEF IterNew
<1>16. /\ b.map = m /\ b.cursor = f /\ b.back_cursor = l /\ b.length = N
       /\ b.front = <<>> /\ b.back = <<>> /\ b.values = vs
    BY <1>15
<1>17. b \in Iters
    <2>1. <<>> \in Seq(Keys)
        OBVIOUS
    <2>2. QED
        BY <1>12, <1>15, <2>1 DEF Iters
<1>18. Len(b.front) = 0 /\ Len(b.back) = 0
    BY <1>16
<1>19. Between(b, q, n, o)
    <2>1. Len(b.front) + Len(b.back) + b.length = o[n + 1]
        BY <1>10, <1>16, <1>18
    <2>2. b.length > 0 => /\ AtEntry(b.cursor, Len(b.front) + 1, q, n, o)
                          /\ AtEntry(b.back_cursor, o[n + 1] - Len(b.back), q, n, o)
        <3>1. Len(b.front) + 1 = 1 /\ o[n + 1] - Len(b.back) = N
            BY <1>10, <1>18
        <3>2. QED
            BY <1>12, <1>16, <3>1
    <2>3. /\ \A x \in 1 .. Len(b.front) : b.front[x] = ChainKeys(b.map)[x]
          /\ \A x \in 1 .. Len(b.back) : b.back[x] = ChainKeys(b.map)[o[n + 1] + 1 - x]
        BY <1>18
    <2>4. b.values = ChainVals(b.map)
        BY <1>14, <1>16
    <2>5. QED
        BY <2>1, <2>2, <2>3, <2>4 DEF Between
<1>20. QED
    BY <1>6, <1>13, <1>16, <1>17, <1>19

\* What is so when a map's leaves, their keys and their values stay
LEMMA BetweenStays ==
    ASSUME NEW m \in Maps, NEW q, NEW n, NEW o, Leaves(m, q, n, o),
           Chain(m, q, n)', KeysOn(q)' = KeysOn(q), ValsOn(q)' = ValsOn(q),
           NEW i, i.map = m, Between(i, q, n, o)
    PROVE  Leaves(m, q, n, o)' /\ Between(i, q, n, o)'
<1>1. Chain(m, q, n) /\ Offsets(o, KeysOn(q), n)
    BY DEF Leaves
<1>2. Offsets(o, KeysOn(q), n)'
    BY <1>1 DEF Offsets
<1>3. ChainKeys(m)' = ChainKeys(m) /\ ChainVals(m)' = ChainVals(m)
    BY <1>1, SameKeys, SameVals
<1>4. n \in Nat /\ DOMAIN q = 1 .. n
    BY <1>1 DEF Chain
<1>5. \A x \in 1 .. n : keys'[q[x]] = keys[q[x]]
    <2>1. \A x \in 1 .. n : KeysOn(q)[x] = keys[q[x]]
        BY <1>4 DEF KeysOn
    <2>2. \A x \in 1 .. n : KeysOn(q)'[x] = keys'[q[x]]
        BY <1>4 DEF KeysOn
    <2>3. QED
        BY <2>1, <2>2
<1>6. \A d, x : AtEntry(d, x, q, n, o) <=> AtEntry(d, x, q, n, o)'
    BY <1>5 DEF AtEntry
<1>7. Between(i, q, n, o)'
    BY <1>3, <1>6 DEF Between
<1>8. QED
    BY <1>2, <1>7 DEF Leaves

\* A call on another map, or an iteration of its loop
LEMMA ElsewhereKept ==
    ASSUME IInv, IInv', Ordered, IterInv, CallElsewhere
    PROVE  IterInv'
<1>1. iter' = iter
    BY DEF CallElsewhere
<1>2. CASE iter = NoIter
    BY <1>1, <1>2 DEF IterInv, NoIter
<1>3. CASE iter # NoIter
    <2>1. PICK i \in Iters : i = iter
        BY <1>3 DEF IterInv
    <2>2. PICK m \in Maps : m = i.map
        BY DEF Iters
    <2>3. op # Idle => op.map # m
        BY <1>3, <2>1, <2>2 DEF IterInv
    <2>4. PICK q, n, o : Leaves(m, q, n, o) /\ Between(i, q, n, o)
        BY <1>3, <2>1, <2>2 DEF IterInv
    <2>5. PICK owner, lo, hi : OrderState(owner, lo, hi)
        BY OrderFound
    <2>6. \E a : LeavesOthers(owner, a) /\ a # m /\ (op' = Idle \/ op'.map = a)
        <3>1. CASE \E a \in Maps \ Borrowed : CallOn(a)
            <4>1. PICK a \in Maps \ Borrowed : CallOn(a)
                BY <3>1
            <4>2. a \in Maps /\ a # m
                BY <1>3, <2>1, <2>2 DEF Borrowed
            <4>3. LeavesOthers(owner, a)
                BY <2>5, <4>1, <4>2, CallFrame
            <4>4. op' = Idle \/ op'.map = a
                BY <4>1, <4>2, CallOp
            <4>5. QED
                BY <4>2, <4>3, <4>4
        <3>2. CASE OverflowStep \/ UnderflowStep
            <4>1. op.pc = "overflow" \/ op.pc = "underflow"
                BY <3>2, LoopUnderWay
            <4>2. op # Idle
                BY <4>1 DEF Idle
            <4>3. LeavesOthers(owner, op.map)
                BY <2>5, <3>2, LoopFrame
            <4>4. op' = Idle \/ op'.map = op.map
                BY <2>5, <3>2, LoopOp
            <4>5. QED
                BY <2>3, <4>2, <4>3, <4>4
        <3>3. QED
            BY <3>1, <3>2 DEF CallElsewhere
    <2>7. PICK a : LeavesOthers(owner, a) /\ a # m /\ (op' = Idle \/ op'.map = a)
        BY <2>6
    <2>8. Chain(m, q, n)
        BY <2>4 DEF Leaves
    <2>9. /\ Chain(m, q, n)'
          /\ KeysOn(q)' = KeysOn(q) /\ ValsOn(q)' = ValsOn(q)
        BY <2>5, <2>7, <2>8, ChainStays
    <2>10. Leaves(m, q, n, o)' /\ Between(i, q, n, o)'
        BY <2>2, <2>4, <2>9, BetweenStays
    <2>11. op' # Idle => op'.map # m
        BY <2>7
    <2>12. iter' = i
        BY <1>1, <2>1
    <2>13. QED
        BY <2>2, <2>10, <2>11, <2>12 DEF IterInv
<1>4. QED
    BY <1>2, <1>3

\* A map's leaves, when no variable of the maps changes
LEMMA QuietLeaves ==
    ASSUME UNCHANGED vars, NEW m \in Maps, NEW q, NEW n, Chain(m, q, n)
    PROVE  Chain(m, q, n)' /\ KeysOn(q)' = KeysOn(q) /\ ValsOn(q)' = ValsOn(q)
<1>1. /\ live' = live /\ level' = level /\ keys' = keys /\ vals' = vals /\ edges' = edges
      /\ prev' = prev /\ next' = next /\ root' = root /\ height' = height
    BY DEF vars
<1>2. first_leaf(m)' = first_leaf(m)
    BY <1>1 DEF first_leaf, Descend
<1>3. TreeOf(m)' = TreeOf(m)
    BY <1>1 DEF TreeOf, Subtree, Children
<1>4. Chain(m, q, n)'
    BY <1>1, <1>2, <1>3 DEF Chain
<1>5. QED
    BY <1>1, <1>4 DEF KeysOn, ValsOn

LEMMA MakeKept ==
    ASSUME IInv, Ordered, NEW m \in Maps, iter_of(m) \/ iter_mut_of(m)
    PROVE  IterInv'
<1>1. op = Idle /\ UNCHANGED vars
    BY DEF iter_of, iter_mut_of
<1>2. PICK kind \in {"Iter", "IterMut"} : iter' = IterNew(m, kind)
    BY DEF iter_of, iter_mut_of
<1>3. PICK i : i = IterNew(m, kind)
    OBVIOUS
<1>4. i \in Iters /\ i.map = m
    BY <1>1, <1>3, IterStarts
<1>5. PICK q, n, o : Leaves(m, q, n, o) /\ Between(i, q, n, o)
    BY <1>1, <1>3, IterStarts
<1>6. Chain(m, q, n)' /\ KeysOn(q)' = KeysOn(q) /\ ValsOn(q)' = ValsOn(q)
    BY <1>1, <1>5, QuietLeaves DEF Leaves
<1>7. Leaves(m, q, n, o)' /\ Between(i, q, n, o)'
    BY <1>4, <1>5, <1>6, BetweenStays
<1>8. iter' = i /\ op' = Idle
    BY <1>1, <1>2, <1>3 DEF vars
<1>9. QED
    BY <1>4, <1>7, <1>8 DEF IterInv

\* next and next_back of Iter
LEMMA ReadKept ==
    ASSUME IInv, IInv', IterInv, iter_next \/ iter_next_back
    PROVE  IterInv'
<1>1. /\ UNCHANGED vars /\ op = Idle
      /\ iter.kind = "Iter" /\ iter.length > 0
    BY DEF iter_next, iter_next_back, HasNextEntry
<1>2. iter # NoIter
    BY <1>1 DEF NoIter
<1>3. PICK i \in Iters : i = iter
    BY <1>2 DEF IterInv
<1>4. PICK m \in Maps : m = i.map
    BY DEF Iters
<1>5. PICK q, n, o : Leaves(m, q, n, o) /\ Between(i, q, n, o)
    BY <1>2, <1>3, <1>4 DEF IterInv
<1>6. PICK a : iter' = a /\ (a = Advance(i) \/ a = AdvanceBack(i))
    BY <1>3 DEF iter_next, iter_next_back
<1>7. a \in Iters /\ a.map = m /\ Between(a, q, n, o)
    <2>1. CASE a = Advance(i)
        BY <1>1, <1>3, <1>4, <1>5, <2>1, AdvanceKept
    <2>2. CASE a = AdvanceBack(i)
        BY <1>1, <1>3, <1>4, <1>5, <2>2, AdvanceBackKept
    <2>3. QED
        BY <1>6, <2>1, <2>2
<1>8. Chain(m, q, n)' /\ KeysOn(q)' = KeysOn(q) /\ ValsOn(q)' = ValsOn(q)
    BY <1>1, <1>5, QuietLeaves DEF Leaves
<1>9. Leaves(m, q, n, o)' /\ Between(a, q, n, o)'
    BY <1>5, <1>7, <1>8, BetweenStays
<1>10. iter' = a /\ op' = Idle
    BY <1>1, <1>6 DEF vars
<1>11. QED
    BY <1>7, <1>9, <1>10 DEF IterInv

\* next and next_back of IterMut, with the client's write
LEMMA ModifyKept ==
    ASSUME IInv, IInv', IterInv, NEW v \in Values, iter_mut_next(v) \/ iter_mut_next_back(v)
    PROVE  IterInv'
<1>1. /\ op = Idle /\ iter.kind = "IterMut" /\ iter.length > 0
    BY DEF iter_mut_next, iter_mut_next_back, HasNextEntry
<1>2. iter # NoIter
    BY <1>1 DEF NoIter
<1>3. PICK i \in Iters : i = iter
    BY <1>2 DEF IterInv
<1>4. PICK m \in Maps : m = i.map
    BY DEF Iters
<1>5. PICK q, n, o : Leaves(m, q, n, o) /\ Between(i, q, n, o)
    BY <1>2, <1>3, <1>4 DEF IterInv
<1>6. \E a \in Iters : \E c, p :
          /\ a.map = m /\ Between(a, q, n, o) /\ AtEntry(c, p, q, n, o)
          /\ iter' = [a EXCEPT !.values[p] = v] /\ WriteAt(c, v)
    <2>1. CASE iter_mut_next(v)
        <3>1. PICK a : a = Advance(i)
            OBVIOUS
        <3>2. /\ a \in Iters /\ a.map = m /\ Between(a, q, n, o)
              /\ AtEntry(i.cursor, Len(a.front), q, n, o)
            BY <1>1, <1>3, <1>4, <1>5, <3>1, AdvanceKept
        <3>3. iter' = [a EXCEPT !.values[Len(a.front)] = v] /\ WriteAt(i.cursor, v)
            BY <1>3, <2>1, <3>1 DEF iter_mut_next
        <3>4. QED
            BY <3>2, <3>3
    <2>2. CASE iter_mut_next_back(v)
        <3>1. PICK a : a = AdvanceBack(i)
            OBVIOUS
        <3>2. /\ a \in Iters /\ a.map = m /\ Between(a, q, n, o) /\ a.values = i.values
              /\ AtEntry(i.back_cursor, o[n + 1] + 1 - Len(a.back), q, n, o)
            BY <1>1, <1>3, <1>4, <1>5, <3>1, AdvanceBackKept
        <3>3. iter' = [a EXCEPT !.values[Len(a.values) + 1 - Len(a.back)] = v]
              /\ WriteAt(i.back_cursor, v)
            BY <1>3, <2>2, <3>1 DEF iter_mut_next_back
        <3>4. Len(a.values) = o[n + 1]
            BY <1>4, <1>5, <3>2, LeavesHold DEF Between
        <3>5. QED
            BY <3>2, <3>3, <3>4
    <2>3. QED
        BY <2>1, <2>2
<1>7. PICK a \in Iters : \E c, p :
          /\ a.map = m /\ Between(a, q, n, o) /\ AtEntry(c, p, q, n, o)
          /\ iter' = [a EXCEPT !.values[p] = v] /\ WriteAt(c, v)
    BY <1>6
<1>8. PICK c, p :
          /\ a.map = m /\ Between(a, q, n, o) /\ AtEntry(c, p, q, n, o)
          /\ iter' = [a EXCEPT !.values[p] = v] /\ WriteAt(c, v)
    BY <1>7
<1>9. PICK b : b = [a EXCEPT !.values[p] = v]
    OBVIOUS
<1>10. b \in Iters /\ b.map = m /\ Leaves(m, q, n, o)' /\ Between(b, q, n, o)'
    BY <1>5, <1>8, <1>9, WriteKept
<1>11. iter' = b /\ op' = Idle
    BY <1>1, <1>8, <1>9 DEF WriteAt
<1>12. QED
    BY <1>10, <1>11 DEF IterInv

\* Every step keeps it.
LEMMA IterKept ==
    ASSUME IInv, IInv', Ordered, IterInv, [IterNext]_iterVars
    PROVE  IterInv'
<1>1. CASE CallElsewhere
    BY <1>1, ElsewhereKept
<1>2. CASE \E m \in Maps : iter_of(m) \/ iter_mut_of(m)
    BY <1>2, MakeKept
<1>3. CASE iter_next \/ iter_next_back
    BY <1>3, ReadKept
<1>4. CASE \E v \in Values : iter_mut_next(v) \/ iter_mut_next_back(v)
    BY <1>4, ModifyKept
<1>5. CASE iter_drop
    BY <1>5 DEF iter_drop, IterInv, NoIter
<1>6. CASE UNCHANGED iterVars
    <2>1. UNCHANGED vars /\ iter' = iter
        BY <1>6 DEF iterVars
    <2>2. CASE iter = NoIter
        BY <2>1, <2>2 DEF IterInv, NoIter
    <2>3. CASE iter # NoIter
        <3>1. PICK i \in Iters : i = iter
            BY <2>3 DEF IterInv
        <3>2. PICK m \in Maps : m = i.map
            BY DEF Iters
        <3>3. PICK q, n, o : Leaves(m, q, n, o) /\ Between(i, q, n, o)
            BY <2>3, <3>1, <3>2 DEF IterInv
        <3>4. Chain(m, q, n)' /\ KeysOn(q)' = KeysOn(q) /\ ValsOn(q)' = ValsOn(q)
            BY <2>1, <3>3, QuietLeaves DEF Leaves
        <3>5. Leaves(m, q, n, o)' /\ Between(i, q, n, o)'
            BY <3>2, <3>3, <3>4, BetweenStays
        <3>6. op' = op
            BY <2>1 DEF vars
        <3>7. op' # Idle => op'.map # m
            BY <2>3, <3>1, <3>2, <3>6 DEF IterInv
        <3>8. iter' = i
            BY <2>1, <3>1
        <3>9. QED
            BY <3>2, <3>5, <3>7, <3>8 DEF IterInv
    <2>4. QED
        BY <2>2, <2>3
<1>7. QED
    BY <1>1, <1>2, <1>3, <1>4, <1>5, <1>6 DEF IterNext

\* What IterInv says to a client
LEMMA IterShows ==
    ASSUME IInv, IterInv
    PROVE  CursorsAlive /\ EachEntryOnce /\ WritesOwnEntry
<1>1. SUFFICES ASSUME Borrowing
               PROVE  CursorsAlive /\ EachEntryOnce /\ WritesOwnEntry
    BY DEF CursorsAlive, EachEntryOnce, WritesOwnEntry
<1>2. iter # NoIter
    BY <1>1 DEF Borrowing, NoIter
<1>3. PICK i \in Iters : i = iter
    BY <1>2 DEF IterInv
<1>4. PICK m \in Maps : m = i.map
    BY DEF Iters
<1>5. PICK q, n, o : Leaves(m, q, n, o) /\ Between(i, q, n, o)
    BY <1>2, <1>3, <1>4 DEF IterInv
<1>6. PICK ks \in Seq(Keys) : ks = ChainKeys(m) /\ Len(ks) = o[n + 1]
    BY <1>5, ChainEntries DEF Leaves
<1>7. PICK N \in Nat : N = Len(ks)
    OBVIOUS
<1>8. PICK f \in Seq(Keys), b \in Seq(Keys), L \in Nat :
          f = i.front /\ b = i.back /\ L = i.length
    BY DEF Iters
<1>9. PICK F \in Nat, B \in Nat : F = Len(f) /\ B = Len(b)
    OBVIOUS
<1>10. /\ F + B + L = N
       /\ \A x \in 1 .. F : f[x] = ks[x]
       /\ \A x \in 1 .. B : b[x] = ks[N + 1 - x]
    BY <1>4, <1>5, <1>6, <1>7, <1>8, <1>9 DEF Between
<1>11. CursorsAlive
    <2>1. SUFFICES ASSUME i.length > 0, NEW c \in {i.cursor, i.back_cursor}
                   PROVE  /\ IsAttached(c) /\ IsValid(c)
                          /\ c.node \in TreeOf(m) \cap live
                          /\ level[c.node] = 0
        BY <1>3, <1>4 DEF CursorsAlive
    <2>2. PICK p : AtEntry(c, p, q, n, o)
        BY <1>5, <2>1 DEF Between
    <2>3. QED
        BY <1>5, <2>2, AtEntryIs
<1>12. HandedOutInOrder(i, ks)
    <2>1. Len(i.front) + Len(i.back) + i.length = Len(ks)
        BY <1>7, <1>8, <1>9, <1>10
    <2>2. f = SubSeq(ks, 1, F)
        <3>1. f = [x \in 1 .. F |-> f[x]]
            BY <1>9
        <3>2. PICK g : g = SubSeq(ks, 1, F)
            OBVIOUS
        <3>3. g \in Seq(Keys) /\ Len(g) = F /\ \A x \in 1 .. F : g[x] = ks[x]
            BY <1>7, <1>10, <3>2
        <3>4. g = [x \in 1 .. F |-> g[x]]
            BY <3>3
        <3>5. QED
            BY <1>10, <3>1, <3>2, <3>3, <3>4
    <2>3. b = Reverse(SubSeq(ks, N - B + 1, N))
        <3>1. PICK g : g = SubSeq(ks, N - B + 1, N)
            OBVIOUS
        <3>2. g \in Seq(Keys) /\ Len(g) = B /\ \A x \in 1 .. B : g[x] = ks[N - B + x]
            BY <1>7, <1>10, <3>1
        <3>3. Reverse(g) = [x \in 1 .. B |-> g[B - x + 1]]
            BY <3>2 DEF Reverse
        <3>4. ASSUME NEW x \in 1 .. B
              PROVE  b[x] = g[B - x + 1]
            <4>1. PICK y \in 1 .. B : y = B - x + 1 /\ N - B + y = N + 1 - x
                OBVIOUS
            <4>2. g[y] = ks[N - B + y]
                BY ONLY <3>2, <4>1
            <4>3. b[x] = ks[N + 1 - x]
                BY ONLY <1>10, x \in 1 .. B
            <4>4. QED
                BY ONLY <4>1, <4>2, <4>3
        <3>5. b = [x \in 1 .. B |-> b[x]]
            BY <1>9
        <3>6. QED
            BY <3>1, <3>3, <3>4, <3>5
    <2>4. QED
        BY <1>7, <1>8, <1>9, <2>1, <2>2, <2>3 DEF HandedOutInOrder
<1>13. EachEntryOnce
    BY <1>3, <1>4, <1>6, <1>12 DEF EachEntryOnce
<1>14. WritesOwnEntry
    BY <1>3, <1>4, <1>5 DEF WritesOwnEntry, Between
<1>15. QED
    BY <1>11, <1>13, <1>14

-----------------------------------------------------------------------------
(***************************************************************************)
(* What holds throughout.                                                  *)
(***************************************************************************)

\* The invariant survives iteration: no write through IterMut, at any moment
\* and between any calls on the other maps of the store, breaks a node.
THEOREM InvariantUnderIteration ==
    ASSUME ReuseAfterClear = FALSE
    PROVE  IterSpec => []IInv
<1>1. IterInit => IInv
    BY InitInv DEF IterInit
<1>2. IInv /\ [IterNext]_iterVars => IInv'
    BY IterNextInv
<1>3. QED
    BY <1>1, <1>2, PTL DEF IterSpec

\* A map that is iterated shares no node with the maps that are called
\* meanwhile, although all take their nodes from one store.
THEOREM StoreUnderIteration ==
    ASSUME ReuseAfterClear = FALSE
    PROVE  IterSpec => []StoreAccounted
<1>1. IInv => StoreAccounted
    BY StoreFromInv
<1>2. QED
    BY <1>1, InvariantUnderIteration, PTL

\* So do the order of the keys, the links of the leaves and the count of the
\* entries.
THEOREM OrderUnderIteration ==
    ASSUME ReuseAfterClear = FALSE
    PROVE  IterSpec => []Ordered
<1>1. IterInit => IInv /\ Ordered
    BY InitInv, InitOrder DEF IterInit
<1>2. IInv /\ Ordered /\ [IterNext]_iterVars => (IInv /\ Ordered)'
    BY IterNextInv, IterNextOrder
<1>3. QED
    BY <1>1, <1>2, PTL DEF IterSpec

\* The iterator stays in step with the leaves of its map, whatever the other
\* maps of the store do meanwhile.
THEOREM IterInvHolds ==
    ASSUME ReuseAfterClear = FALSE
    PROVE  IterSpec => []IterInv
<1>1. IterInit => IInv /\ Ordered /\ IterInv
    BY InitInv, InitOrder DEF IterInit, IterInv
<1>2. IInv /\ Ordered /\ IterInv /\ [IterNext]_iterVars => (IInv /\ Ordered /\ IterInv)'
    BY IterNextInv, IterNextOrder, IterKept
<1>3. QED
    BY <1>1, <1>2, PTL DEF IterSpec

\* A cursor that will be read is at an entry of a living leaf of the map that
\* is borrowed: none of the pointers that Iter and IterMut keep across calls
\* on the other maps of the store dangles, nor leads into another map's tree.
THEOREM CursorsStayAlive ==
    ASSUME ReuseAfterClear = FALSE
    PROVE  IterSpec => []CursorsAlive
<1>1. IInv /\ IterInv => CursorsAlive
    BY IterShows
<1>2. QED
    BY <1>1, InvariantUnderIteration, IterInvHolds, PTL

\* What Iter and IterMut hand out at either end are the map's keys in order,
\* each once, and size_hint counts the rest exactly.
THEOREM IterationIsComplete ==
    ASSUME ReuseAfterClear = FALSE
    PROVE  IterSpec => []EachEntryOnce
<1>1. IInv /\ IterInv => EachEntryOnce
    BY IterShows
<1>2. QED
    BY <1>1, InvariantUnderIteration, IterInvHolds, PTL

\* The client's writes through IterMut land at the entries that were handed
\* out, and nothing else becomes of the map's values.
THEOREM WritesStayPut ==
    ASSUME ReuseAfterClear = FALSE
    PROVE  IterSpec => []WritesOwnEntry
<1>1. IInv /\ IterInv => WritesOwnEntry
    BY IterShows
<1>2. QED
    BY <1>1, InvariantUnderIteration, IterInvHolds, PTL

-----------------------------------------------------------------------------
(***************************************************************************)
(* node_bounds and the iterators that stop at an address: BTreeRange.      *)
(***************************************************************************)

\* c is at entry p, or detached if there is none.
Spot(c, p, q, n, o) ==
    IF p \in 1 .. o[n + 1] THEN AtEntry(c, p, q, n, o) ELSE ~IsAttached(c)

\* An entry has one address.
LEMMA OneAddress ==
    ASSUME IInv, NEW m \in Maps, NEW q, NEW n, NEW o, Leaves(m, q, n, o),
           NEW c, NEW p, AtEntry(c, p, q, n, o), NEW d, NEW r, AtEntry(d, r, q, n, o)
    PROVE  c = d <=> p = r
<1>1. PICK i \in 1 .. n : \E j \in 1 .. Len(keys[q[i]]) :
          c = Address(q[i], j - 1) /\ p = o[i] + j
    BY DEF AtEntry
<1>2. PICK j \in 1 .. Len(keys[q[i]]) : c = Address(q[i], j - 1) /\ p = o[i] + j
    BY <1>1
<1>3. PICK k \in 1 .. n : \E l \in 1 .. Len(keys[q[k]]) :
          d = Address(q[k], l - 1) /\ r = o[k] + l
    BY DEF AtEntry
<1>4. PICK l \in 1 .. Len(keys[q[k]]) : d = Address(q[k], l - 1) /\ r = o[k] + l
    BY <1>3
<1>5. j \in Int /\ l \in Int
    <2>1. Len(keys[q[i]]) \in Nat /\ Len(keys[q[k]]) \in Nat
        BY LeafOffsets
    <2>2. QED
        BY <2>1
<1>6. CASE c = d
    <2>1. q[i] = q[k] /\ j - 1 = l - 1
        BY <1>2, <1>4, <1>6 DEF Address
    <2>2. i = k
        BY <2>1, ChainOnce DEF Leaves
    <2>3. j = l
        BY ONLY <1>5, <2>1
    <2>4. QED
        BY <1>2, <1>4, <1>6, <2>2, <2>3
<1>7. CASE p = r
    <2>1. o[i] + j = o[k] + l
        BY <1>2, <1>4, <1>7
    <2>2. i = k /\ j = l
        BY <2>1, LeafPlace
    <2>3. QED
        BY <1>2, <1>4, <1>7, <2>2
<1>8. QED
    BY <1>6, <1>7

\* The entry that the leaf after, and the leaf before, begins and ends with
LEMMA BesideLeaf ==
    ASSUME IInv, NEW m \in Maps, NEW q, NEW n, NEW o, Leaves(m, q, n, o), NEW i \in 1 .. n
    PROVE  /\ AtStart(next[q[i]]) \in Cursors /\ AtEnd(prev[q[i]]) \in Cursors
           /\ Spot(AtStart(next[q[i]]), o[i + 1] + 1, q, n, o)
           /\ Spot(AtEnd(prev[q[i]]), o[i], q, n, o)
<1>1. Chain(m, q, n)
    BY DEF Leaves
<1>2. /\ n \in Nat /\ o[1] = 0
      /\ \A x \in 1 .. n + 1 : o[x] \in Nat
      /\ \A x \in 1 .. n : /\ Len(keys[q[x]]) \in Nat /\ Len(keys[q[x]]) >= 1
                           /\ o[x + 1] = o[x] + Len(keys[q[x]])
      /\ \A x, y \in 1 .. n + 1 : x <= y => o[x] <= o[y]
    BY LeafOffsets
<1>3. /\ next[q[i]] = IF i = n THEN NULL ELSE q[i + 1]
      /\ prev[q[i]] = IF i = 1 THEN NULL ELSE q[i - 1]
    BY <1>1 DEF Chain
<1>4. \A x \in 1 .. n : q[x] \in Slots /\ q[x] # NULL
    BY <1>1, ChainKeysOn, SlotsAssumption
<1>5. PICK a, b : a = AtStart(next[q[i]]) /\ b = AtEnd(prev[q[i]])
    OBVIOUS
<1>6. PICK N \in Nat : N = o[n + 1]
    <2>1. n + 1 \in 1 .. n + 1
        BY <1>2
    <2>2. QED
        BY <1>2, <2>1
<1>7. ASSUME NEW s \in Slots \cup {NULL}, NEW x \in Int
      PROVE  Address(s, x) \in Cursors
    BY DEF Address, Cursors
<1>8. ~IsAttached(Address(NULL, 0))
    BY DEF IsAttached, Address
<1>9. a \in Cursors /\ Spot(a, o[i + 1] + 1, q, n, o)
    <2>1. CASE i = n
        <3>1. a = Address(NULL, 0)
            BY <1>3, <1>5, <2>1 DEF AtStart
        <3>2. o[i + 1] + 1 \notin 1 .. N
            BY <1>6, <2>1
        <3>3. a \in Cursors
            BY <1>7, <3>1
        <3>4. QED
            BY <1>6, <1>8, <3>1, <3>2, <3>3 DEF Spot
    <2>2. CASE i # n
        <3>1. i + 1 \in 1 .. n
            BY <1>2, <2>2
        <3>2. a = Address(q[i + 1], 0)
            BY <1>3, <1>5, <2>2 DEF AtStart
        <3>3. 1 \in 1 .. Len(keys[q[i + 1]]) /\ 1 - 1 = 0
            BY <1>2, <3>1
        <3>4. AtEntry(a, o[i + 1] + 1, q, n, o)
            BY <3>1, <3>2, <3>3 DEF AtEntry
        <3>5. o[i + 1] + 1 \in 1 .. o[n + 1]
            BY <3>4, AtEntryIs
        <3>6. a \in Cursors
            BY <3>4, AtEntryIs
        <3>7. QED
            BY <3>4, <3>5, <3>6 DEF Spot
    <2>3. QED
        BY <2>1, <2>2
<1>10. b \in Cursors /\ Spot(b, o[i], q, n, o)
    <2>1. CASE i = 1
        <3>1. b = Address(NULL, 0)
            BY <1>3, <1>5, <2>1 DEF AtEnd, Detached
        <3>2. o[i] \notin 1 .. N
            BY <1>2, <2>1
        <3>3. b \in Cursors
            BY <1>7, <3>1
        <3>4. QED
            BY <1>6, <1>8, <3>1, <3>2, <3>3 DEF Spot
    <2>2. CASE i # 1
        <3>1. i - 1 \in 1 .. n /\ (i - 1) + 1 = i
            BY <1>2, <2>2
        <3>2. PICK j \in Nat : j = Len(keys[q[i - 1]])
            BY <1>2, <3>1
        <3>3. j \in 1 .. Len(keys[q[i - 1]]) /\ o[i] = o[i - 1] + j
            BY <1>2, <3>1, <3>2
        <3>4. b = Address(q[i - 1], j - 1)
            BY <1>3, <1>4, <1>5, <2>2, <3>1, <3>2 DEF AtEnd
        <3>5. AtEntry(b, o[i], q, n, o)
            BY <3>1, <3>3, <3>4 DEF AtEntry
        <3>6. o[i] \in 1 .. o[n + 1] /\ b \in Cursors
            BY <3>5, AtEntryIs
        <3>7. QED
            BY <3>5, <3>6 DEF Spot
    <2>3. QED
        BY <2>1, <2>2
<1>11. QED
    BY <1>5, <1>9, <1>10

\* The address of an entry, by its place in its leaf
LEMMA PlaceIsEntry ==
    ASSUME IInv, NEW m \in Maps, NEW q, NEW n, NEW o, Leaves(m, q, n, o),
           NEW i \in 1 .. n, NEW x \in Nat, x < Len(keys[q[i]])
    PROVE  AtEntry(Address(q[i], x), o[i] + x + 1, q, n, o)
<1>1. PICK L \in Nat : L = Len(keys[q[i]])
    BY LeafOffsets
<1>2. n \in Nat
    BY LeafOffsets
<1>3. i \in 1 .. n + 1
    BY <1>2
<1>4. PICK y \in Nat : y = o[i]
    BY <1>3, LeafOffsets
<1>5. PICK j \in 1 .. L : j = x + 1
    BY <1>1
<1>6. j - 1 = x /\ y + x + 1 = y + j
    BY ONLY <1>5, x \in Nat, y \in Nat
<1>7. j \in 1 .. Len(keys[q[i]]) /\ Address(q[i], x) = Address(q[i], j - 1)
      /\ o[i] + x + 1 = o[i] + j
    BY <1>1, <1>4, <1>6
<1>8. QED
    BY <1>7 DEF AtEntry

\* The entries that a cursor moves to from entry p
LEMMA AdvancedSpot ==
    ASSUME IInv, NEW m \in Maps, NEW q, NEW n, NEW o, Leaves(m, q, n, o),
           NEW c, NEW p, AtEntry(c, p, q, n, o)
    PROVE  /\ Advanced(c) \in Cursors /\ AdvancedBack(c) \in Cursors
           /\ Spot(Advanced(c), p + 1, q, n, o)
           /\ Spot(AdvancedBack(c), p - 1, q, n, o)
<1>1. c \in Cursors /\ IsAttached(c) /\ p \in 1 .. o[n + 1]
    BY AtEntryIs
<1>2. c.node \in Slots
    BY <1>1 DEF Cursors, IsAttached
<1>3. Advanced(c) \in Cursors /\ AdvancedBack(c) \in Cursors
    BY <1>1, <1>2, AdvancedType
<1>4. n \in Nat
    BY LeafOffsets
<1>5. n + 1 \in 1 .. n + 1
    BY <1>4
<1>6. PICK N \in Nat : N = o[n + 1]
    BY <1>5, LeafOffsets
<1>7. p \in 1 .. N
    BY <1>1, <1>6
<1>8. PICK i \in 1 .. n : \E j \in 1 .. Len(keys[q[i]]) :
          c = Address(q[i], j - 1) /\ p = o[i] + j
    BY DEF AtEntry
<1>9. PICK j \in 1 .. Len(keys[q[i]]) : c = Address(q[i], j - 1) /\ p = o[i] + j
    BY <1>8
<1>10. PICK L \in Nat : L = Len(keys[q[i]])
    BY LeafOffsets
<1>11. c.node = q[i] /\ c.index = j - 1 /\ j \in 1 .. L
    BY <1>9, <1>10 DEF Address
<1>12. PICK y \in Nat : y = o[i]
    <2>1. i \in 1 .. n + 1
        BY <1>4
    <2>2. QED
        BY <2>1, LeafOffsets
<1>13. o[i + 1] = y + L /\ p = y + j
    BY <1>9, <1>10, <1>12, LeafOffsets
<1>14. Spot(Advanced(c), p + 1, q, n, o)
    <2>1. CASE j = L
        <3>1. ~(c.index < L - 1)
            BY <1>11, <2>1
        <3>2. Advanced(c) = AtStart(next[q[i]])
            BY <1>10, <1>11, <3>1 DEF Advanced
        <3>3. p + 1 = o[i + 1] + 1
            BY <1>13, <2>1
        <3>4. QED
            BY <3>2, <3>3, BesideLeaf
    <2>2. CASE j # L
        <3>1. p # N
            <4>1. i + 1 \in 1 .. n + 1 /\ n + 1 \in 1 .. n + 1 /\ i + 1 <= n + 1
                BY <1>4
            <4>2. o[i + 1] <= N
                BY <1>6, <4>1, LeafOffsets
            <4>3. QED
                BY <1>11, <1>12, <1>13, <2>2, <4>2
        <3>2. AtEntry(Advanced(c), p + 1, q, n, o)
            BY <1>6, <3>1, AdvancedPlace
        <3>3. p + 1 \in 1 .. o[n + 1]
            BY <3>2, AtEntryIs
        <3>4. QED
            BY <3>2, <3>3 DEF Spot
    <2>3. QED
        BY <2>1, <2>2
<1>15. Spot(AdvancedBack(c), p - 1, q, n, o)
    <2>1. CASE j = 1
        <3>1. ~(c.index > 0)
            BY <1>11, <2>1
        <3>2. AdvancedBack(c) = AtEnd(prev[q[i]])
            BY <1>11, <3>1 DEF AdvancedBack
        <3>3. p - 1 = o[i]
            BY <1>12, <1>13, <2>1
        <3>4. QED
            BY <3>2, <3>3, BesideLeaf
    <2>2. CASE j # 1
        <3>1. p # 1
            BY <1>11, <1>12, <1>13, <2>2
        <3>2. AtEntry(AdvancedBack(c), p - 1, q, n, o)
            BY <3>1, AdvancedBackPlace
        <3>3. p - 1 \in 1 .. o[n + 1]
            BY <3>2, AtEntryIs
        <3>4. QED
            BY <3>2, <3>3 DEF Spot
    <2>3. QED
        BY <2>1, <2>2
<1>16. QED
    BY <1>3, <1>14, <1>15

\* Keys that rise, on either side of k at place P
LEMMA SidesOf ==
    ASSUME NEW N \in Nat, NEW all, \A x \in 1 .. N : all[x] \in Int,
           \A x, y \in 1 .. N : x < y => all[x] < all[y],
           NEW k \in Int, NEW P \in 0 .. N,
           P \in 1 .. N => all[P] < k, P + 1 \in 1 .. N => k <= all[P + 1]
    PROVE  \A x \in 1 .. N : x <= P <=> all[x] < k
<1>1. ASSUME NEW x \in 1 .. N, x <= P
      PROVE  all[x] < k
    <2>1. P \in 1 .. N /\ all[P] < k /\ all[P] \in Int /\ all[x] \in Int
        BY <1>1
    <2>2. x = P \/ x < P
        BY <1>1
    <2>3. x = P \/ all[x] < all[P]
        BY ONLY <2>1, <2>2, x \in 1 .. N, \A y, z \in 1 .. N : y < z => all[y] < all[z]
    <2>4. QED
        BY ONLY <2>1, <2>3, k \in Int
<1>2. ASSUME NEW x \in 1 .. N, P < x
      PROVE  k <= all[x]
    <2>1. P + 1 \in 1 .. N
        BY <1>2
    <2>2. k <= all[P + 1] /\ all[P + 1] \in Int /\ all[x] \in Int
        BY <2>1
    <2>3. x = P + 1 \/ P + 1 < x
        BY <1>2
    <2>4. x = P + 1 \/ all[P + 1] < all[x]
        BY ONLY <2>1, <2>3, x \in 1 .. N, \A y, z \in 1 .. N : y < z => all[y] < all[z]
    <2>5. QED
        BY ONLY <2>2, <2>4, k \in Int
<1>3. ASSUME NEW x \in 1 .. N
      PROVE  x <= P <=> all[x] < k
    <2>1. x <= P \/ P < x
        OBVIOUS
    <2>2. all[x] \in Int
        OBVIOUS
    <2>3. CASE x <= P
        BY <1>1, <2>3
    <2>4. CASE P < x
        <3>1. k <= all[x]
            BY <1>2, <2>4
        <3>2. ~(all[x] < k) /\ ~(x <= P)
            BY <2>2, <2>4, <3>1
        <3>3. QED
            BY <3>2
    <2>5. QED
        BY <2>1, <2>3, <2>4
<1>4. QED
    BY <1>3

\* Where find() ends for k: P of the map's keys are smaller, those before
\* index idx of leaf i, and k is there or nowhere.
Finds(m, k, i, idx, P, q, n, o) ==
    LET all == ChainKeys(m)
    IN  /\ i \in 1 .. n /\ q[i] = FindLeaf(m, k)
        /\ idx = InsertionIndex(keys[q[i]], k)
        /\ idx \in Nat /\ idx <= Len(keys[q[i]])
        /\ P = o[i] + idx /\ P \in 0 .. o[n + 1]
        /\ \A x \in 1 .. o[n + 1] : x <= P <=> all[x] < k
        /\ IF IsAt(q[i], k)
           THEN /\ idx < Len(keys[q[i]]) /\ P + 1 \in 1 .. o[n + 1]
                /\ \A x \in 1 .. o[n + 1] : all[x] = k <=> x = P + 1
           ELSE \A x \in 1 .. o[n + 1] : all[x] # k

\* The separators lead find() to the leaf whose interval k is in: all leaves
\* before it have smaller keys, all leaves after it greater ones.
LEMMA FindPlace ==
    ASSUME IInv, Ordered, op = Idle, NEW m \in Maps, root[m] # NULL,
           NEW q, NEW n, NEW o, Leaves(m, q, n, o), NEW k \in Keys
    PROVE  \E i, idx, P : Finds(m, k, i, idx, P, q, n, o)
<1>1. PICK owner, lo, hi : OrderState(owner, lo, hi)
    BY OrderFound
<1>2. Chain(m, q, n) /\ Offsets(o, KeysOn(q), n)
    BY DEF Leaves
<1>3. LeafChain(m) = q
    BY <1>2, ChainIsWalk
<1>4. Linked(owner, m, q, n) /\ next[q[n]] = NULL
    <2>1. PICK r : Linked(owner, m, LeafChain(m), r) /\ next[LeafChain(m)[r]] = NULL
        BY <1>1, ChainIs
    <2>2. Len(q) = n
        BY <1>2 DEF Chain
    <2>3. Len(LeafChain(m)) = r
        BY <2>1 DEF Linked
    <2>4. r = n
        BY <1>3, <2>2, <2>3
    <2>5. QED
        BY <1>3, <2>1, <2>4
<1>5. PICK i \in 1 .. n : Spans(lo, hi, q[i], k) /\ q[i] = FindLeaf(m, k)
    BY <1>1, <1>4, LinkedCover
<1>6. /\ n \in Nat /\ o[1] = 0
      /\ \A x \in 1 .. n + 1 : o[x] \in Nat
      /\ \A x \in 1 .. n : /\ Len(keys[q[x]]) \in Nat /\ Len(keys[q[x]]) >= 1
                           /\ o[x + 1] = o[x] + Len(keys[q[x]])
      /\ \A x, y \in 1 .. n + 1 : x <= y => o[x] <= o[y]
    BY LeafOffsets
<1>7. PICK all : all = ChainKeys(m)
    OBVIOUS
<1>8. PICK N \in Nat : N = o[n + 1]
    <2>1. n + 1 \in 1 .. n + 1
        BY <1>6
    <2>2. QED
        BY <1>6, <2>1
<1>9. /\ all \in Seq(Keys) /\ Len(all) = N /\ DOMAIN all = 1 .. N
      /\ \A y \in 1 .. n : \A x \in 1 .. Len(keys[q[y]]) : all[o[y] + x] = keys[q[y]][x]
    BY <1>2, <1>7, <1>8, ChainEntries
<1>10. \A x \in 1 .. N : all[x] \in Int /\ all[x] \in Keys
    <2>1. \A x \in 1 .. N : all[x] \in Keys
        BY <1>9
    <2>2. \A x \in 1 .. N : all[x] \in Int
        BY ONLY <1>9, N \in Nat, KeysAreInts
    <2>3. QED
        BY <2>1, <2>2
<1>11. \A x, y \in 1 .. N : x < y => all[x] < all[y]
    <2>1. LeafOrdered(all, Keys, {})
        BY <1>1, <1>7, ChainKeysAre
    <2>2. QED
        BY <1>9, <2>1 DEF LeafOrdered
<1>12. \A y \in 1 .. n : /\ keys[q[y]] \in Seq(Keys) /\ LeafOrdered(keys[q[y]], lo[q[y]], hi[q[y]])
                         /\ next[q[y]] # NULL => lo[next[q[y]]] = hi[q[y]]
    <2>1. ASSUME NEW y \in 1 .. n
          PROVE  /\ keys[q[y]] \in Seq(Keys) /\ LeafOrdered(keys[q[y]], lo[q[y]], hi[q[y]])
                 /\ next[q[y]] # NULL => lo[next[q[y]]] = hi[q[y]]
        <3>1. Treed(owner, m, q[y]) /\ level[q[y]] = 0
            BY <1>4 DEF Linked
        <3>2. QED
            BY <1>1, <3>1, LeafLinks
    <2>2. QED
        BY <2>1
<1>13. \A y \in 1 .. n : /\ q[y] \in Slots /\ q[y] # NULL /\ lo[q[y]] \in Cuts /\ hi[q[y]] \in Cuts
                         /\ next[q[y]] = IF y = n THEN NULL ELSE q[y + 1]
    <2>1. lo \in [Slots -> Cuts] /\ hi \in [Slots -> Cuts]
        BY <1>1 DEF OrderState
    <2>2. \A y \in 1 .. n : q[y] \in Slots
        BY <1>2, ChainKeysOn
    <2>3. \A y \in 1 .. n : next[q[y]] = IF y = n THEN NULL ELSE q[y + 1]
        BY <1>2 DEF Chain
    <2>4. QED
        BY <2>1, <2>2, <2>3, SlotsAssumption
<1>14. PICK ks, L : ks = keys[q[i]] /\ L = Len(ks)
    OBVIOUS
<1>15. /\ ks \in Seq(Keys) /\ L \in Nat /\ L >= 1 /\ Len(ks) = L /\ DOMAIN ks = 1 .. L
       /\ LeafOrdered(ks, lo[q[i]], hi[q[i]])
       /\ o[i + 1] = o[i] + L
       /\ \A x \in 1 .. L : all[o[i] + x] = ks[x]
    BY <1>6, <1>9, <1>12, <1>14
<1>16. k \in Int /\ ks \in Seq(Int) /\ \A x \in 1 .. L : ks[x] \in Int
    <2>1. k \in Int
        BY KeysAssumption
    <2>2. ks \in Seq(Int) /\ \A x \in 1 .. L : ks[x] \in Int
        BY ONLY <1>15, KeysAreInts
    <2>3. QED
        BY <2>1, <2>2
<1>17. Rises(ks, L)
    BY <1>15 DEF LeafOrdered, Rises
<1>18. PICK j \in 1 .. L + 1 : /\ \A x \in 1 .. L : IF x < j THEN ks[x] < k ELSE k <= ks[x]
                               /\ InsertionIndex(ks, k) = j - 1
    BY ONLY <1>15, <1>16, <1>17, PlaceOf
<1>19. PICK idx \in Nat : idx = j - 1 /\ idx <= L /\ idx = InsertionIndex(ks, k)
    BY <1>15, <1>18
<1>20. PICK b \in Nat : b = o[i]
    <2>1. i \in 1 .. n + 1
        BY <1>6
    <2>2. QED
        BY <1>6, <2>1
<1>21. PICK P \in 0 .. N : P = b + idx /\ b + L <= N
    <2>1. i + 1 \in 1 .. n + 1 /\ n + 1 \in 1 .. n + 1 /\ i + 1 <= n + 1
        BY <1>6
    <2>2. o[i + 1] <= N
        BY <1>6, <1>8, <2>1
    <2>3. b + L <= N
        BY <1>15, <1>20, <2>2
    <2>4. QED
        BY <1>15, <1>19, <2>3
<1>22. ASSUME P \in 1 .. N
       PROVE  all[P] < k
    <2>1. CASE idx # 0
        <3>1. idx \in 1 .. L /\ idx < j
            BY <1>15, <1>19, <2>1
        <3>2. ks[idx] < k
            BY <1>18, <3>1
        <3>3. all[P] = ks[idx]
            BY <1>15, <1>20, <1>21, <3>1
        <3>4. QED
            BY <3>2, <3>3
    <2>2. CASE idx = 0
        <3>1. P = o[i] /\ P # 0
            BY <1>20, <1>21, <1>22, <2>2
        <3>2. i # 1
            BY <1>6, <3>1
        <3>3. PICK h \in 1 .. n : h = i - 1 /\ h + 1 = i /\ h # n
            BY <1>6, <3>2
        <3>4. PICK l \in Nat : l = Len(keys[q[h]]) /\ l \in 1 .. Len(keys[q[h]])
            <4>1. PICK l : l = Len(keys[q[h]])
                OBVIOUS
            <4>2. l \in Nat /\ l >= 1
                BY ONLY <1>6, <4>1, h \in 1 .. n
            <4>3. l \in 1 .. l
                BY ONLY <4>2
            <4>4. QED
                BY ONLY <4>1, <4>2, <4>3
        <3>5. P = o[h] + l
            BY <1>6, <3>1, <3>3, <3>4
        <3>6. all[P] = keys[q[h]][l]
            BY <1>9, <3>4, <3>5
        <3>7. keys[q[h]] \in Seq(Keys) /\ DOMAIN keys[q[h]] = 1 .. Len(keys[q[h]])
            BY <1>12
        <3>8. keys[q[h]][l] \notin hi[q[h]]
            BY <1>12, <3>4, <3>7 DEF LeafOrdered
        <3>9. next[q[h]] = q[i] /\ q[i] # NULL
            BY <1>13, <3>3
        <3>10. lo[q[i]] = hi[q[h]]
            BY <1>12, <3>9
        <3>11. all[P] \notin lo[q[i]] /\ k \in lo[q[i]] /\ lo[q[i]] \in Cuts
            BY <1>5, <1>13, <3>6, <3>8, <3>10 DEF Spans
        <3>12. all[P] \in Keys /\ all[P] \in Int
            BY <1>10, <1>22
        <3>13. ~(k <= all[P])
            BY <3>11, <3>12, CutIs
        <3>14. QED
            BY <1>16, <3>12, <3>13
    <2>3. QED
        BY <2>1, <2>2
<1>23. ASSUME P + 1 \in 1 .. N
       PROVE  k <= all[P + 1]
    <2>1. CASE idx < L
        <3>1. idx + 1 \in 1 .. L /\ ~(idx + 1 < j)
            BY <1>15, <1>19, <2>1
        <3>2. k <= ks[idx + 1]
            BY <1>18, <3>1
        <3>3. P + 1 = o[i] + (idx + 1)
            BY <1>20, <1>21
        <3>4. all[P + 1] = ks[idx + 1]
            BY <1>15, <3>1, <3>3
        <3>5. QED
            BY <3>2, <3>4
    <2>2. CASE idx = L
        <3>1. P + 1 = o[i + 1] + 1
            BY <1>15, <1>20, <1>21, <2>2
        <3>2. i # n
            BY <1>8, <1>23, <3>1
        <3>3. PICK h \in 1 .. n : h = i + 1
            BY <1>6, <3>2
        <3>4. 1 \in 1 .. Len(keys[q[h]])
            BY <1>6
        <3>5. all[P + 1] = keys[q[h]][1]
            BY <1>9, <3>1, <3>3, <3>4
        <3>6. keys[q[h]] \in Seq(Keys) /\ DOMAIN keys[q[h]] = 1 .. Len(keys[q[h]])
            BY <1>12
        <3>7. keys[q[h]][1] \in lo[q[h]]
            BY <1>12, <3>4, <3>6 DEF LeafOrdered
        <3>8. next[q[i]] = q[h] /\ q[h] # NULL
            BY <1>13, <3>2, <3>3
        <3>9. lo[q[h]] = hi[q[i]]
            BY <1>12, <3>8
        <3>10. all[P + 1] \in hi[q[i]] /\ k \notin hi[q[i]] /\ hi[q[i]] \in Cuts
            BY <1>5, <1>13, <3>5, <3>7, <3>9 DEF Spans
        <3>11. all[P + 1] \in Int
            BY <1>10, <1>23
        <3>12. ~(all[P + 1] <= k)
            BY <3>10, CutIs
        <3>13. QED
            BY <1>16, <3>11, <3>12
    <2>3. idx < L \/ idx = L
        BY ONLY <1>15, <1>19, idx \in Nat
    <2>4. QED
        BY <2>1, <2>2, <2>3
<1>24. \A x \in 1 .. N : x <= P <=> all[x] < k
    <2>1. \A x \in 1 .. N : all[x] \in Int
        BY <1>10
    <2>2. (P \in 1 .. N => all[P] < k) /\ (P + 1 \in 1 .. N => k <= all[P + 1])
        BY <1>22, <1>23
    <2>3. QED
        BY ONLY <1>11, <1>16, <2>1, <2>2, N \in Nat, P \in 0 .. N, SidesOf
<1>25. CASE IsAt(q[i], k)
    <2>1. k \in ToSet(ks)
        BY <1>14, <1>25 DEF IsAt
    <2>2. InsertionIndex(ks, k) + 1 \in 1 .. L /\ ks[InsertionIndex(ks, k) + 1] = k
        BY ONLY <1>15, <2>1, IndexOfKey
    <2>3. idx + 1 \in 1 .. L /\ ks[idx + 1] = k
        BY ONLY <1>19, <2>2
    <2>4. P + 1 = o[i] + (idx + 1)
        BY <1>20, <1>21
    <2>5. all[P + 1] = k
        BY <1>15, <2>3, <2>4
    <2>6. idx < L /\ P + 1 \in 1 .. N
        BY <1>15, <1>21, <2>3
    <2>7. ASSUME NEW x \in 1 .. N
          PROVE  all[x] = k <=> x = P + 1
        <3>1. all[x] \in Int /\ (x < P + 1 \/ x = P + 1 \/ P + 1 < x)
            BY <1>10, <2>6
        <3>2. x < P + 1 => all[x] < k
            BY ONLY <1>11, <2>5, <2>6, x \in 1 .. N
        <3>3. P + 1 < x => k < all[x]
            BY ONLY <1>11, <2>5, <2>6, x \in 1 .. N
        <3>4. QED
            BY ONLY <1>16, <2>5, <2>6, <3>1, <3>2, <3>3, x \in 1 .. N
    <2>8. Finds(m, k, i, idx, P, q, n, o)
        BY <1>5, <1>7, <1>8, <1>14, <1>15, <1>19, <1>20, <1>21, <1>24, <1>25, <2>6, <2>7 DEF Finds
    <2>9. QED
        BY <2>8
<1>26. CASE ~IsAt(q[i], k)
    <2>1. LookupComplete
        BY LookupFromOrder
    <2>2. k \notin ToSet(all)
        BY <1>5, <1>7, <1>26, <2>1 DEF LookupComplete
    <2>3. \A x \in 1 .. N : all[x] # k
        BY <1>9, <2>2, SetOf
    <2>4. Finds(m, k, i, idx, P, q, n, o)
        BY <1>5, <1>7, <1>8, <1>14, <1>19, <1>20, <1>21, <1>24, <1>26, <2>3 DEF Finds
    <2>5. QED
        BY <2>4
<1>27. QED
    BY <1>25, <1>26

\* What each of the bounds b says of a key
FromBound(k, b) ==
    (b.kind = "Included" => k >= b.key) /\ (b.kind = "Excluded" => k > b.key)
UpToBound(k, b) ==
    (b.kind = "Included" => k <= b.key) /\ (b.kind = "Excluded" => k < b.key)

\* A bound is of one of three kinds.
LEMMA BoundKinds ==
    ASSUME NEW b \in Bounds
    PROVE  \/ /\ b.kind = "Unbounded"
              /\ \A k : FromBound(k, b) /\ UpToBound(k, b)
           \/ /\ b.kind = "Included" /\ b.key \in Keys
              /\ \A k : (FromBound(k, b) <=> k >= b.key) /\ (UpToBound(k, b) <=> k <= b.key)
           \/ /\ b.kind = "Excluded" /\ b.key \in Keys
              /\ \A k : (FromBound(k, b) <=> k > b.key) /\ (UpToBound(k, b) <=> k < b.key)
<1>1. CASE b \in [kind : {"Included", "Excluded"}, key : Keys]
    <2>1. b.key \in Keys /\ (b.kind = "Included" \/ b.kind = "Excluded")
        BY <1>1
    <2>2. CASE b.kind = "Included"
        BY <2>1, <2>2 DEF FromBound, UpToBound
    <2>3. CASE b.kind = "Excluded"
        BY <2>1, <2>3 DEF FromBound, UpToBound
    <2>4. QED
        BY <2>1, <2>2, <2>3
<1>2. CASE b = Unbounded
    <2>1. b.kind = "Unbounded"
        BY <1>2 DEF Unbounded
    <2>2. QED
        BY <2>1 DEF FromBound, UpToBound
<1>3. QED
    BY <1>1, <1>2 DEF Bounds

\* The start of a range is the first entry that its bound allows.
LEMMA StartPlace ==
    ASSUME IInv, Ordered, op = Idle, NEW m \in Maps, root[m] # NULL,
           NEW q, NEW n, NEW o, Leaves(m, q, n, o), NEW b \in Bounds
    PROVE  /\ StartAddress(m, b) \in Cursors
           /\ \E S \in 0 .. o[n + 1] :
                 /\ Spot(StartAddress(m, b), S + 1, q, n, o)
                 /\ \A x \in 1 .. o[n + 1] : S < x <=> FromBound(ChainKeys(m)[x], b)
<1>1. /\ n \in Nat /\ n # 0 /\ o[1] = 0
      /\ \A x \in 1 .. n + 1 : o[x] \in Nat
      /\ \A x \in 1 .. n : /\ Len(keys[q[x]]) \in Nat /\ Len(keys[q[x]]) >= 1
                           /\ o[x + 1] = o[x] + Len(keys[q[x]])
    <2>1. n # 0
        BY DEF Leaves, Chain
    <2>2. QED
        BY <2>1, LeafOffsets
<1>2. PICK N \in Nat : N = o[n + 1]
    <2>1. n + 1 \in 1 .. n + 1
        BY <1>1
    <2>2. QED
        BY <1>1, <2>1
<1>3. PICK all : all = ChainKeys(m)
    OBVIOUS
<1>4. \A x \in 1 .. N : all[x] \in Int
    <2>1. all \in Seq(Keys) /\ Len(all) = N
        BY <1>2, <1>3, ChainEntries DEF Leaves
    <2>2. QED
        BY ONLY <2>1, N \in Nat, KeysAreInts
<1>5. PICK s : s = StartAddress(m, b)
    OBVIOUS
<1>6. ASSUME NEW c, NEW p, AtEntry(c, p, q, n, o)
      PROVE  c \in Cursors /\ p \in 1 .. N /\ Spot(c, p, q, n, o)
    BY <1>2, <1>6, AtEntryIs DEF Spot
<1>7. CASE b.kind = "Unbounded"
    <2>1. s = AtStart(first_leaf(m))
        BY <1>5, <1>7 DEF StartAddress
    <2>2. first_leaf(m) = q[1]
        BY <1>1 DEF Leaves, Chain
    <2>3. 1 \in 1 .. n /\ 0 < Len(keys[q[1]]) /\ o[1] + 0 + 1 = 0 + 1
        BY <1>1
    <2>4. AtEntry(Address(q[1], 0), o[1] + 0 + 1, q, n, o)
        BY <2>3, PlaceIsEntry
    <2>5. AtEntry(s, 0 + 1, q, n, o)
        BY <2>1, <2>2, <2>3, <2>4 DEF AtStart
    <2>6. s \in Cursors /\ Spot(s, 0 + 1, q, n, o)
        BY <1>6, <2>5
    <2>7. \A x \in 1 .. N : 0 < x <=> FromBound(all[x], b)
        BY <1>7, BoundKinds
    <2>8. 0 \in 0 .. N
        OBVIOUS
    <2>9. QED
        BY <1>2, <1>3, <1>5, <2>6, <2>7, <2>8
<1>8. CASE b.kind # "Unbounded"
    <2>1. PICK k \in Keys : k = b.key
        BY <1>8, BoundKinds
    <2>2. k \in Int
        BY KeysAssumption
    <2>3. PICK i, idx, P : Finds(m, k, i, idx, P, q, n, o)
        BY FindPlace
    <2>4. /\ i \in 1 .. n /\ q[i] = FindLeaf(m, k) /\ idx = InsertionIndex(keys[q[i]], k)
          /\ idx \in Nat /\ idx <= Len(keys[q[i]])
          /\ P = o[i] + idx /\ P \in 0 .. N
          /\ \A x \in 1 .. N : x <= P <=> all[x] < k
          /\ IsAt(q[i], k) => /\ idx < Len(keys[q[i]]) /\ P + 1 \in 1 .. N
                              /\ \A x \in 1 .. N : all[x] = k <=> x = P + 1
          /\ ~IsAt(q[i], k) => \A x \in 1 .. N : all[x] # k
        BY <1>2, <1>3, <2>3 DEF Finds
    <2>5. PICK L \in Nat, y \in Nat : /\ L = Len(keys[q[i]]) /\ y = o[i] /\ o[i + 1] = y + L
                                      /\ L >= 1
        <3>1. i \in 1 .. n + 1
            BY <1>1, <2>4
        <3>2. QED
            BY <1>1, <2>4, <3>1
    <2>6. ASSUME idx < L
          PROVE  AtEntry(Address(q[i], idx), P + 1, q, n, o)
        <3>1. AtEntry(Address(q[i], idx), o[i] + idx + 1, q, n, o)
            BY <2>4, <2>5, <2>6, PlaceIsEntry
        <3>2. QED
            BY <2>4, <3>1
    <2>7. ASSUME NEW x \in 1 .. N
          PROVE  /\ x \in Int /\ P \in Int /\ all[x] \in Int
                 /\ x <= P <=> all[x] < k
        BY <1>4, <2>4
    <2>8. CASE ~IsAt(q[i], k)
        <3>1. s = normalize_address(q[i], idx)
            BY <1>5, <1>8, <2>1, <2>4, <2>8 DEF StartAddress
        <3>2. s \in Cursors /\ Spot(s, P + 1, q, n, o)
            <4>1. CASE idx < L
                <5>1. s = Address(q[i], idx)
                    BY <2>5, <3>1, <4>1 DEF normalize_address
                <5>2. QED
                    BY <1>6, <2>6, <4>1, <5>1
            <4>2. CASE ~(idx < L)
                <5>1. s = AtStart(next[q[i]])
                    BY <2>5, <3>1, <4>2 DEF normalize_address
                <5>2. P + 1 = o[i + 1] + 1
                    BY <2>4, <2>5, <4>2
                <5>3. QED
                    BY <2>4, <5>1, <5>2, BesideLeaf
            <4>3. QED
                BY <4>1, <4>2
        <3>3. \A x \in 1 .. N : P < x <=> FromBound(all[x], b)
            <4>1. ASSUME NEW x \in 1 .. N
                  PROVE  P < x <=> FromBound(all[x], b)
                <5>1. all[x] # k
                    BY <2>4, <2>8
                <5>2. P < x <=> all[x] > k
                    BY ONLY <2>2, <2>7, <5>1, x \in 1 .. N
                <5>3. \/ FromBound(all[x], b) <=> all[x] >= k
                      \/ FromBound(all[x], b) <=> all[x] > k
                    BY <1>8, <2>1, BoundKinds
                <5>4. all[x] >= k <=> all[x] > k
                    BY ONLY <2>2, <2>7, <5>1, x \in 1 .. N
                <5>5. QED
                    BY ONLY <5>2, <5>3, <5>4
            <4>2. QED
                BY <4>1
        <3>4. QED
            BY <1>2, <1>3, <1>5, <2>4, <3>2, <3>3
    <2>9. CASE IsAt(q[i], k) /\ b.kind = "Included"
        <3>1. s = Address(q[i], idx)
            BY <1>5, <1>8, <2>1, <2>4, <2>9 DEF StartAddress
        <3>2. s \in Cursors /\ Spot(s, P + 1, q, n, o)
            BY <1>6, <2>4, <2>5, <2>6, <2>9, <3>1
        <3>3. \A x \in 1 .. N : P < x <=> FromBound(all[x], b)
            <4>1. ASSUME NEW x \in 1 .. N
                  PROVE  P < x <=> FromBound(all[x], b)
                <5>1. P < x <=> all[x] >= k
                    BY ONLY <2>2, <2>7, x \in 1 .. N
                <5>2. FromBound(all[x], b) <=> all[x] >= k
                    BY <2>1, <2>9, BoundKinds
                <5>3. QED
                    BY <5>1, <5>2
            <4>2. QED
                BY <4>1
        <3>4. QED
            BY <1>2, <1>3, <1>5, <2>4, <3>2, <3>3
    <2>10. CASE IsAt(q[i], k) /\ b.kind = "Excluded"
        <3>1. s = address_after(q[i], idx)
            BY <1>5, <1>8, <2>1, <2>4, <2>10 DEF StartAddress
        <3>2. P + 1 \in 0 .. N /\ idx < L /\ \A x \in 1 .. N : all[x] = k <=> x = P + 1
            BY <2>4, <2>5, <2>10
        <3>3. s \in Cursors /\ Spot(s, (P + 1) + 1, q, n, o)
            <4>1. CASE idx < L - 1
                <5>1. s = Address(q[i], idx + 1)
                    BY <2>5, <3>1, <4>1 DEF address_after
                <5>2. idx + 1 \in Nat /\ idx + 1 < Len(keys[q[i]])
                    BY <2>4, <2>5, <4>1
                <5>3. AtEntry(Address(q[i], idx + 1), o[i] + (idx + 1) + 1, q, n, o)
                    BY <2>4, <5>2, PlaceIsEntry
                <5>4. o[i] + (idx + 1) + 1 = (P + 1) + 1
                    BY <2>4, <2>5
                <5>5. QED
                    BY <1>6, <5>1, <5>3, <5>4
            <4>2. CASE ~(idx < L - 1)
                <5>1. s = AtStart(next[q[i]])
                    BY <2>5, <3>1, <4>2 DEF address_after
                <5>2. idx = L - 1 /\ P = y + idx /\ o[i + 1] = y + L /\ idx \in Nat
                    <6>1. idx \in Nat
                        BY <2>4
                    <6>2. idx = L - 1
                        BY ONLY <3>2, <4>2, <6>1, L \in Nat
                    <6>3. QED
                        BY <2>4, <2>5, <6>1, <6>2
                <5>3. (P + 1) + 1 = o[i + 1] + 1
                    BY ONLY <5>2, L \in Nat, y \in Nat
                <5>4. QED
                    BY <2>4, <5>1, <5>3, BesideLeaf
            <4>3. QED
                BY <4>1, <4>2
        <3>4. \A x \in 1 .. N : P + 1 < x <=> FromBound(all[x], b)
            <4>1. ASSUME NEW x \in 1 .. N
                  PROVE  P + 1 < x <=> FromBound(all[x], b)
                <5>1. all[x] = k <=> x = P + 1
                    BY <3>2
                <5>2. P + 1 < x <=> all[x] > k
                    BY ONLY <2>2, <2>7, <5>1, x \in 1 .. N
                <5>3. FromBound(all[x], b) <=> all[x] > k
                    BY <2>1, <2>10, BoundKinds
                <5>4. QED
                    BY <5>2, <5>3
            <4>2. QED
                BY <4>1
        <3>5. QED
            BY <1>2, <1>3, <1>5, <3>2, <3>3, <3>4
    <2>11. QED
        BY <1>8, <2>8, <2>9, <2>10, BoundKinds
<1>9. QED
    BY <1>7, <1>8

\* The end of a range is the last entry that its bound allows.
LEMMA EndPlace ==
    ASSUME IInv, Ordered, op = Idle, NEW m \in Maps, root[m] # NULL,
           NEW q, NEW n, NEW o, Leaves(m, q, n, o), NEW b \in Bounds
    PROVE  /\ EndAddress(m, b) \in Cursors
           /\ \E E \in 0 .. o[n + 1] :
                 /\ Spot(EndAddress(m, b), E, q, n, o)
                 /\ \A x \in 1 .. o[n + 1] : x <= E <=> UpToBound(ChainKeys(m)[x], b)
<1>1. /\ n \in Nat /\ n # 0 /\ n \in 1 .. n /\ o[1] = 0
      /\ \A x \in 1 .. n + 1 : o[x] \in Nat
      /\ \A x \in 1 .. n : /\ Len(keys[q[x]]) \in Nat /\ Len(keys[q[x]]) >= 1
                           /\ o[x + 1] = o[x] + Len(keys[q[x]])
    <2>1. n # 0
        BY DEF Leaves, Chain
    <2>2. n \in Nat
        BY LeafOffsets
    <2>3. n \in 1 .. n
        BY <2>1, <2>2
    <2>4. QED
        BY <2>1, <2>2, <2>3, LeafOffsets
<1>2. PICK N \in Nat : N = o[n + 1]
    <2>1. n + 1 \in 1 .. n + 1
        BY <1>1
    <2>2. QED
        BY <1>1, <2>1
<1>3. PICK all : all = ChainKeys(m)
    OBVIOUS
<1>4. \A x \in 1 .. N : all[x] \in Int
    <2>1. all \in Seq(Keys) /\ Len(all) = N
        BY <1>2, <1>3, ChainEntries DEF Leaves
    <2>2. QED
        BY ONLY <2>1, N \in Nat, KeysAreInts
<1>5. PICK e : e = EndAddress(m, b)
    OBVIOUS
<1>6. ASSUME NEW c, NEW p, AtEntry(c, p, q, n, o)
      PROVE  c \in Cursors /\ p \in 1 .. N /\ Spot(c, p, q, n, o)
    BY <1>2, <1>6, AtEntryIs DEF Spot
<1>7. CASE b.kind = "Unbounded"
    <2>1. e = AtEnd(last_leaf(m))
        BY <1>5, <1>7 DEF EndAddress
    <2>2. last_leaf(m) = q[n]
        <3>1. PICK r, a : Chain(m, r, a) /\ (a # 0 => r[a] = last_leaf(m))
            BY ChainFound
        <3>2. LeafChain(m) = r /\ LeafChain(m) = q
            BY <3>1, ChainIsWalk DEF Leaves
        <3>3. Len(r) = a /\ Len(q) = n
            BY <3>1 DEF Leaves, Chain
        <3>4. r = q /\ a = n
            BY <3>2, <3>3
        <3>5. QED
            BY <1>1, <3>1, <3>4
    <2>3. PICK L \in Nat : L = Len(keys[q[n]]) /\ L >= 1 /\ N = o[n] + L
        BY <1>1, <1>2
    <2>4. q[n] # NULL
        BY <1>1, ChainKeysOn, SlotsAssumption DEF Leaves
    <2>5. e = Address(q[n], L - 1)
        BY <2>1, <2>2, <2>3, <2>4 DEF AtEnd
    <2>6. L - 1 \in Nat /\ L - 1 < Len(keys[q[n]])
        BY <2>3
    <2>7. AtEntry(Address(q[n], L - 1), o[n] + (L - 1) + 1, q, n, o)
        BY <1>1, <2>6, PlaceIsEntry
    <2>8. o[n] + (L - 1) + 1 = N
        <3>1. PICK y \in Nat : y = o[n]
            <4>1. n \in 1 .. n + 1
                BY <1>1
            <4>2. QED
                BY <1>1, <4>1
        <3>2. QED
            BY <2>3, <3>1
    <2>9. e \in Cursors /\ Spot(e, N, q, n, o)
        BY <1>6, <2>5, <2>7, <2>8
    <2>10. \A x \in 1 .. N : x <= N <=> UpToBound(all[x], b)
        BY <1>7, BoundKinds
    <2>11. N \in 0 .. N
        OBVIOUS
    <2>12. QED
        BY <1>2, <1>3, <1>5, <2>9, <2>10, <2>11
<1>8. CASE b.kind # "Unbounded"
    <2>1. PICK k \in Keys : k = b.key
        BY <1>8, BoundKinds
    <2>2. k \in Int
        BY KeysAssumption
    <2>3. PICK i, idx, P : Finds(m, k, i, idx, P, q, n, o)
        BY FindPlace
    <2>4. /\ i \in 1 .. n /\ q[i] = FindLeaf(m, k) /\ idx = InsertionIndex(keys[q[i]], k)
          /\ idx \in Nat /\ idx <= Len(keys[q[i]])
          /\ P = o[i] + idx /\ P \in 0 .. N
          /\ \A x \in 1 .. N : x <= P <=> all[x] < k
          /\ IsAt(q[i], k) => /\ idx < Len(keys[q[i]]) /\ P + 1 \in 1 .. N
                              /\ \A x \in 1 .. N : all[x] = k <=> x = P + 1
          /\ ~IsAt(q[i], k) => \A x \in 1 .. N : all[x] # k
        BY <1>2, <1>3, <2>3 DEF Finds
    <2>5. PICK y \in Nat : y = o[i]
        <3>1. i \in 1 .. n + 1
            BY <1>1, <2>4
        <3>2. QED
            BY <1>1, <3>1
    <2>6. ASSUME NEW x \in 1 .. N
          PROVE  /\ x \in Int /\ P \in Int /\ all[x] \in Int
                 /\ x <= P <=> all[x] < k
        BY <1>4, <2>4
    <2>7. CASE b.kind = "Included" /\ IsAt(q[i], k)
        <3>1. e = Address(q[i], idx)
            BY <1>5, <2>1, <2>4, <2>7 DEF EndAddress
        <3>2. AtEntry(Address(q[i], idx), o[i] + idx + 1, q, n, o)
            BY <2>4, <2>7, PlaceIsEntry
        <3>3. e \in Cursors /\ Spot(e, P + 1, q, n, o)
            BY <1>6, <2>4, <3>1, <3>2
        <3>4. \A x \in 1 .. N : x <= P + 1 <=> UpToBound(all[x], b)
            <4>1. ASSUME NEW x \in 1 .. N
                  PROVE  x <= P + 1 <=> UpToBound(all[x], b)
                <5>1. all[x] = k <=> x = P + 1
                    BY <2>4, <2>7
                <5>2. x <= P + 1 <=> all[x] <= k
                    BY ONLY <2>2, <2>6, <5>1, x \in 1 .. N
                <5>3. UpToBound(all[x], b) <=> all[x] <= k
                    BY <2>1, <2>7, BoundKinds
                <5>4. QED
                    BY <5>2, <5>3
            <4>2. QED
                BY <4>1
        <3>5. P + 1 \in 0 .. N
            BY <2>4, <2>7
        <3>6. QED
            BY <1>2, <1>3, <1>5, <3>3, <3>4, <3>5
    <2>8. CASE ~(b.kind = "Included" /\ IsAt(q[i], k))
        <3>1. e = address_before(q[i], idx)
            BY <1>5, <1>8, <2>1, <2>4, <2>8 DEF EndAddress
        <3>2. e \in Cursors /\ Spot(e, P, q, n, o)
            <4>1. CASE idx > 0
                <5>1. e = Address(q[i], idx - 1)
                    BY <3>1, <4>1 DEF address_before
                <5>2. idx - 1 \in Nat /\ idx - 1 < Len(keys[q[i]])
                    <6>1. Len(keys[q[i]]) \in Nat /\ idx \in Nat
                        BY <1>1, <2>4
                    <6>2. QED
                        BY <2>4, <4>1, <6>1
                <5>3. AtEntry(Address(q[i], idx - 1), o[i] + (idx - 1) + 1, q, n, o)
                    BY <2>4, <5>2, PlaceIsEntry
                <5>4. o[i] + (idx - 1) + 1 = P
                    BY <2>4, <2>5
                <5>5. QED
                    BY <1>6, <5>1, <5>3, <5>4
            <4>2. CASE ~(idx > 0)
                <5>1. e = AtEnd(prev[q[i]])
                    BY <3>1, <4>2 DEF address_before
                <5>2. P = o[i]
                    BY <2>4, <2>5, <4>2
                <5>3. QED
                    BY <2>4, <5>1, <5>2, BesideLeaf
            <4>3. QED
                BY <4>1, <4>2
        <3>3. \A x \in 1 .. N : x <= P <=> UpToBound(all[x], b)
            <4>1. ASSUME NEW x \in 1 .. N
                  PROVE  x <= P <=> UpToBound(all[x], b)
                <5>1. CASE b.kind = "Included"
                    <6>1. all[x] # k
                        BY <2>4, <2>8, <5>1
                    <6>2. x <= P <=> all[x] <= k
                        BY ONLY <2>2, <2>6, <6>1, x \in 1 .. N
                    <6>3. UpToBound(all[x], b) <=> all[x] <= k
                        BY <2>1, <5>1, BoundKinds
                    <6>4. QED
                        BY <6>2, <6>3
                <5>2. CASE b.kind = "Excluded"
                    <6>1. UpToBound(all[x], b) <=> all[x] < k
                        BY <2>1, <5>2, BoundKinds
                    <6>2. QED
                        BY <2>6, <6>1
                <5>3. QED
                    BY <1>8, <5>1, <5>2, BoundKinds
            <4>2. QED
                BY <4>1
        <3>4. QED
            BY <1>2, <1>3, <1>5, <2>4, <3>2, <3>3
    <2>9. QED
        BY <2>7, <2>8
<1>9. QED
    BY <1>7, <1>8

\* The check for overlap is right as long as the end is not before the start
\* by more than the one entry.
LEMMA OverlapPlace ==
    ASSUME IInv, NEW m \in Maps, NEW q, NEW n, NEW o, Leaves(m, q, n, o),
           NEW s, NEW a, AtEntry(s, a, q, n, o), NEW e, NEW b, AtEntry(e, b, q, n, o),
           a <= b + 1
    PROVE  Overlap(s, e) <=> a = b + 1
<1>1. /\ n \in Nat /\ o[1] = 0
      /\ \A x \in 1 .. n + 1 : o[x] \in Nat
      /\ \A x \in 1 .. n : /\ Len(keys[q[x]]) \in Nat /\ Len(keys[q[x]]) >= 1
                           /\ o[x + 1] = o[x] + Len(keys[q[x]])
    BY LeafOffsets
<1>2. PICK i \in 1 .. n : \E j \in 1 .. Len(keys[q[i]]) :
          s = Address(q[i], j - 1) /\ a = o[i] + j
    BY DEF AtEntry
<1>3. PICK j \in 1 .. Len(keys[q[i]]) : s = Address(q[i], j - 1) /\ a = o[i] + j
    BY <1>2
<1>4. PICK k \in 1 .. n : \E l \in 1 .. Len(keys[q[k]]) :
          e = Address(q[k], l - 1) /\ b = o[k] + l
    BY DEF AtEntry
<1>5. PICK l \in 1 .. Len(keys[q[k]]) : e = Address(q[k], l - 1) /\ b = o[k] + l
    BY <1>4
<1>6. PICK L \in Nat, K \in Nat : L = Len(keys[q[i]]) /\ K = Len(keys[q[k]])
    BY <1>1
<1>7. j \in 1 .. L /\ l \in 1 .. K /\ j \in Nat /\ l \in Nat
    BY <1>6
<1>8. PICK y \in Nat, z \in Nat : y = o[i] /\ z = o[k]
    <2>1. i \in 1 .. n + 1 /\ k \in 1 .. n + 1
        BY <1>1
    <2>2. QED
        BY <1>1, <2>1
<1>9. s.node = q[i] /\ s.index = j - 1 /\ e.node = q[k] /\ e.index = l - 1
    BY <1>3, <1>5 DEF Address
<1>10. Chain(m, q, n)
    BY DEF Leaves
<1>11. \A x \in 1 .. n : q[x] # NULL
    BY <1>10, ChainKeysOn, SlotsAssumption
<1>12. prev[q[i]] = IF i = 1 THEN NULL ELSE q[i - 1]
    BY <1>10 DEF Chain
<1>13. ASSUME s.node = e.node /\ s.index = e.index + 1
       PROVE  a = b + 1
    <2>1. q[i] = q[k] /\ j - 1 = (l - 1) + 1
        BY <1>9, <1>13
    <2>2. i = k
        BY <1>10, <2>1, ChainOnce
    <2>3. QED
        BY <1>3, <1>5, <1>7, <1>8, <2>1, <2>2
<1>14. ASSUME s.index = 0 /\ prev[s.node] = e.node
       PROVE  a = b + 1
    <2>1. j = 1 /\ prev[q[i]] = q[k]
        BY <1>7, <1>9, <1>14
    <2>2. i # 1 /\ q[i - 1] = q[k]
        BY <1>11, <1>12, <2>1
    <2>3. i - 1 \in 1 .. n /\ (i - 1) + 1 = i
        BY <1>1, <2>2
    <2>4. k = i - 1
        BY <1>10, <2>2, <2>3, ChainOnce
    <2>5. y = z + K
        BY <1>1, <1>6, <1>8, <2>3, <2>4
    <2>6. a = y + 1 /\ b = z + l /\ l <= K
        BY <1>3, <1>5, <1>7, <1>8, <2>1
    <2>7. QED
        BY ONLY <1>7, <2>5, <2>6, a <= b + 1, y \in Nat, z \in Nat, K \in Nat
<1>15. ASSUME a = b + 1
       PROVE  Overlap(s, e)
    <2>1. y + j = z + l + 1
        BY <1>3, <1>5, <1>8, <1>15
    <2>2. CASE j = 1
        <3>1. y # 0
            BY <1>7, <2>1, <2>2
        <3>2. i # 1
            BY <1>1, <1>8, <3>1
        <3>3. PICK h \in 1 .. n : h = i - 1 /\ h + 1 = i
            BY <1>1, <3>2
        <3>4. PICK H \in Nat : H = Len(keys[q[h]]) /\ H \in 1 .. Len(keys[q[h]])
            <4>1. PICK H : H = Len(keys[q[h]])
                OBVIOUS
            <4>2. H \in Nat /\ H >= 1
                BY ONLY <1>1, <4>1, h \in 1 .. n
            <4>3. H \in 1 .. H
                BY ONLY <4>2
            <4>4. QED
                BY ONLY <4>1, <4>2, <4>3
        <3>5. o[h] + H = o[k] + l
            <4>1. y = o[h] + H
                BY <1>1, <1>8, <3>3, <3>4
            <4>2. y = z + l
                BY <1>7, <2>1, <2>2
            <4>3. QED
                BY <1>8, <4>1, <4>2
        <3>6. h = k
            BY <3>4, <3>5, LeafPlace
        <3>7. prev[s.node] = e.node /\ s.index = 0
            BY <1>9, <1>12, <2>2, <3>2, <3>3, <3>6
        <3>8. QED
            BY <3>7 DEF Overlap
    <2>3. CASE j # 1
        <3>1. j - 1 \in 1 .. Len(keys[q[i]])
            BY <1>6, <1>7, <2>3
        <3>2. o[i] + (j - 1) = o[k] + l
            <4>1. y + (j - 1) = z + l
                BY ONLY <1>7, <2>1, y \in Nat, z \in Nat
            <4>2. QED
                BY ONLY <1>8, <4>1
        <3>3. i = k /\ j - 1 = l
            BY <3>1, <3>2, LeafPlace
        <3>4. s.node = e.node /\ s.index = e.index + 1
            BY <1>7, <1>9, <3>3
        <3>5. QED
            BY <3>4 DEF Overlap
    <2>4. QED
        BY <2>2, <2>3
<1>16. QED
    BY <1>13, <1>14, <1>15 DEF Overlap

\* The entries after the S-th are those that lo asks for, and those up to the
\* E-th those that hi asks for; f are the addresses of the first and the last
\* of those that both do.
Delimits(f, lo, hi, m, S, E, q, n, o) ==
    /\ S \in 0 .. o[n + 1] /\ E \in 0 .. o[n + 1] /\ S <= E
    /\ \A x \in 1 .. o[n + 1] :
          /\ Within(ChainKeys(m)[x], lo, hi) <=> S < x /\ x <= E
          /\ Within(ChainKeys(m)[x], lo, Unbounded) <=> S < x
          /\ Within(ChainKeys(m)[x], Unbounded, hi) <=> x <= E
    /\ IF S = E THEN f = NoBounds
       ELSE AtEntry(f.start, S + 1, q, n, o) /\ AtEntry(f.end, E, q, n, o)

\* What node_bounds() finds, for bounds of whatever order
LEMMA NodeBounds ==
    ASSUME IInv, Ordered, op = Idle, NEW m \in Maps,
           NEW q, NEW n, NEW o, Leaves(m, q, n, o), NEW lo \in Bounds, NEW hi \in Bounds,
           NEW f, f = node_bounds(m, lo, hi)
    PROVE  /\ f \in [start : Cursors, end : Cursors]
           /\ \/ f = NoBounds
              \/ \E a, b : AtEntry(f.start, a, q, n, o) /\ AtEntry(f.end, b, q, n, o)
           /\ BoundsOrdered(lo, hi) => \E S, E : Delimits(f, lo, hi, m, S, E, q, n, o)
<1>1. n \in Nat /\ o[1] = 0 /\ o[n + 1] \in Nat
    <2>1. n \in Nat
        BY LeafOffsets
    <2>2. n + 1 \in 1 .. n + 1
        BY <2>1
    <2>3. QED
        BY <2>1, <2>2, LeafOffsets
<1>2. PICK N \in Nat : N = o[n + 1]
    BY <1>1
<1>3. NoBounds \in [start : Cursors, end : Cursors]
    BY DEF NoBounds, Detached, Address, Cursors
<1>4. CASE root[m] = NULL
    <2>1. f = NoBounds
        BY <1>4 DEF node_bounds
    <2>2. n = 0
        BY <1>4 DEF Leaves, Chain
    <2>3. N = 0
        BY <1>1, <1>2, <2>2
    <2>4. Delimits(f, lo, hi, m, 0, 0, q, n, o)
        BY <1>2, <2>1, <2>3 DEF Delimits
    <2>5. QED
        BY <1>3, <2>1, <2>4
<1>5. CASE root[m] # NULL
    <2>1. PICK all : all = ChainKeys(m)
        OBVIOUS
    <2>2. \A x \in 1 .. N : all[x] \in Int
        <3>1. all \in Seq(Keys) /\ Len(all) = N
            BY <1>2, <2>1, ChainEntries DEF Leaves
        <3>2. QED
            BY ONLY <3>1, N \in Nat, KeysAreInts
    <2>3. PICK s : s = StartAddress(m, lo)
        OBVIOUS
    <2>4. PICK e : e = EndAddress(m, hi)
        OBVIOUS
    <2>5. s \in Cursors /\ \E S \in 0 .. N : /\ Spot(s, S + 1, q, n, o)
                                             /\ \A x \in 1 .. N : S < x <=> FromBound(all[x], lo)
        BY <1>2, <1>5, <2>1, <2>3, StartPlace
    <2>6. PICK S \in 0 .. N : /\ Spot(s, S + 1, q, n, o)
                              /\ \A x \in 1 .. N : S < x <=> FromBound(all[x], lo)
        BY <2>5
    <2>7. e \in Cursors /\ \E E \in 0 .. N : /\ Spot(e, E, q, n, o)
                                             /\ \A x \in 1 .. N : x <= E <=> UpToBound(all[x], hi)
        BY <1>2, <1>5, <2>1, <2>4, EndPlace
    <2>8. PICK E \in 0 .. N : /\ Spot(e, E, q, n, o)
                              /\ \A x \in 1 .. N : x <= E <=> UpToBound(all[x], hi)
        BY <2>7
    <2>9. f = IF ~IsAttached(s) \/ ~IsAttached(e) \/ Overlap(s, e)
              THEN NoBounds ELSE [start |-> s, end |-> e]
        BY <1>5, <2>3, <2>4 DEF node_bounds
    <2>10. f \in [start : Cursors, end : Cursors]
        BY <1>3, <2>5, <2>7, <2>9
    <2>11. /\ IsAttached(s) => S + 1 \in 1 .. N /\ AtEntry(s, S + 1, q, n, o)
           /\ IsAttached(e) => E \in 1 .. N /\ AtEntry(e, E, q, n, o)
        BY <1>2, <2>6, <2>8 DEF Spot
    <2>12. /\ ~IsAttached(s) => S + 1 \notin 1 .. N
           /\ ~IsAttached(e) => E \notin 1 .. N
        <3>1. ASSUME S + 1 \in 1 .. N
              PROVE  IsAttached(s)
            <4>1. AtEntry(s, S + 1, q, n, o)
                BY <1>2, <2>6, <3>1 DEF Spot
            <4>2. QED
                BY <4>1, AtEntryIs
        <3>2. ASSUME E \in 1 .. N
              PROVE  IsAttached(e)
            <4>1. AtEntry(e, E, q, n, o)
                BY <1>2, <2>8, <3>2 DEF Spot
            <4>2. QED
                BY <4>1, AtEntryIs
        <3>3. QED
            BY <3>1, <3>2
    <2>13. \/ f = NoBounds
           \/ /\ f.start = s /\ f.end = e /\ IsAttached(s) /\ IsAttached(e) /\ ~Overlap(s, e)
              /\ AtEntry(f.start, S + 1, q, n, o) /\ AtEntry(f.end, E, q, n, o)
        BY <2>9, <2>11
    <2>14. ASSUME BoundsOrdered(lo, hi)
           PROVE  Delimits(f, lo, hi, m, S, E, q, n, o)
        <3>1. S <= E
            <4>1. SUFFICES ASSUME E < S PROVE FALSE
                OBVIOUS
            <4>2. PICK x \in 1 .. N : x = E + 1
                BY <4>1
            <4>3. ~(S < x) /\ ~(x <= E)
                BY <4>1, <4>2
            <4>4. ~FromBound(all[x], lo) /\ ~UpToBound(all[x], hi)
                BY <2>6, <2>8, <4>3
            <4>5. PICK k \in Int : k = all[x]
                BY <2>2
            <4>6. \/ lo.kind = "Included" /\ lo.key \in Keys /\ ~(k >= lo.key)
                  \/ lo.kind = "Excluded" /\ lo.key \in Keys /\ ~(k > lo.key)
                BY <4>4, <4>5, BoundKinds
            <4>7. \/ hi.kind = "Included" /\ hi.key \in Keys /\ ~(k <= hi.key)
                  \/ hi.kind = "Excluded" /\ hi.key \in Keys /\ ~(k < hi.key)
                BY <4>4, <4>5, BoundKinds
            <4>8. lo.key \in Int /\ hi.key \in Int
                BY <4>6, <4>7, KeysAssumption
            <4>9. \/ lo.key < hi.key
                  \/ lo.key = hi.key /\ (lo.kind = "Included" \/ hi.kind = "Included")
                BY <2>14, <4>6, <4>7 DEF BoundsOrdered
            <4>10. k <= lo.key /\ k >= hi.key
                BY ONLY <4>6, <4>7, <4>8, k \in Int
            <4>11. lo.key = hi.key /\ k = lo.key
                BY ONLY <4>8, <4>9, <4>10, k \in Int
            <4>12. lo.kind = "Excluded" /\ hi.kind = "Excluded"
                BY ONLY <4>6, <4>7, <4>8, <4>11, k \in Int
            <4>13. QED
                BY <4>8, <4>9, <4>11, <4>12
        <3>2. \A x \in 1 .. N : /\ Within(all[x], lo, hi) <=> S < x /\ x <= E
                                /\ Within(all[x], lo, Unbounded) <=> S < x
                                /\ Within(all[x], Unbounded, hi) <=> x <= E
            <4>1. ASSUME NEW k
                  PROVE  /\ Within(k, lo, hi) <=> FromBound(k, lo) /\ UpToBound(k, hi)
                         /\ Within(k, lo, Unbounded) <=> FromBound(k, lo)
                         /\ Within(k, Unbounded, hi) <=> UpToBound(k, hi)
                BY DEF Within, FromBound, UpToBound, Unbounded
            <4>2. QED
                BY <2>6, <2>8, <4>1
        <3>3. CASE S = E
            <4>1. IsAttached(s) /\ IsAttached(e) => Overlap(s, e)
                <5>1. ASSUME IsAttached(s) /\ IsAttached(e)
                      PROVE  Overlap(s, e)
                    <6>1. AtEntry(s, S + 1, q, n, o) /\ AtEntry(e, E, q, n, o) /\ S + 1 = E + 1
                          /\ S + 1 <= E + 1
                        BY <2>11, <3>3, <5>1
                    <6>2. QED
                        BY <6>1, OverlapPlace
                <5>2. QED
                    BY <5>1
            <4>2. f = NoBounds
                BY <2>9, <4>1
            <4>3. QED
                BY <1>2, <2>1, <3>1, <3>2, <3>3, <4>2 DEF Delimits
        <3>4. CASE S # E
            <4>1. S + 1 \in 1 .. N /\ E \in 1 .. N /\ S + 1 <= E + 1 /\ S + 1 # E + 1
                BY <3>1, <3>4
            <4>2. IsAttached(s) /\ IsAttached(e)
                BY <2>12, <4>1
            <4>3. AtEntry(s, S + 1, q, n, o) /\ AtEntry(e, E, q, n, o)
                BY <2>11, <4>2
            <4>4. ~Overlap(s, e)
                BY <4>1, <4>3, OverlapPlace
            <4>5. f = [start |-> s, end |-> e]
                BY <2>9, <4>2, <4>4
            <4>6. AtEntry(f.start, S + 1, q, n, o) /\ AtEntry(f.end, E, q, n, o)
                BY <4>3, <4>5
            <4>7. QED
                BY <1>2, <2>1, <3>1, <3>2, <3>4, <4>6 DEF Delimits
        <3>5. QED
            BY <3>3, <3>4
    <2>15. QED
        BY <2>10, <2>13, <2>14
<1>6. QED
    BY <1>4, <1>5

\* The keys behind the S-th one and up to the E-th one are those within the
\* bounds, and w is those keys.
Encloses(all, N, lo, hi, S, E) ==
    /\ N \in Nat /\ all \in Seq(Keys) /\ Len(all) = N
    /\ S \in 0 .. N /\ E \in 0 .. N /\ S <= E
    /\ \A x \in 1 .. N : Within(all[x], lo, hi) <=> S < x /\ x <= E

IsPart(w, all, S, E) ==
    /\ w \in Seq(Keys) /\ Len(w) = E - S
    /\ \A y \in 1 .. E - S : w[y] = all[S + y]

LEMMA KeysWithinAre ==
    ASSUME NEW all, NEW N, NEW lo, NEW hi, NEW S, NEW E, Encloses(all, N, lo, hi, S, E)
    PROVE  IsPart(KeysWithin(all, lo, hi), all, S, E)
<1> SUFFICES ASSUME N \in Nat, all \in Seq(Keys), Len(all) = N,
                    S \in 0 .. N, E \in 0 .. N, S <= E,
                    \A x \in 1 .. N : Within(all[x], lo, hi) <=> S < x /\ x <= E
             PROVE  /\ KeysWithin(all, lo, hi) \in Seq(Keys)
                    /\ Len(KeysWithin(all, lo, hi)) = E - S
                    /\ \A y \in 1 .. E - S : KeysWithin(all, lo, hi)[y] = all[S + y]
    BY DEF Encloses, IsPart
<1>1. DOMAIN all = 1 .. N /\ \A x \in 1 .. N : all[x] \in Keys
    OBVIOUS
<1>2. PICK ss : ss = [i \in 1 .. N |-> IF Within(all[i], lo, hi) THEN <<all[i]>> ELSE <<>>]
    OBVIOUS
<1>3. \A i \in 1 .. N : ss[i] = IF S < i /\ i <= E THEN <<all[i]>> ELSE <<>>
    BY <1>2
<1>4. ss \in [1 .. N -> Seq(Keys)]
    <2>1. ASSUME NEW i \in 1 .. N
          PROVE  ss[i] \in Seq(Keys)
        <3>1. ss[i] = <<all[i]>> \/ ss[i] = <<>>
            BY <1>3
        <3>2. <<all[i]>> \in Seq(Keys) /\ <<>> \in Seq(Keys)
            BY <1>1
        <3>3. QED
            BY <3>1, <3>2
    <2>2. QED
        BY <1>2, <2>1
<1>5. ss \in Seq(Seq(Keys)) /\ Len(ss) = N
    <2>1. PICK T : T = Seq(Keys)
        OBVIOUS
    <2>2. ss \in [1 .. N -> T]
        BY <1>4, <2>1
    <2>3. ss \in Seq(T) /\ Len(ss) = N
        BY ONLY <2>2, N \in Nat
    <2>4. QED
        BY <2>1, <2>3
<1>6. PICK o : o = [i \in 1 .. N + 1 |-> IF i - 1 <= S THEN 0 ELSE IF i - 1 <= E THEN i - 1 - S ELSE E - S]
    OBVIOUS
<1>7. \A i \in 1 .. N + 1 : o[i] = IF i - 1 <= S THEN 0 ELSE IF i - 1 <= E THEN i - 1 - S ELSE E - S
    BY <1>6
<1>8. Offsets(o, ss, N)
    <2>1. o \in [1 .. N + 1 -> Nat]
        BY <1>6
    <2>2. o[1] = 0
        BY <1>7
    <2>3. ASSUME NEW i \in 1 .. N
          PROVE  o[i + 1] = o[i] + Len(ss[i])
        <3>1. Len(ss[i]) = IF S < i /\ i <= E THEN 1 ELSE 0
            <4>1. Len(<<all[i]>>) = 1 /\ Len(<<>>) = 0
                OBVIOUS
            <4>2. CASE S < i /\ i <= E
                BY <1>3, <4>1, <4>2
            <4>3. CASE ~(S < i /\ i <= E)
                BY <1>3, <4>1, <4>3
            <4>4. QED
                BY <4>2, <4>3
        <3>2. i \in 1 .. N + 1 /\ i + 1 \in 1 .. N + 1
            OBVIOUS
        <3>3. /\ o[i] = IF i - 1 <= S THEN 0 ELSE IF i - 1 <= E THEN i - 1 - S ELSE E - S
              /\ o[i + 1] = IF i <= S THEN 0 ELSE IF i <= E THEN i - S ELSE E - S
            BY <1>7, <3>2
        <3>4. QED
            BY <3>1, <3>3
    <2>4. QED
        BY <2>1, <2>2, <2>3 DEF Offsets
<1>9. PICK w : w = KeysWithin(all, lo, hi)
    OBVIOUS
<1>10. w = FlattenSeq(ss)
    BY <1>1, <1>2, <1>9 DEF KeysWithin
<1>11. Joins(w, Keys, ss, N, o)
    <2>1. PICK T : T = Keys
        OBVIOUS
    <2>2. ss \in Seq(Seq(T))
        BY <1>5, <2>1
    <2>3. Joins(FlattenSeq(ss), T, ss, N, o)
        BY ONLY <1>5, <1>8, <2>2, N \in Nat, JoinIs
    <2>4. QED
        BY <1>10, <2>1, <2>3
<1>12. w \in Seq(Keys) /\ Len(w) = o[N + 1]
       /\ \A i \in 1 .. N : \A j \in 1 .. Len(ss[i]) : w[o[i] + j] = ss[i][j]
    BY <1>11 DEF Joins
<1>13. o[N + 1] = E - S
    <2>1. N + 1 \in 1 .. N + 1
        OBVIOUS
    <2>2. QED
        BY <1>7, <2>1
<1>14. ASSUME NEW y \in 1 .. E - S
       PROVE  w[y] = all[S + y]
    <2>1. PICK i \in 1 .. N : i = S + y
        OBVIOUS
    <2>2. S < i /\ i <= E
        BY <2>1
    <2>3. ss[i] = <<all[i]>>
        BY <1>3, <2>2
    <2>4. 1 \in 1 .. Len(ss[i]) /\ ss[i][1] = all[i]
        BY <2>3
    <2>5. w[o[i] + 1] = all[i]
        BY <1>12, <2>4
    <2>6. o[i] = i - 1 - S
        <3>1. i \in 1 .. N + 1
            OBVIOUS
        <3>2. QED
            BY <1>7, <2>2, <3>1
    <2>7. o[i] + 1 = y
        BY <2>1, <2>6
    <2>8. QED
        BY <2>1, <2>5, <2>7
<1>15. QED
    BY <1>9, <1>12, <1>13, <1>14

-----------------------------------------------------------------------------
(***************************************************************************)
(* A range as long as it exists.  Its map is borrowed and not called.      *)
(***************************************************************************)
Ranges ==
    [kind : {"Range", "RangeMut"}, map : Maps, lo : Bounds, hi : Bounds,
     bounds : [start : Cursors, end : Cursors], cursor : Cursors, back_cursor : Cursors,
     front : Seq(Keys), back : Seq(Keys)]

\* A cursor that is read only if it is at an entry
Readable(c, q, n, o) == IsAttached(c) => \E p : AtEntry(c, p, q, n, o)

\* Each end has handed out the entries from its bound on, those up to where it
\* is. It is ahead of the far bound, unless exactly one entry is within the
\* bounds: then it has passed it from the start. Once both ends stand still, one
\* of them got to the entry before the far bound.
Ahead(r, S, E, q, n, o) ==
    LET ks == ChainKeys(r.map)
        f == Len(r.front)
        b == Len(r.back)
    IN  /\ \A x \in 1 .. f : S + x \in 1 .. o[n + 1] /\ r.front[x] = ks[S + x]
        /\ \A x \in 1 .. b : E + 1 - x \in 1 .. o[n + 1] /\ r.back[x] = ks[E + 1 - x]
        /\ E # S + 1 => (f = 0 \/ f < E - S) /\ (b = 0 \/ b < E - S)
        /\ IsAttached(r.cursor) =>
              AtEntry(r.cursor, S + f + 1, q, n, o) /\ (E # S + 1 => S + f + 1 < E)
        /\ IsAttached(r.back_cursor) =>
              AtEntry(r.back_cursor, E - b, q, n, o) /\ (E # S + 1 => S + 1 < E - b)
        /\ ~IsAttached(r.cursor) /\ ~IsAttached(r.back_cursor) =>
              E - S <= f + 1 \/ E - S <= b + 1

\* Bounds out of order ask for nothing, and then only that what is read is
\* alive is claimed.
Roams(r, q, n, o) ==
    /\ Readable(r.cursor, q, n, o) /\ Readable(r.back_cursor, q, n, o)
    /\ BoundsOrdered(r.lo, r.hi) =>
          \E S, E : /\ Delimits(r.bounds, r.lo, r.hi, r.map, S, E, q, n, o)
                    /\ Ahead(r, S, E, q, n, o)

\* The inductive invariant of a range
RangeInv ==
    range # NoRange =>
        /\ range \in Ranges /\ op = Idle
        /\ \E q, n, o : Leaves(range.map, q, n, o) /\ Roams(range, q, n, o)

\* detach() of a cursor
LEMMA DetachIs ==
    ASSUME NEW c \in Cursors
    PROVE  detach(c) \in Cursors /\ ~IsAttached(detach(c))
BY DEF detach, Cursors, IsAttached

\* A step of either end, field by field
LEMMA AdvanceRangeIs ==
    ASSUME NEW r \in Ranges, NEW k, NEW c, c = Advanced(r.cursor), NEW d, d = AdvancedBack(r.back_cursor)
    PROVE  /\ AdvanceRange([r EXCEPT !.front = Append(@, k)]) =
                [kind |-> r.kind, map |-> r.map, lo |-> r.lo, hi |-> r.hi, bounds |-> r.bounds,
                 cursor |-> IF IsAttached(c) /\ c = r.bounds.end THEN detach(c) ELSE c,
                 back_cursor |-> IF ~IsAttached(c) \/ c = r.bounds.end
                                 THEN detach(r.back_cursor) ELSE r.back_cursor,
                 front |-> Append(r.front, k), back |-> r.back]
           /\ AdvanceRangeBack([r EXCEPT !.back = Append(@, k)]) =
                [kind |-> r.kind, map |-> r.map, lo |-> r.lo, hi |-> r.hi, bounds |-> r.bounds,
                 cursor |-> IF ~IsAttached(d) \/ d = r.bounds.start
                            THEN detach(r.cursor) ELSE r.cursor,
                 back_cursor |-> IF IsAttached(d) /\ d = r.bounds.start THEN detach(d) ELSE d,
                 front |-> r.front, back |-> Append(r.back, k)]
<1>1. r = [kind |-> r.kind, map |-> r.map, lo |-> r.lo, hi |-> r.hi, bounds |-> r.bounds,
           cursor |-> r.cursor, back_cursor |-> r.back_cursor,
           front |-> r.front, back |-> r.back]
    BY DEF Ranges
<1>2. PICK a : a = [kind |-> r.kind, map |-> r.map, lo |-> r.lo, hi |-> r.hi, bounds |-> r.bounds,
                    cursor |-> r.cursor, back_cursor |-> r.back_cursor,
                    front |-> Append(r.front, k), back |-> r.back]
    OBVIOUS
<1>3. [r EXCEPT !.front = Append(@, k)] = a
    <2>1. PICK g : g = Append(r.front, k)
        OBVIOUS
    <2>2. [r EXCEPT !.front = g] =
              [kind |-> r.kind, map |-> r.map, lo |-> r.lo, hi |-> r.hi, bounds |-> r.bounds,
               cursor |-> r.cursor, back_cursor |-> r.back_cursor, front |-> g, back |-> r.back]
        BY <1>1
    <2>3. [r EXCEPT !.front = Append(@, k)] = [r EXCEPT !.front = g]
        BY <2>1
    <2>4. QED
        BY ONLY <1>2, <2>1, <2>2, <2>3
<1>4. PICK b : b = [kind |-> r.kind, map |-> r.map, lo |-> r.lo, hi |-> r.hi, bounds |-> r.bounds,
                    cursor |-> r.cursor, back_cursor |-> r.back_cursor,
                    front |-> r.front, back |-> Append(r.back, k)]
    OBVIOUS
<1>5. [r EXCEPT !.back = Append(@, k)] = b
    <2>1. PICK g : g = Append(r.back, k)
        OBVIOUS
    <2>2. [r EXCEPT !.back = g] =
              [kind |-> r.kind, map |-> r.map, lo |-> r.lo, hi |-> r.hi, bounds |-> r.bounds,
               cursor |-> r.cursor, back_cursor |-> r.back_cursor, front |-> r.front, back |-> g]
        BY <1>1
    <2>3. [r EXCEPT !.back = Append(@, k)] = [r EXCEPT !.back = g]
        BY <2>1
    <2>4. QED
        BY ONLY <1>4, <2>1, <2>2, <2>3
<1>6. AdvanceRange(a) =
          [kind |-> r.kind, map |-> r.map, lo |-> r.lo, hi |-> r.hi, bounds |-> r.bounds,
           cursor |-> IF IsAttached(c) /\ c = r.bounds.end THEN detach(c) ELSE c,
           back_cursor |-> IF ~IsAttached(c) \/ c = r.bounds.end
                           THEN detach(r.back_cursor) ELSE r.back_cursor,
           front |-> Append(r.front, k), back |-> r.back]
    <2>1. a.cursor = r.cursor /\ a.bounds = r.bounds /\ Advanced(a.cursor) = c
        BY <1>2
    <2>2. CASE ~IsAttached(c)
        BY <1>2, <2>1, <2>2 DEF AdvanceRange
    <2>3. CASE IsAttached(c) /\ c = r.bounds.end
        BY <1>2, <2>1, <2>3 DEF AdvanceRange
    <2>4. CASE IsAttached(c) /\ c # r.bounds.end
        BY <1>2, <2>1, <2>4 DEF AdvanceRange
    <2>5. QED
        BY <2>2, <2>3, <2>4
<1>7. AdvanceRangeBack(b) =
          [kind |-> r.kind, map |-> r.map, lo |-> r.lo, hi |-> r.hi, bounds |-> r.bounds,
           cursor |-> IF ~IsAttached(d) \/ d = r.bounds.start
                      THEN detach(r.cursor) ELSE r.cursor,
           back_cursor |-> IF IsAttached(d) /\ d = r.bounds.start THEN detach(d) ELSE d,
           front |-> r.front, back |-> Append(r.back, k)]
    <2>1. b.back_cursor = r.back_cursor /\ b.bounds = r.bounds /\ AdvancedBack(b.back_cursor) = d
        BY <1>4
    <2>2. CASE ~IsAttached(d)
        BY <1>4, <2>1, <2>2 DEF AdvanceRangeBack
    <2>3. CASE IsAttached(d) /\ d = r.bounds.start
        BY <1>4, <2>1, <2>3 DEF AdvanceRangeBack
    <2>4. CASE IsAttached(d) /\ d # r.bounds.start
        BY <1>4, <2>1, <2>4 DEF AdvanceRangeBack
    <2>5. QED
        BY <2>2, <2>3, <2>4
<1>8. QED
    BY <1>3, <1>5, <1>6, <1>7

\* An appended key is the last.
LEMMA AppendedKey ==
    ASSUME NEW f \in Seq(Keys), NEW k \in Keys
    PROVE  /\ Append(f, k) \in Seq(Keys) /\ Len(Append(f, k)) = Len(f) + 1
           /\ \A x \in 1 .. Len(f) + 1 : Append(f, k)[x] = IF x = Len(f) + 1 THEN k ELSE f[x]
OBVIOUS

\* next()
LEMMA RangeAdvances ==
    ASSUME IInv, NEW r \in Ranges, NEW q, NEW n, NEW o, Leaves(r.map, q, n, o),
           Roams(r, q, n, o), IsAttached(r.cursor),
           NEW a, a = AdvanceRange([r EXCEPT !.front = Append(@, CursorKey(r.cursor))])
    PROVE  a \in Ranges /\ a.map = r.map /\ Roams(a, q, n, o)
<1>1. PICK m \in Maps : m = r.map /\ Leaves(m, q, n, o)
    BY DEF Ranges
<1>2. PICK N \in Nat : N = o[n + 1]
    <2>1. n \in Nat
        BY <1>1, LeafOffsets
    <2>2. n + 1 \in 1 .. n + 1
        BY <2>1
    <2>3. QED
        BY <1>1, <2>2, LeafOffsets
<1>3. PICK k : k = CursorKey(r.cursor)
    OBVIOUS
<1>4. PICK c, d : c = Advanced(r.cursor) /\ d = AdvancedBack(r.back_cursor)
    OBVIOUS
<1>5. a = [kind |-> r.kind, map |-> r.map, lo |-> r.lo, hi |-> r.hi, bounds |-> r.bounds,
           cursor |-> IF IsAttached(c) /\ c = r.bounds.end THEN detach(c) ELSE c,
           back_cursor |-> IF ~IsAttached(c) \/ c = r.bounds.end
                           THEN detach(r.back_cursor) ELSE r.back_cursor,
           front |-> Append(r.front, k), back |-> r.back]
    BY <1>3, <1>4, AdvanceRangeIs
<1>6. /\ a.kind = r.kind /\ a.map = m /\ a.lo = r.lo /\ a.hi = r.hi
      /\ a.bounds = r.bounds /\ a.back = r.back
      /\ a.front = Append(r.front, k)
      /\ a.cursor = IF IsAttached(c) /\ c = r.bounds.end THEN detach(c) ELSE c
      /\ a.back_cursor = IF ~IsAttached(c) \/ c = r.bounds.end
                         THEN detach(r.back_cursor) ELSE r.back_cursor
    <2>1. PICK x, y, g :
              /\ x = IF IsAttached(c) /\ c = r.bounds.end THEN detach(c) ELSE c
              /\ y = IF ~IsAttached(c) \/ c = r.bounds.end
                     THEN detach(r.back_cursor) ELSE r.back_cursor
              /\ g = Append(r.front, k)
        OBVIOUS
    <2>2. a = [kind |-> r.kind, map |-> r.map, lo |-> r.lo, hi |-> r.hi, bounds |-> r.bounds,
               cursor |-> x, back_cursor |-> y, front |-> g, back |-> r.back]
        BY ONLY <1>5, <2>1
    <2>3. /\ a.kind = r.kind /\ a.map = r.map /\ a.lo = r.lo /\ a.hi = r.hi
          /\ a.bounds = r.bounds /\ a.back = r.back
          /\ a.front = g /\ a.cursor = x /\ a.back_cursor = y
        BY ONLY <2>2
    <2>4. QED
        BY ONLY <1>1, <2>1, <2>3
<1>7. PICK p : AtEntry(r.cursor, p, q, n, o)
    BY DEF Roams, Readable
<1>8. k \in Keys /\ p \in 1 .. N /\ k = ChainKeys(m)[p]
    BY <1>1, <1>2, <1>3, <1>7, AtEntryIs
<1>9. c \in Cursors /\ Spot(c, p + 1, q, n, o)
    BY <1>1, <1>4, <1>7, AdvancedSpot
<1>10. IsAttached(c) => AtEntry(c, p + 1, q, n, o)
    BY <1>9 DEF Spot
<1>11. r.back_cursor \in Cursors /\ r.front \in Seq(Keys)
    BY DEF Ranges
<1>12. /\ detach(c) \in Cursors /\ ~IsAttached(detach(c))
       /\ detach(r.back_cursor) \in Cursors /\ ~IsAttached(detach(r.back_cursor))
    BY <1>9, <1>11, DetachIs
<1>13. a \in Ranges
    <2>1. a.cursor \in Cursors /\ a.back_cursor \in Cursors
        BY <1>6, <1>9, <1>11, <1>12
    <2>2. Append(r.front, k) \in Seq(Keys)
        BY <1>8, <1>11
    <2>3. PICK x, y, g : x = a.cursor /\ y = a.back_cursor /\ g = Append(r.front, k)
        OBVIOUS
    <2>4. a = [kind |-> r.kind, map |-> r.map, lo |-> r.lo, hi |-> r.hi, bounds |-> r.bounds,
               cursor |-> x, back_cursor |-> y, front |-> g, back |-> r.back]
        BY ONLY <1>5, <1>6, <2>3
    <2>5. /\ r.kind \in {"Range", "RangeMut"} /\ r.map \in Maps /\ r.lo \in Bounds /\ r.hi \in Bounds
          /\ r.bounds \in [start : Cursors, end : Cursors] /\ r.back \in Seq(Keys)
        BY DEF Ranges
    <2>6. x \in Cursors /\ y \in Cursors /\ g \in Seq(Keys)
        BY ONLY <2>1, <2>2, <2>3
    <2>7. QED
        BY ONLY <2>4, <2>5, <2>6 DEF Ranges
<1>14. /\ IsAttached(a.cursor) => a.cursor = c /\ IsAttached(c) /\ c # r.bounds.end
       /\ IsAttached(a.back_cursor) => a.back_cursor = r.back_cursor
    BY <1>6, <1>12
<1>15. Readable(a.cursor, q, n, o)
    BY <1>10, <1>14 DEF Readable
<1>16. Readable(a.back_cursor, q, n, o)
    BY <1>14 DEF Roams, Readable
<1>17. ASSUME BoundsOrdered(r.lo, r.hi)
       PROVE  \E S, E : /\ Delimits(a.bounds, a.lo, a.hi, a.map, S, E, q, n, o)
                        /\ Ahead(a, S, E, q, n, o)
    <2>1. PICK S, E : /\ Delimits(r.bounds, r.lo, r.hi, m, S, E, q, n, o)
                      /\ Ahead(r, S, E, q, n, o)
        BY <1>1, <1>17 DEF Roams
    <2>2. Delimits(a.bounds, a.lo, a.hi, a.map, S, E, q, n, o)
        BY <1>6, <2>1
    <2>3. S \in 0 .. N /\ E \in 0 .. N /\ S <= E
        BY <1>2, <2>1 DEF Delimits
    <2>4. PICK f \in Nat, b \in Nat : f = Len(r.front) /\ b = Len(r.back)
        <3>1. r.front \in Seq(Keys) /\ r.back \in Seq(Keys)
            BY DEF Ranges
        <3>2. Len(r.front) \in Nat /\ Len(r.back) \in Nat
            BY ONLY <3>1
        <3>3. QED
            BY ONLY <3>2
    <2>5. /\ \A x \in 1 .. f : S + x \in 1 .. N /\ r.front[x] = ChainKeys(m)[S + x]
          /\ \A x \in 1 .. b : E + 1 - x \in 1 .. N /\ r.back[x] = ChainKeys(m)[E + 1 - x]
          /\ E # S + 1 => b = 0 \/ b < E - S
          /\ AtEntry(r.cursor, S + f + 1, q, n, o) /\ (E # S + 1 => S + f + 1 < E)
          /\ IsAttached(r.back_cursor) => /\ AtEntry(r.back_cursor, E - b, q, n, o)
                                          /\ E # S + 1 => S + 1 < E - b
        BY <1>1, <1>2, <2>1, <2>4 DEF Ahead
    <2>6. p = S + f + 1
        BY <1>1, <1>7, <2>5, OneAddress
    <2>7. ASSUME IsAttached(c)
          PROVE  /\ S # E => (c = r.bounds.end <=> p + 1 = E)
                 /\ S = E => c # r.bounds.end
        <3>1. CASE S # E
            <4>1. AtEntry(r.bounds.end, E, q, n, o)
                BY <2>1, <3>1 DEF Delimits
            <4>2. AtEntry(c, p + 1, q, n, o)
                BY <1>10, <2>7
            <4>3. c = r.bounds.end <=> p + 1 = E
                BY <1>1, <4>1, <4>2, OneAddress
            <4>4. QED
                BY <3>1, <4>3
        <3>2. CASE S = E
            <4>1. r.bounds = NoBounds
                BY <2>1, <3>2 DEF Delimits
            <4>2. QED
                BY <2>7, <3>2, <4>1 DEF NoBounds, Detached, Address, IsAttached
        <3>3. QED
            BY <3>1, <3>2
    <2>8. Len(a.front) = f + 1 /\ Len(a.back) = b
        BY <1>6, <1>8, <1>11, <2>4, AppendedKey
    <2>9. \A x \in 1 .. f + 1 : S + x \in 1 .. N /\ a.front[x] = ChainKeys(m)[S + x]
        <3>1. ASSUME NEW x \in 1 .. f + 1
              PROVE  S + x \in 1 .. N /\ a.front[x] = ChainKeys(m)[S + x]
            <4>1. a.front[x] = IF x = f + 1 THEN k ELSE r.front[x]
                <5>1. \A y \in 1 .. Len(r.front) + 1 :
                          Append(r.front, k)[y] = IF y = Len(r.front) + 1 THEN k
                                                  ELSE r.front[y]
                    BY <1>8, <1>11, AppendedKey
                <5>2. QED
                    BY ONLY <1>6, <2>4, <5>1, x \in 1 .. f + 1
            <4>2. CASE x = f + 1
                <5>1. S + x = p
                    BY <2>3, <2>6, <4>2
                <5>2. QED
                    BY <1>8, <4>1, <4>2, <5>1
            <4>3. CASE x # f + 1
                <5>1. x \in 1 .. f
                    BY <4>3
                <5>2. QED
                    BY <2>5, <4>1, <4>3, <5>1
            <4>4. QED
                BY <4>2, <4>3
        <3>2. QED
            BY <3>1
    <2>10. E # S + 1 => (f + 1 = 0 \/ f + 1 < E - S) /\ (b = 0 \/ b < E - S)
        BY <2>3, <2>5
    <2>11. IsAttached(a.cursor) => /\ AtEntry(a.cursor, S + (f + 1) + 1, q, n, o)
                                   /\ E # S + 1 => S + (f + 1) + 1 < E
        <3>1. SUFFICES ASSUME IsAttached(a.cursor)
                       PROVE  /\ AtEntry(a.cursor, S + (f + 1) + 1, q, n, o)
                              /\ E # S + 1 => S + (f + 1) + 1 < E
            OBVIOUS
        <3>2. a.cursor = c /\ AtEntry(c, p + 1, q, n, o) /\ (S # E => p + 1 # E)
            BY <1>10, <1>14, <2>7, <3>1
        <3>3. S + (f + 1) + 1 = p + 1
            BY <2>3, <2>6
        <3>4. E # S + 1 => p + 1 < E
            BY <2>3, <2>5, <2>6, <3>2
        <3>5. QED
            BY <3>2, <3>3, <3>4
    <2>12. IsAttached(a.back_cursor) => /\ AtEntry(a.back_cursor, E - b, q, n, o)
                                        /\ E # S + 1 => S + 1 < E - b
        BY <1>14, <2>5
    <2>13. \A x \in 1 .. b : E + 1 - x \in 1 .. N /\ a.back[x] = ChainKeys(m)[E + 1 - x]
        BY <1>6, <2>5
    <2>14. ~IsAttached(a.cursor) => E - S <= (f + 1) + 1
        <3>1. CASE IsAttached(c)
            <4>1. ~IsAttached(a.cursor) => c = r.bounds.end
                BY <1>6, <3>1
            <4>2. ~IsAttached(a.cursor) => p + 1 = E
                BY <2>7, <3>1, <4>1
            <4>3. QED
                BY <2>3, <2>6, <4>2
        <3>2. CASE ~IsAttached(c)
            <4>1. p + 1 \notin 1 .. N
                <5>1. ASSUME p + 1 \in 1 .. N PROVE FALSE
                    <6>1. AtEntry(c, p + 1, q, n, o)
                        BY <1>2, <1>9, <5>1 DEF Spot
                    <6>2. QED
                        BY <1>1, <3>2, <6>1, AtEntryIs
                <5>2. QED
                    BY <5>1
            <4>2. QED
                BY <1>8, <2>3, <2>6, <4>1
        <3>3. QED
            BY <3>1, <3>2
    <2>15. Ahead(a, S, E, q, n, o)
        BY <1>2, <1>6, <2>8, <2>9, <2>10, <2>11, <2>12, <2>13, <2>14 DEF Ahead
    <2>16. QED
        BY <2>2, <2>15
<1>18. Roams(a, q, n, o)
    BY <1>6, <1>15, <1>16, <1>17 DEF Roams
<1>19. QED
    BY <1>1, <1>6, <1>13, <1>18

\* next_back()
LEMMA RangeAdvancesBack ==
    ASSUME IInv, NEW r \in Ranges, NEW q, NEW n, NEW o, Leaves(r.map, q, n, o),
           Roams(r, q, n, o), IsAttached(r.back_cursor),
           NEW a, a = AdvanceRangeBack([r EXCEPT !.back = Append(@, CursorKey(r.back_cursor))])
    PROVE  a \in Ranges /\ a.map = r.map /\ Roams(a, q, n, o)
<1>1. PICK m \in Maps : m = r.map /\ Leaves(m, q, n, o)
    BY DEF Ranges
<1>2. PICK N \in Nat : N = o[n + 1]
    <2>1. n \in Nat
        BY <1>1, LeafOffsets
    <2>2. n + 1 \in 1 .. n + 1
        BY <2>1
    <2>3. QED
        BY <1>1, <2>2, LeafOffsets
<1>3. PICK k : k = CursorKey(r.back_cursor)
    OBVIOUS
<1>4. PICK c, d : c = Advanced(r.cursor) /\ d = AdvancedBack(r.back_cursor)
    OBVIOUS
<1>5. a = [kind |-> r.kind, map |-> r.map, lo |-> r.lo, hi |-> r.hi, bounds |-> r.bounds,
           cursor |-> IF ~IsAttached(d) \/ d = r.bounds.start
                      THEN detach(r.cursor) ELSE r.cursor,
           back_cursor |-> IF IsAttached(d) /\ d = r.bounds.start THEN detach(d) ELSE d,
           front |-> r.front, back |-> Append(r.back, k)]
    BY <1>3, <1>4, AdvanceRangeIs
<1>6. /\ a.kind = r.kind /\ a.map = m /\ a.lo = r.lo /\ a.hi = r.hi
      /\ a.bounds = r.bounds /\ a.front = r.front
      /\ a.back = Append(r.back, k)
      /\ a.back_cursor = IF IsAttached(d) /\ d = r.bounds.start THEN detach(d) ELSE d
      /\ a.cursor = IF ~IsAttached(d) \/ d = r.bounds.start
                    THEN detach(r.cursor) ELSE r.cursor
    <2>1. PICK x, y, g :
              /\ y = IF IsAttached(d) /\ d = r.bounds.start THEN detach(d) ELSE d
              /\ x = IF ~IsAttached(d) \/ d = r.bounds.start
                     THEN detach(r.cursor) ELSE r.cursor
              /\ g = Append(r.back, k)
        OBVIOUS
    <2>2. a = [kind |-> r.kind, map |-> r.map, lo |-> r.lo, hi |-> r.hi, bounds |-> r.bounds,
               cursor |-> x, back_cursor |-> y, front |-> r.front, back |-> g]
        BY ONLY <1>5, <2>1
    <2>3. /\ a.kind = r.kind /\ a.map = r.map /\ a.lo = r.lo /\ a.hi = r.hi
          /\ a.bounds = r.bounds /\ a.front = r.front
          /\ a.back = g /\ a.cursor = x /\ a.back_cursor = y
        BY ONLY <2>2
    <2>4. QED
        BY ONLY <1>1, <2>1, <2>3
<1>7. PICK p : AtEntry(r.back_cursor, p, q, n, o)
    BY DEF Roams, Readable
<1>8. k \in Keys /\ p \in 1 .. N /\ k = ChainKeys(m)[p]
    BY <1>1, <1>2, <1>3, <1>7, AtEntryIs
<1>9. d \in Cursors /\ Spot(d, p - 1, q, n, o)
    BY <1>1, <1>4, <1>7, AdvancedSpot
<1>10. IsAttached(d) => AtEntry(d, p - 1, q, n, o)
    BY <1>9 DEF Spot
<1>11. r.cursor \in Cursors /\ r.back \in Seq(Keys)
    BY DEF Ranges
<1>12. /\ detach(d) \in Cursors /\ ~IsAttached(detach(d))
       /\ detach(r.cursor) \in Cursors /\ ~IsAttached(detach(r.cursor))
    BY <1>9, <1>11, DetachIs
<1>13. a \in Ranges
    <2>1. a.cursor \in Cursors /\ a.back_cursor \in Cursors
        BY <1>6, <1>9, <1>11, <1>12
    <2>2. Append(r.back, k) \in Seq(Keys)
        BY <1>8, <1>11
    <2>3. PICK x, y, g : x = a.cursor /\ y = a.back_cursor /\ g = Append(r.back, k)
        OBVIOUS
    <2>4. a = [kind |-> r.kind, map |-> r.map, lo |-> r.lo, hi |-> r.hi, bounds |-> r.bounds,
               cursor |-> x, back_cursor |-> y, front |-> r.front, back |-> g]
        BY ONLY <1>5, <1>6, <2>3
    <2>5. /\ r.kind \in {"Range", "RangeMut"} /\ r.map \in Maps /\ r.lo \in Bounds /\ r.hi \in Bounds
          /\ r.bounds \in [start : Cursors, end : Cursors] /\ r.front \in Seq(Keys)
        BY DEF Ranges
    <2>6. x \in Cursors /\ y \in Cursors /\ g \in Seq(Keys)
        BY ONLY <2>1, <2>2, <2>3
    <2>7. QED
        BY ONLY <2>4, <2>5, <2>6 DEF Ranges
<1>14. /\ IsAttached(a.back_cursor) => a.back_cursor = d /\ IsAttached(d) /\ d # r.bounds.start
       /\ IsAttached(a.cursor) => a.cursor = r.cursor
    BY <1>6, <1>12
<1>15. Readable(a.back_cursor, q, n, o)
    BY <1>10, <1>14 DEF Readable
<1>16. Readable(a.cursor, q, n, o)
    BY <1>14 DEF Roams, Readable
<1>17. ASSUME BoundsOrdered(r.lo, r.hi)
       PROVE  \E S, E : /\ Delimits(a.bounds, a.lo, a.hi, a.map, S, E, q, n, o)
                        /\ Ahead(a, S, E, q, n, o)
    <2>1. PICK S, E : /\ Delimits(r.bounds, r.lo, r.hi, m, S, E, q, n, o)
                      /\ Ahead(r, S, E, q, n, o)
        BY <1>1, <1>17 DEF Roams
    <2>2. Delimits(a.bounds, a.lo, a.hi, a.map, S, E, q, n, o)
        BY <1>6, <2>1
    <2>3. S \in 0 .. N /\ E \in 0 .. N /\ S <= E
        BY <1>2, <2>1 DEF Delimits
    <2>4. PICK f \in Nat, b \in Nat : f = Len(r.front) /\ b = Len(r.back)
        <3>1. r.front \in Seq(Keys) /\ r.back \in Seq(Keys)
            BY DEF Ranges
        <3>2. Len(r.front) \in Nat /\ Len(r.back) \in Nat
            BY ONLY <3>1
        <3>3. QED
            BY ONLY <3>2
    <2>5. /\ \A x \in 1 .. f : S + x \in 1 .. N /\ r.front[x] = ChainKeys(m)[S + x]
          /\ \A x \in 1 .. b : E + 1 - x \in 1 .. N /\ r.back[x] = ChainKeys(m)[E + 1 - x]
          /\ E # S + 1 => f = 0 \/ f < E - S
          /\ AtEntry(r.back_cursor, E - b, q, n, o) /\ (E # S + 1 => S + 1 < E - b)
          /\ IsAttached(r.cursor) => /\ AtEntry(r.cursor, S + f + 1, q, n, o)
                                     /\ E # S + 1 => S + f + 1 < E
        BY <1>1, <1>2, <2>1, <2>4 DEF Ahead
    <2>6. p = E - b
        BY <1>1, <1>7, <2>5, OneAddress
    <2>7. ASSUME IsAttached(d)
          PROVE  /\ S # E => (d = r.bounds.start <=> p - 1 = S + 1)
                 /\ S = E => d # r.bounds.start
        <3>1. CASE S # E
            <4>1. AtEntry(r.bounds.start, S + 1, q, n, o)
                BY <2>1, <3>1 DEF Delimits
            <4>2. AtEntry(d, p - 1, q, n, o)
                BY <1>10, <2>7
            <4>3. d = r.bounds.start <=> p - 1 = S + 1
                BY <1>1, <4>1, <4>2, OneAddress
            <4>4. QED
                BY <3>1, <4>3
        <3>2. CASE S = E
            <4>1. r.bounds = NoBounds
                BY <2>1, <3>2 DEF Delimits
            <4>2. QED
                BY <2>7, <3>2, <4>1 DEF NoBounds, Detached, Address, IsAttached
        <3>3. QED
            BY <3>1, <3>2
    <2>8. Len(a.back) = b + 1 /\ Len(a.front) = f
        BY <1>6, <1>8, <1>11, <2>4, AppendedKey
    <2>9. \A x \in 1 .. b + 1 : E + 1 - x \in 1 .. N /\ a.back[x] = ChainKeys(m)[E + 1 - x]
        <3>1. ASSUME NEW x \in 1 .. b + 1
              PROVE  E + 1 - x \in 1 .. N /\ a.back[x] = ChainKeys(m)[E + 1 - x]
            <4>1. a.back[x] = IF x = b + 1 THEN k ELSE r.back[x]
                <5>1. \A y \in 1 .. Len(r.back) + 1 :
                          Append(r.back, k)[y] = IF y = Len(r.back) + 1 THEN k
                                                 ELSE r.back[y]
                    BY <1>8, <1>11, AppendedKey
                <5>2. QED
                    BY ONLY <1>6, <2>4, <5>1, x \in 1 .. b + 1
            <4>2. CASE x = b + 1
                <5>1. E + 1 - x = p
                    BY <2>3, <2>6, <4>2
                <5>2. QED
                    BY <1>8, <4>1, <4>2, <5>1
            <4>3. CASE x # b + 1
                <5>1. x \in 1 .. b
                    BY <4>3
                <5>2. QED
                    BY <2>5, <4>1, <4>3, <5>1
            <4>4. QED
                BY <4>2, <4>3
        <3>2. QED
            BY <3>1
    <2>10. E # S + 1 => (f = 0 \/ f < E - S) /\ (b + 1 = 0 \/ b + 1 < E - S)
        BY <2>3, <2>5
    <2>11. IsAttached(a.back_cursor) => /\ AtEntry(a.back_cursor, E - (b + 1), q, n, o)
                                        /\ E # S + 1 => S + 1 < E - (b + 1)
        <3>1. SUFFICES ASSUME IsAttached(a.back_cursor)
                       PROVE  /\ AtEntry(a.back_cursor, E - (b + 1), q, n, o)
                              /\ E # S + 1 => S + 1 < E - (b + 1)
            OBVIOUS
        <3>2. a.back_cursor = d /\ AtEntry(d, p - 1, q, n, o) /\ (S # E => p - 1 # S + 1)
            BY <1>10, <1>14, <2>7, <3>1
        <3>3. E - (b + 1) = p - 1
            BY <2>3, <2>6
        <3>4. E # S + 1 => S + 1 < p - 1
            BY <2>3, <2>5, <2>6, <3>2
        <3>5. QED
            BY <3>2, <3>3, <3>4
    <2>12. IsAttached(a.cursor) => /\ AtEntry(a.cursor, S + f + 1, q, n, o)
                                   /\ E # S + 1 => S + f + 1 < E
        BY <1>14, <2>5
    <2>13. \A x \in 1 .. f : S + x \in 1 .. N /\ a.front[x] = ChainKeys(m)[S + x]
        BY <1>6, <2>5
    <2>14. ~IsAttached(a.back_cursor) => E - S <= (b + 1) + 1
        <3>1. CASE IsAttached(d)
            <4>1. ~IsAttached(a.back_cursor) => d = r.bounds.start
                BY <1>6, <3>1
            <4>2. ~IsAttached(a.back_cursor) => p - 1 = S + 1
                BY <2>7, <3>1, <4>1
            <4>3. QED
                BY <2>3, <2>6, <4>2
        <3>2. CASE ~IsAttached(d)
            <4>1. p - 1 \notin 1 .. N
                <5>1. ASSUME p - 1 \in 1 .. N PROVE FALSE
                    <6>1. AtEntry(d, p - 1, q, n, o)
                        BY <1>2, <1>9, <5>1 DEF Spot
                    <6>2. QED
                        BY <1>1, <3>2, <6>1, AtEntryIs
                <5>2. QED
                    BY <5>1
            <4>2. QED
                BY <1>8, <2>3, <2>6, <4>1
        <3>3. QED
            BY <3>1, <3>2
    <2>15. Ahead(a, S, E, q, n, o)
        BY <1>2, <1>6, <2>8, <2>9, <2>10, <2>11, <2>12, <2>13, <2>14 DEF Ahead
    <2>16. QED
        BY <2>2, <2>15
<1>18. Roams(a, q, n, o)
    BY <1>6, <1>15, <1>16, <1>17 DEF Roams
<1>19. QED
    BY <1>1, <1>6, <1>13, <1>18

\* A range of a map whose leaves and keys stay
LEMMA RoamsStays ==
    ASSUME NEW m \in Maps, NEW q, NEW n, NEW o, Leaves(m, q, n, o),
           Chain(m, q, n)', KeysOn(q)' = KeysOn(q),
           NEW r, r.map = m, Roams(r, q, n, o)
    PROVE  Leaves(m, q, n, o)' /\ Roams(r, q, n, o)'
<1>1. Chain(m, q, n) /\ Offsets(o, KeysOn(q), n)
    BY DEF Leaves
<1>2. Offsets(o, KeysOn(q), n)'
    BY <1>1 DEF Offsets
<1>3. ChainKeys(m)' = ChainKeys(m)
    BY <1>1, SameKeys
<1>4. n \in Nat /\ DOMAIN q = 1 .. n
    BY <1>1 DEF Chain
<1>5. \A x \in 1 .. n : keys'[q[x]] = keys[q[x]]
    <2>1. \A x \in 1 .. n : KeysOn(q)[x] = keys[q[x]]
        BY <1>4 DEF KeysOn
    <2>2. \A x \in 1 .. n : KeysOn(q)'[x] = keys'[q[x]]
        BY <1>4 DEF KeysOn
    <2>3. QED
        BY <2>1, <2>2
<1>6. \A d, x : AtEntry(d, x, q, n, o) <=> AtEntry(d, x, q, n, o)'
    BY <1>5 DEF AtEntry
<1>7. Readable(r.cursor, q, n, o)' /\ Readable(r.back_cursor, q, n, o)'
    BY <1>6 DEF Roams, Readable, IsAttached
<1>8. \A S, E : Delimits(r.bounds, r.lo, r.hi, r.map, S, E, q, n, o)
                    => Delimits(r.bounds, r.lo, r.hi, r.map, S, E, q, n, o)'
    BY <1>3, <1>6 DEF Delimits
<1>9. \A S, E : Ahead(r, S, E, q, n, o) => Ahead(r, S, E, q, n, o)'
    BY <1>3, <1>6 DEF Ahead, IsAttached
<1>10. Roams(r, q, n, o)'
    <2>1. ASSUME BoundsOrdered(r.lo, r.hi)
          PROVE  \E S, E : /\ Delimits(r.bounds, r.lo, r.hi, r.map, S, E, q, n, o)'
                           /\ Ahead(r, S, E, q, n, o)'
        <3>1. PICK S, E : /\ Delimits(r.bounds, r.lo, r.hi, r.map, S, E, q, n, o)
                          /\ Ahead(r, S, E, q, n, o)
            BY <2>1 DEF Roams
        <3>2. QED
            BY <1>8, <1>9, <3>1
    <2>2. QED
        BY <1>7, <2>1 DEF Roams, BoundsOrdered
<1>11. QED
    BY <1>2, <1>10 DEF Leaves

\* range() and range_mut()
LEMMA RangeStarts ==
    ASSUME IInv, Ordered, op = Idle, NEW m \in Maps, NEW lo \in Bounds, NEW hi \in Bounds,
           NEW kind \in {"Range", "RangeMut"}, NEW r, r = RangeNew(m, kind, lo, hi)
    PROVE  /\ r \in Ranges /\ r.map = m
           /\ \E q, n, o : Leaves(m, q, n, o) /\ Roams(r, q, n, o)
<1>1. PICK q, n : Chain(m, q, n)
    BY ChainFound
<1>2. PICK ss : ss = KeysOn(q)
    OBVIOUS
<1>3. n \in Nat /\ ss \in [1 .. n -> Seq(Keys)]
    BY <1>1, <1>2, ChainKeysOn
<1>4. PICK S : S = Keys
    OBVIOUS
<1>5. \E o : Offsets(o, ss, n)
    BY <1>3, <1>4, OffsetsExist
<1>6. PICK o : Leaves(m, q, n, o)
    BY <1>1, <1>2, <1>5 DEF Leaves
<1>7. PICK f : f = node_bounds(m, lo, hi)
    OBVIOUS
<1>8. /\ f \in [start : Cursors, end : Cursors]
      /\ \/ f = NoBounds
         \/ \E a, b : AtEntry(f.start, a, q, n, o) /\ AtEntry(f.end, b, q, n, o)
      /\ BoundsOrdered(lo, hi) => \E X, E : Delimits(f, lo, hi, m, X, E, q, n, o)
    BY <1>6, <1>7, NodeBounds
<1>9. PICK e : e = <<>> /\ e \in Seq(Keys) /\ Len(e) = 0
    <2>1. PICK U : U = Keys
        OBVIOUS
    <2>2. <<>> \in Seq(U) /\ Len(<<>>) = 0
        OBVIOUS
    <2>3. QED
        BY ONLY <2>1, <2>2
<1>10. PICK s, t : s = f.start /\ t = f.end /\ s \in Cursors /\ t \in Cursors
    BY <1>8
<1>11. r = [kind |-> kind, map |-> m, lo |-> lo, hi |-> hi, bounds |-> f,
            cursor |-> s, back_cursor |-> t, front |-> e, back |-> e]
    BY <1>7, <1>9, <1>10 DEF RangeNew
<1>12. /\ r.map = m /\ r.lo = lo /\ r.hi = hi /\ r.bounds = f
       /\ r.cursor = s /\ r.back_cursor = t /\ r.front = e /\ r.back = e
    BY ONLY <1>11
<1>13. r \in Ranges
    BY ONLY <1>8, <1>9, <1>10, <1>11, m \in Maps, lo \in Bounds, hi \in Bounds,
       kind \in {"Range", "RangeMut"} DEF Ranges
<1>14. Readable(s, q, n, o) /\ Readable(t, q, n, o)
    <2>1. CASE f = NoBounds
        BY <1>10, <2>1 DEF NoBounds, Detached, Address, IsAttached, Readable
    <2>2. CASE f # NoBounds
        BY <1>8, <1>10, <2>2 DEF Readable
    <2>3. QED
        BY <2>1, <2>2
<1>15. PICK N \in Nat : N = o[n + 1]
    <2>1. n + 1 \in 1 .. n + 1
        BY <1>3
    <2>2. QED
        BY <1>6, <2>1, LeafOffsets
<1>16. ASSUME BoundsOrdered(lo, hi)
       PROVE  \E X, E : Delimits(f, lo, hi, m, X, E, q, n, o) /\ Ahead(r, X, E, q, n, o)
    <2>1. PICK X, E : Delimits(f, lo, hi, m, X, E, q, n, o)
        BY <1>8, <1>16
    <2>2. X \in 0 .. N /\ E \in 0 .. N /\ X <= E
        BY <1>15, <2>1 DEF Delimits
    <2>3. /\ IsAttached(s) => AtEntry(s, X + 0 + 1, q, n, o) /\ (E # X + 1 => X + 0 + 1 < E)
          /\ IsAttached(t) => AtEntry(t, E - 0, q, n, o) /\ (E # X + 1 => X + 1 < E - 0)
          /\ ~IsAttached(s) => E - X <= 0 + 1
        <3>1. CASE X = E
            <4>1. f = NoBounds
                BY <2>1, <3>1 DEF Delimits
            <4>2. ~IsAttached(s) /\ ~IsAttached(t)
                BY <1>10, <4>1 DEF NoBounds, Detached, Address, IsAttached
            <4>3. E - X <= 0 + 1
                BY <2>2, <3>1
            <4>4. QED
                BY <4>2, <4>3
        <3>2. CASE X # E
            <4>1. AtEntry(s, X + 1, q, n, o) /\ AtEntry(t, E, q, n, o)
                BY <1>10, <2>1, <3>2 DEF Delimits
            <4>2. X + 0 + 1 = X + 1 /\ E - 0 = E /\ (E # X + 1 => X + 1 < E)
                BY <2>2, <3>2
            <4>3. IsAttached(s)
                BY <1>6, <4>1, AtEntryIs
            <4>4. QED
                BY <4>1, <4>2, <4>3
        <3>3. QED
            BY <3>1, <3>2
    <2>4. Ahead(r, X, E, q, n, o)
        <3>1. Len(r.front) = 0 /\ Len(r.back) = 0
            BY ONLY <1>9, <1>12
        <3>2. \A x \in 1 .. 0 : FALSE
            OBVIOUS
        <3>3. QED
            BY <1>12, <2>3, <3>1, <3>2 DEF Ahead
    <2>5. QED
        BY <2>1, <2>4
<1>17. Roams(r, q, n, o)
    BY <1>12, <1>14, <1>16 DEF Roams
<1>18. QED
    BY <1>6, <1>12, <1>13, <1>17

\* A step that leaves the maps alone keeps what it says of the new range.
LEMMA RangeHeld ==
    ASSUME UNCHANGED vars, op = Idle, NEW r \in Ranges, range' = r,
           NEW q, NEW n, NEW o, Leaves(r.map, q, n, o), Roams(r, q, n, o)
    PROVE  RangeInv'
<1>1. PICK m \in Maps : m = r.map
    BY DEF Ranges
<1>2. Chain(m, q, n)' /\ KeysOn(q)' = KeysOn(q)
    BY <1>1, QuietLeaves DEF Leaves
<1>3. Leaves(m, q, n, o)' /\ Roams(r, q, n, o)'
    BY <1>1, <1>2, RoamsStays
<1>4. op' = Idle
    BY DEF vars
<1>5. QED
    BY <1>1, <1>3, <1>4 DEF RangeInv

\* A write through the reference that RangeMut hands out does so too: no key is
\* changed by it.
LEMMA RangeWritten ==
    ASSUME op = Idle, NEW r \in Ranges, range' = r,
           NEW q, NEW n, NEW o, Leaves(r.map, q, n, o), Roams(r, q, n, o),
           NEW c, NEW v, WriteAt(c, v)
    PROVE  RangeInv'
<1>1. PICK m \in Maps : m = r.map
    BY DEF Ranges
<1>2. Chain(m, q, n)' /\ KeysOn(q)' = KeysOn(q)
    BY <1>1, WriteLeaves
<1>3. Leaves(m, q, n, o)' /\ Roams(r, q, n, o)'
    BY <1>1, <1>2, RoamsStays
<1>4. op' = Idle
    BY DEF WriteAt
<1>5. QED
    BY <1>1, <1>3, <1>4 DEF RangeInv

\* A step of the range, by what it is to the maps: it leaves them alone, or is
\* the write of RangeMut.
LEMMA RangeSteps ==
    ASSUME [RangeNext]_rangeVars
    PROVE  \/ CallBefore
           \/ UNCHANGED vars
           \/ \E c, v : v \in Values /\ WriteAt(c, v)
<1>1. CASE \E v \in Values : range_mut_next(v) \/ range_mut_next_back(v)
    <2>1. PICK v \in Values : WriteAt(range.cursor, v) \/ WriteAt(range.back_cursor, v)
        BY <1>1 DEF range_mut_next, range_mut_next_back
    <2>2. QED
        BY <2>1
<1>2. CASE UNCHANGED rangeVars
    BY <1>2 DEF rangeVars
<1>3. CASE \E m \in Maps, lo, hi \in Bounds : range_of(m, lo, hi) \/ range_mut_of(m, lo, hi)
    BY <1>3 DEF range_of, range_mut_of
<1>4. CASE range_next \/ range_next_back \/ range_drop
    BY <1>4 DEF range_next, range_next_back, range_drop
<1>5. QED
    BY <1>1, <1>2, <1>3, <1>4 DEF RangeNext

LEMMA RangeNextInv ==
    ASSUME ReuseAfterClear = FALSE, IInv, Ordered, [RangeNext]_rangeVars
    PROVE  IInv' /\ Ordered'
<1>1. CASE CallBefore \/ UNCHANGED vars
    <2>1. [Next]_vars
        BY <1>1 DEF CallBefore
    <2>2. QED
        BY <2>1, NextInv, NextOrder
<1>2. CASE \E c, v : v \in Values /\ WriteAt(c, v)
    <2>1. PICK c, v : v \in Values /\ WriteAt(c, v)
        BY <1>2
    <2>2. IInv'
        BY <2>1, WriteInv
    <2>3. /\ op' = op /\ live' = live /\ level' = level /\ parent' = parent
          /\ keys' = keys /\ edges' = edges /\ prev' = prev /\ next' = next
          /\ root' = root /\ length' = length
        BY <2>1 DEF WriteAt
    <2>4. Ordered'
        BY <2>3, WriteOrder
    <2>5. QED
        BY <2>2, <2>4
<1>3. QED
    BY <1>1, <1>2, RangeSteps

\* Every step keeps it.
LEMMA RangeKept ==
    ASSUME IInv, Ordered, RangeInv, [RangeNext]_rangeVars
    PROVE  RangeInv'
<1>1. CASE CallBefore
    BY <1>1 DEF CallBefore, RangeInv
<1>2. CASE \E m \in Maps, lo, hi \in Bounds : range_of(m, lo, hi) \/ range_mut_of(m, lo, hi)
    <2>1. PICK m \in Maps, lo \in Bounds, hi \in Bounds :
              range_of(m, lo, hi) \/ range_mut_of(m, lo, hi)
        BY <1>2
    <2>2. op = Idle /\ UNCHANGED vars
        BY <2>1 DEF range_of, range_mut_of
    <2>3. PICK kind \in {"Range", "RangeMut"} : range' = RangeNew(m, kind, lo, hi)
        BY <2>1 DEF range_of, range_mut_of
    <2>4. PICK r : range' = r /\ r = RangeNew(m, kind, lo, hi)
        BY <2>3
    <2>5. /\ r \in Ranges /\ r.map = m
          /\ \E q, n, o : Leaves(m, q, n, o) /\ Roams(r, q, n, o)
        BY <2>2, <2>4, RangeStarts
    <2>6. QED
        BY <2>2, <2>4, <2>5, RangeHeld
<1>3. CASE \/ range_next \/ range_next_back
           \/ \E v \in Values : range_mut_next(v) \/ range_mut_next_back(v)
           \/ UNCHANGED rangeVars /\ range # NoRange
    <2>1. range # NoRange
        BY <1>3 DEF range_next, range_next_back, range_mut_next, range_mut_next_back,
                    RangeHasNext, RangeHasNextBack, NoRange
    <2>2. PICK r \in Ranges : r = range
        BY <2>1 DEF RangeInv
    <2>3. op = Idle
        BY <2>1 DEF RangeInv
    <2>4. PICK q, n, o : Leaves(r.map, q, n, o) /\ Roams(r, q, n, o)
        BY <2>1, <2>2 DEF RangeInv
    <2>5. CASE range_next \/ \E v \in Values : range_mut_next(v)
        <3>1. PICK a : range' = a /\ a = NextOf(r)
            BY <2>2, <2>5 DEF range_next, range_mut_next
        <3>2. IsAttached(r.cursor)
            BY <2>2, <2>5 DEF range_next, range_mut_next, RangeHasNext
        <3>3. a \in Ranges /\ a.map = r.map /\ Roams(a, q, n, o)
            BY <2>4, <3>1, <3>2, RangeAdvances DEF NextOf
        <3>4. Leaves(a.map, q, n, o)
            BY <2>4, <3>3
        <3>5. UNCHANGED vars \/ \E v \in Values : WriteAt(range.cursor, v)
            BY <2>5 DEF range_next, range_mut_next
        <3>6. QED
            BY <2>3, <3>1, <3>3, <3>4, <3>5, RangeHeld, RangeWritten
    <2>6. CASE range_next_back \/ \E v \in Values : range_mut_next_back(v)
        <3>1. PICK a : range' = a /\ a = NextBackOf(r)
            BY <2>2, <2>6 DEF range_next_back, range_mut_next_back
        <3>2. IsAttached(r.back_cursor)
            BY <2>2, <2>6 DEF range_next_back, range_mut_next_back, RangeHasNextBack
        <3>3. a \in Ranges /\ a.map = r.map /\ Roams(a, q, n, o)
            BY <2>4, <3>1, <3>2, RangeAdvancesBack DEF NextBackOf
        <3>4. Leaves(a.map, q, n, o)
            BY <2>4, <3>3
        <3>5. UNCHANGED vars \/ \E v \in Values : WriteAt(range.back_cursor, v)
            BY <2>6 DEF range_next_back, range_mut_next_back
        <3>6. QED
            BY <2>3, <3>1, <3>3, <3>4, <3>5, RangeHeld, RangeWritten
    <2>7. CASE UNCHANGED rangeVars
        <3>1. range' = r /\ UNCHANGED vars
            BY <2>2, <2>7 DEF rangeVars
        <3>2. QED
            BY <2>3, <2>4, <3>1, RangeHeld
    <2>8. QED
        BY <1>3, <2>5, <2>6, <2>7
<1>4. CASE range_drop
    BY <1>4 DEF range_drop, RangeInv
<1>5. CASE UNCHANGED rangeVars /\ range = NoRange
    BY <1>5 DEF rangeVars, RangeInv
<1>6. QED
    BY <1>1, <1>2, <1>3, <1>4, <1>5 DEF RangeNext

-----------------------------------------------------------------------------
(***************************************************************************)
(* What a range shows.                                                     *)
(***************************************************************************)

\* A sequence that agrees with another one as far as it goes
LEMMA BeginsWith ==
    ASSUME NEW f \in Seq(Keys), NEW w \in Seq(Keys), NEW F \in Nat, F = Len(f),
           NEW D \in Nat, D = Len(w), \A x \in 1 .. F : x \in 1 .. D /\ f[x] = w[x]
    PROVE  IsPrefix(f, w)
<1>1. F <= D
    <2>1. CASE F = 0
        BY <2>1
    <2>2. CASE F # 0
        <3>1. F \in 1 .. F
            BY <2>2
        <3>2. QED
            BY <3>1
    <2>3. QED
        BY <2>1, <2>2
<1>2. PICK h : h = SubSeq(w, 1, F)
    OBVIOUS
<1>3. h \in Seq(Keys) /\ Len(h) = F /\ \A x \in 1 .. F : h[x] = w[x]
    BY <1>1, <1>2
<1>4. \A x \in 1 .. F : h[x] = f[x]
    BY <1>3
<1>5. f = [x \in 1 .. F |-> f[x]] /\ h = [x \in 1 .. F |-> h[x]]
    BY <1>3
<1>6. h = f
    BY <1>4, <1>5
<1>7. SubSeq(f, 1, F) = f
    OBVIOUS
<1>8. QED
    BY <1>1, <1>2, <1>6, <1>7 DEF IsPrefix

\* The same from the other end
LEMMA BeginsBackwards ==
    ASSUME NEW f \in Seq(Keys), NEW w \in Seq(Keys), NEW F \in Nat, F = Len(f),
           NEW D \in Nat, D = Len(w),
           \A x \in 1 .. F : x \in 1 .. D /\ f[x] = w[D + 1 - x]
    PROVE  IsPrefix(f, Reverse(w))
<1>1. PICK z : z = Reverse(w)
    OBVIOUS
<1>2. z = [x \in 1 .. D |-> w[D - x + 1]]
    BY <1>1 DEF Reverse
<1>3. \A x \in 1 .. D : z[x] = w[D - x + 1] /\ w[D - x + 1] \in Keys
    <2>1. ASSUME NEW x \in 1 .. D
          PROVE  w[D - x + 1] \in Keys
        <3>1. D - x + 1 \in 1 .. D
            OBVIOUS
        <3>2. QED
            BY <3>1
    <2>2. QED
        BY <1>2, <2>1
<1>4. z \in [1 .. D -> Keys]
    BY ONLY <1>2, <1>3
<1>5. z \in Seq(Keys) /\ Len(z) = D
    BY ONLY <1>4, D \in Nat
<1>6. ASSUME NEW x \in 1 .. F
      PROVE  x \in 1 .. D /\ f[x] = z[x]
    <2>1. x \in 1 .. D /\ f[x] = w[D + 1 - x] /\ D + 1 - x = D - x + 1
        OBVIOUS
    <2>2. QED
        BY <1>3, <2>1
<1>7. IsPrefix(f, z)
    BY ONLY <1>5, <1>6, f \in Seq(Keys), F \in Nat, F = Len(f), D \in Nat, BeginsWith
<1>8. QED
    BY <1>1, <1>7

\* What RangeInv says to a client
LEMMA RangeShows ==
    ASSUME IInv, RangeInv
    PROVE  RangeCursorsAlive /\ RangeInOrder /\ OmitsAtMostOne
<1>1. SUFFICES ASSUME range # NoRange
               PROVE  RangeCursorsAlive /\ RangeInOrder /\ OmitsAtMostOne
    BY DEF RangeCursorsAlive, RangeInOrder, OmitsAtMostOne, RangeOrdered
<1>2. PICK r \in Ranges : r = range
    BY <1>1 DEF RangeInv
<1>3. PICK m \in Maps : m = r.map
    BY DEF Ranges
<1>4. PICK q, n, o : Leaves(m, q, n, o) /\ Roams(r, q, n, o)
    BY <1>1, <1>2, <1>3 DEF RangeInv
<1>5. RangeCursorsAlive
    <2>1. SUFFICES ASSUME NEW c \in {r.cursor, r.back_cursor}, IsAttached(c)
                   PROVE  c.node \in TreeOf(m) /\ level[c.node] = 0 /\ IsValid(c)
        BY <1>2, <1>3 DEF RangeCursorsAlive
    <2>2. PICK p : AtEntry(c, p, q, n, o)
        BY <1>4, <2>1 DEF Roams, Readable
    <2>3. QED
        BY <1>4, <2>2, AtEntryIs
<1>6. ASSUME BoundsOrdered(r.lo, r.hi)
      PROVE  /\ IsPrefix(r.front, KeysFromStart)
             /\ IsPrefix(r.back, Reverse(KeysUpToEnd))
             /\ Len(RangeKeys) # 1 => /\ Len(r.front) <= Len(RangeKeys)
                                      /\ Len(r.back) <= Len(RangeKeys)
             /\ ~IsAttached(r.cursor) /\ ~IsAttached(r.back_cursor) =>
                    \A j, k \in ToSet(RangeKeys) \ (ToSet(r.front) \cup ToSet(r.back)) : j = k
    <2>1. PICK all \in Seq(Keys) : all = ChainKeys(m) /\ Len(all) = o[n + 1]
        BY <1>4, ChainEntries DEF Leaves
    <2>2. PICK N \in Nat : N = Len(all)
        OBVIOUS
    <2>3. PICK S, E : /\ Delimits(r.bounds, r.lo, r.hi, m, S, E, q, n, o)
                      /\ Ahead(r, S, E, q, n, o)
        BY <1>3, <1>4, <1>6 DEF Roams
    <2>4. PICK lo, hi : lo = r.lo /\ hi = r.hi
        OBVIOUS
    <2>5. /\ S \in 0 .. N /\ E \in 0 .. N /\ S <= E
          /\ \A x \in 1 .. N : /\ Within(all[x], lo, hi) <=> S < x /\ x <= E
                               /\ Within(all[x], lo, Unbounded) <=> S < x
                               /\ Within(all[x], Unbounded, hi) <=> x <= E
        BY <2>1, <2>2, <2>3, <2>4 DEF Delimits
    <2>6. PICK f \in Seq(Keys), b \in Seq(Keys) : f = r.front /\ b = r.back
        BY DEF Ranges
    <2>7. PICK F \in Nat, B \in Nat : F = Len(f) /\ B = Len(b)
        OBVIOUS
    <2>8. /\ \A x \in 1 .. F : S + x \in 1 .. N /\ f[x] = all[S + x]
          /\ \A x \in 1 .. B : E + 1 - x \in 1 .. N /\ b[x] = all[E + 1 - x]
          /\ E # S + 1 => (F = 0 \/ F < E - S) /\ (B = 0 \/ B < E - S)
          /\ ~IsAttached(r.cursor) /\ ~IsAttached(r.back_cursor) =>
                E - S <= F + 1 \/ E - S <= B + 1
        BY <1>3, <2>1, <2>2, <2>3, <2>6, <2>7 DEF Ahead
    <2>9. PICK w : w = RangeKeys
        OBVIOUS
    <2>10. w \in Seq(Keys) /\ Len(w) = E - S /\ \A y \in 1 .. E - S : w[y] = all[S + y]
        <3>1. Encloses(all, N, lo, hi, S, E)
            BY ONLY <2>2, <2>5, all \in Seq(Keys), N \in Nat DEF Encloses
        <3>2. IsPart(KeysWithin(all, lo, hi), all, S, E)
            BY ONLY <3>1, KeysWithinAre
        <3>3. w = KeysWithin(all, lo, hi)
            BY <1>2, <1>3, <2>1, <2>4, <2>9 DEF RangeKeys
        <3>4. QED
            BY ONLY <3>2, <3>3 DEF IsPart
    <2>11. PICK u : u = KeysFromStart
        OBVIOUS
    <2>12. u \in Seq(Keys) /\ Len(u) = N - S /\ \A y \in 1 .. N - S : u[y] = all[S + y]
        <3>1. \A x \in 1 .. N : Within(all[x], lo, Unbounded) <=> S < x /\ x <= N
            BY ONLY <2>5, N \in Nat
        <3>2. Encloses(all, N, lo, Unbounded, S, N)
            BY ONLY <2>2, <2>5, <3>1, all \in Seq(Keys), N \in Nat DEF Encloses
        <3>3. IsPart(KeysWithin(all, lo, Unbounded), all, S, N)
            BY ONLY <3>2, KeysWithinAre
        <3>4. u = KeysWithin(all, lo, Unbounded)
            BY <1>2, <1>3, <2>1, <2>4, <2>11 DEF KeysFromStart
        <3>5. QED
            BY ONLY <3>3, <3>4 DEF IsPart
    <2>13. PICK v : v = KeysUpToEnd
        OBVIOUS
    <2>14. v \in Seq(Keys) /\ Len(v) = E /\ \A y \in 1 .. E : v[y] = all[y]
        <3>1. \A x \in 1 .. N : Within(all[x], Unbounded, hi) <=> 0 < x /\ x <= E
            BY ONLY <2>5, N \in Nat
        <3>2. Encloses(all, N, Unbounded, hi, 0, E)
            BY ONLY <2>2, <2>5, <3>1, all \in Seq(Keys), N \in Nat DEF Encloses
        <3>3. IsPart(KeysWithin(all, Unbounded, hi), all, 0, E)
            BY ONLY <3>2, KeysWithinAre
        <3>4. v = KeysWithin(all, Unbounded, hi)
            BY <1>2, <1>3, <2>1, <2>4, <2>13 DEF KeysUpToEnd
        <3>5. v \in Seq(Keys) /\ Len(v) = E - 0 /\ \A y \in 1 .. E - 0 : v[y] = all[0 + y]
            BY ONLY <3>3, <3>4 DEF IsPart
        <3>6. E - 0 = E /\ \A y \in 1 .. E : 0 + y = y
            BY <2>5
        <3>7. QED
            BY ONLY <3>5, <3>6
    <2>15. IsPrefix(f, u)
        <3>1. PICK L \in Nat : L = N - S
            BY <2>5
        <3>2. ASSUME NEW x \in 1 .. F
              PROVE  x \in 1 .. L /\ f[x] = u[x]
            <4>1. S + x \in 1 .. N /\ f[x] = all[S + x]
                BY <2>8
            <4>2. x \in 1 .. L
                BY <2>5, <3>1, <4>1
            <4>3. u[x] = all[S + x]
                BY <2>12, <3>1, <4>2
            <4>4. QED
                BY ONLY <4>1, <4>2, <4>3
        <3>3. Len(u) = L
            BY <2>12, <3>1
        <3>4. QED
            BY ONLY <2>7, <2>12, <3>2, <3>3, f \in Seq(Keys), F \in Nat, L \in Nat, BeginsWith
    <2>16. IsPrefix(b, Reverse(v))
        <3>1. E \in Nat
            BY <2>5
        <3>2. ASSUME NEW x \in 1 .. B
              PROVE  x \in 1 .. E /\ b[x] = v[E + 1 - x]
            <4>1. E + 1 - x \in 1 .. N /\ b[x] = all[E + 1 - x]
                BY <2>8
            <4>2. x \in 1 .. E /\ E + 1 - x \in 1 .. E
                BY <3>1, <4>1
            <4>3. v[E + 1 - x] = all[E + 1 - x]
                BY <2>14, <4>2
            <4>4. QED
                BY ONLY <4>1, <4>2, <4>3
        <3>3. QED
            BY ONLY <2>7, <2>14, <3>1, <3>2, b \in Seq(Keys), B \in Nat, BeginsBackwards
    <2>17. Len(w) # 1 => F <= Len(w) /\ B <= Len(w)
        <3>1. Len(w) = E - S /\ E - S \in Nat
            BY <2>5, <2>10
        <3>2. QED
            BY <2>5, <2>8, <3>1
    <2>18. ASSUME ~IsAttached(r.cursor), ~IsAttached(r.back_cursor),
                  NEW j \in ToSet(w) \ (ToSet(f) \cup ToSet(b)),
                  NEW k \in ToSet(w) \ (ToSet(f) \cup ToSet(b))
           PROVE  j = k
        <3>1. PICK D \in Nat : D = E - S
            BY <2>5
        <3>2. DOMAIN w = 1 .. D /\ DOMAIN f = 1 .. F /\ DOMAIN b = 1 .. B
            BY <2>7, <2>10, <3>1
        <3>3. PICK y \in 1 .. D : j = w[y]
            BY <3>2 DEF ToSet
        <3>4. PICK z \in 1 .. D : k = w[z]
            BY <3>2 DEF ToSet
        <3>5. /\ \A x \in 1 .. F : f[x] # j /\ f[x] # k
              /\ \A x \in 1 .. B : b[x] # j /\ b[x] # k
            BY <2>18, <3>2 DEF ToSet
        <3>6. j = all[S + y] /\ k = all[S + z]
            BY <2>10, <3>1, <3>3, <3>4
        <3>7. y \notin 1 .. F /\ z \notin 1 .. F
            BY <2>8, <3>5, <3>6
        <3>8. D + 1 - y \notin 1 .. B /\ D + 1 - z \notin 1 .. B
            <4>1. E + 1 - (D + 1 - y) = S + y /\ E + 1 - (D + 1 - z) = S + z
                BY <2>5, <3>1
            <4>2. QED
                BY <2>8, <3>5, <3>6, <4>1
        <3>9. D <= F + 1 \/ D <= B + 1
            BY <2>8, <2>18, <3>1
        <3>10. y = z
            BY <3>7, <3>8, <3>9
        <3>11. QED
            BY <3>3, <3>4, <3>10
    <2>19. QED
        BY <2>6, <2>7, <2>9, <2>11, <2>13, <2>15, <2>16, <2>17, <2>18
<1>7. RangeInOrder
    BY <1>2, <1>6 DEF RangeInOrder, RangeOrdered
<1>8. OmitsAtMostOne
    BY <1>2, <1>6 DEF OmitsAtMostOne, RangeOrdered, RangeDone
<1>9. QED
    BY <1>5, <1>7, <1>8

\* node_bounds, whenever no call is under way
LEMMA BoundsShown ==
    ASSUME IInv, Ordered
    PROVE  BoundsExact
<1>1. SUFFICES ASSUME op = Idle, NEW m \in Maps, NEW lo \in Bounds, NEW hi \in Bounds,
                      BoundsOrdered(lo, hi)
               PROVE  LET ks    == KeysWithin(ChainKeys(m), lo, hi)
                          found == node_bounds(m, lo, hi)
                      IN  IF ks = <<>> THEN found = NoBounds
                          ELSE /\ \A c \in {found.start, found.end} :
                                      IsAttached(c) /\ IsValid(c)
                               /\ CursorKey(found.start) = ks[1]
                               /\ CursorKey(found.end) = Last(ks)
    BY DEF BoundsExact
<1>2. PICK q, n : Chain(m, q, n)
    BY <1>1, ChainFound
<1>3. PICK ss : ss = KeysOn(q)
    OBVIOUS
<1>4. n \in Nat /\ ss \in [1 .. n -> Seq(Keys)]
    BY <1>2, <1>3, ChainKeysOn
<1>5. PICK T : T = Keys
    OBVIOUS
<1>6. \E o : Offsets(o, ss, n)
    BY <1>4, <1>5, OffsetsExist
<1>7. PICK o : Leaves(m, q, n, o)
    BY <1>2, <1>3, <1>6 DEF Leaves
<1>8. PICK f : f = node_bounds(m, lo, hi)
    OBVIOUS
<1>9. PICK S, E : Delimits(f, lo, hi, m, S, E, q, n, o)
    BY <1>1, <1>7, <1>8, NodeBounds
<1>10. PICK all \in Seq(Keys) : all = ChainKeys(m) /\ Len(all) = o[n + 1]
    BY <1>7, ChainEntries DEF Leaves
<1>11. PICK N \in Nat : N = Len(all)
    OBVIOUS
<1>12. /\ S \in 0 .. N /\ E \in 0 .. N /\ S <= E
       /\ \A x \in 1 .. N : Within(all[x], lo, hi) <=> S < x /\ x <= E
       /\ S = E => f = NoBounds
       /\ S # E => AtEntry(f.start, S + 1, q, n, o) /\ AtEntry(f.end, E, q, n, o)
    BY <1>9, <1>10, <1>11 DEF Delimits
<1>13. PICK w : w = KeysWithin(all, lo, hi)
    OBVIOUS
<1>14. PICK D \in Nat : D = E - S
    BY <1>12
<1>15. /\ w \in Seq(Keys) /\ Len(w) = D
       /\ \A y \in 1 .. D : w[y] = all[S + y]
    <2>1. \A x \in 1 .. N : Within(all[x], lo, hi) <=> S < x /\ x <= E
        BY ONLY <1>12
    <2>2. Encloses(all, N, lo, hi, S, E)
        BY ONLY <1>11, <1>12, <2>1, all \in Seq(Keys), N \in Nat DEF Encloses
    <2>3. IsPart(KeysWithin(all, lo, hi), all, S, E)
        BY ONLY <2>2, KeysWithinAre
    <2>4. QED
        BY ONLY <1>13, <1>14, <2>3 DEF IsPart
<1>16. CASE S = E
    <2>1. D = 0
        BY <1>12, <1>14, <1>16
    <2>2. w = <<>>
        BY <1>15, <2>1
    <2>3. QED
        BY <1>8, <1>10, <1>12, <1>13, <1>16, <2>2
<1>17. CASE S # E
    <2>1. D > 0 /\ 1 \in 1 .. D /\ D \in 1 .. D /\ S + D = E
        BY <1>12, <1>14, <1>17
    <2>2. w # <<>>
        BY <1>15, <2>1
    <2>3. AtEntry(f.start, S + 1, q, n, o) /\ AtEntry(f.end, E, q, n, o)
        BY <1>12, <1>17
    <2>4. /\ IsAttached(f.start) /\ IsValid(f.start) /\ CursorKey(f.start) = all[S + 1]
          /\ IsAttached(f.end) /\ IsValid(f.end) /\ CursorKey(f.end) = all[E]
        BY <1>7, <1>10, <2>3, AtEntryIs
    <2>5. w[1] = all[S + 1]
        BY <1>15, <2>1
    <2>6. Last(w) = all[E]
        <3>1. w[D] = all[S + D]
            BY <1>15, <2>1
        <3>2. QED
            BY ONLY <1>15, <2>1, <3>1 DEF Last
    <2>7. QED
        BY <1>8, <1>10, <1>13, <2>2, <2>4, <2>5, <2>6
<1>18. QED
    BY <1>16, <1>17

\* The invariant under a client's ranges, which the calls on the map precede
THEOREM RangeInvHolds ==
    ASSUME ReuseAfterClear = FALSE
    PROVE  RangeSpec => [](IInv /\ Ordered /\ RangeInv)
<1>1. RangeInit => IInv /\ Ordered /\ RangeInv
    BY InitInv, InitOrder DEF RangeInit, RangeInv
<1>2. IInv /\ Ordered /\ RangeInv /\ [RangeNext]_rangeVars => (IInv /\ Ordered /\ RangeInv)'
    BY RangeNextInv, RangeKept
<1>3. QED
    BY <1>1, <1>2, PTL DEF RangeSpec

\* node_bounds finds the first and the last entry within any bounds of any
\* map, wherever find() ends: also next to a separator that is no longer a key.
THEOREM BoundsAreExact ==
    ASSUME ReuseAfterClear = FALSE
    PROVE  RangeSpec => []BoundsExact
<1>1. IInv /\ Ordered => BoundsExact
    BY BoundsShown
<1>2. QED
    BY <1>1, RangeInvHolds, PTL

\* What next, next_back and peek of a range read is an entry of a leaf of its
\* map, even for bounds that no RangeBounds describes.
THEOREM RangesStayAlive ==
    ASSUME ReuseAfterClear = FALSE
    PROVE  RangeSpec => []RangeCursorsAlive
<1>1. IInv /\ RangeInv => RangeCursorsAlive
    BY RangeShows
<1>2. QED
    BY <1>1, RangeInvHolds, PTL

\* Either end of a range hands out the entries from its bound on, in order and
\* each once, and unless exactly one entry is within the bounds no more than
\* there are within them.
THEOREM RangesStayInOrder ==
    ASSUME ReuseAfterClear = FALSE
    PROVE  RangeSpec => []RangeInOrder
<1>1. IInv /\ RangeInv => RangeInOrder
    BY RangeShows
<1>2. QED
    BY <1>1, RangeInvHolds, PTL

\* Of the entries within its bounds a range that has come to its end has left
\* out at most one.
THEOREM RangesOmitAtMostOne ==
    ASSUME ReuseAfterClear = FALSE
    PROVE  RangeSpec => []OmitsAtMostOne
<1>1. IInv /\ RangeInv => OmitsAtMostOne
    BY RangeShows
<1>2. QED
    BY <1>1, RangeInvHolds, PTL
=============================================================================
