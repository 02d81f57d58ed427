----------------------------- MODULE MCBTreeMap -----------------------------
(* Instances of BTreeMap for TLC. *)
EXTENDS BTreeMapRefinement

CONSTANTS a, b, v1, v2

OneMap == {a}
TwoMaps == {a, b}
OneValue == {v1}
TwoValues == {v1, v2}

(***************************************************************************)
(* VIEW of the safety runs: a state up to the names of the slots.  Which   *)
(* free slot the arena hands out is immaterial (Fresh), so states that     *)
(* differ by a renaming of the slots behave alike.  Slots are renamed to   *)
(* their place in the trees, level by level, the right half of a split and *)
(* what is below it last; other allocated nodes have no name.              *)
(***************************************************************************)
Breadth(r, h) ==
    LET down == [q \in Seq(Slots) |-> FlattenSeq([i \in DOMAIN q |-> edges[q[i]]])]
        levels == Repeat(down, <<r>>)
    IN  FlattenSeq([i \in 1 .. h + 1 |-> levels[i - 1]])

CanonicalOrder ==
    LET maps == SetToSeq(Maps)
        trees == FlattenSeq([i \in DOMAIN maps |->
                    IF root[maps[i]] = NULL THEN <<>>
                    ELSE Breadth(root[maps[i]], height[maps[i]])])
        split == IF op.pc = "overflow" THEN Breadth(op.right, level[op.right]) ELSE <<>>
    IN  trees \o split

Unreached == 0
NameIn(order, s) ==
    IF s \in ToSet(order) THEN CHOOSE i \in DOMAIN order : order[i] = s
    ELSE IF s \in live THEN Unreached ELSE IF s = NULL THEN -1 ELSE -2

\* Of the nodes that no map reaches, the ones in `shown` are described.
CanonicalShowing(shown) ==
    LET order == CanonicalOrder
        rest == live \ ToSet(order)
        Name(s) == NameIn(order, s)
        Node(s) == <<level[s], Name(parent[s]), parent_idx[s], keys[s], vals[s],
                     [i \in DOMAIN edges[s] |-> Name(edges[s][i])],
                     Name(prev[s]), Name(next[s])>>
    IN  <<[i \in DOMAIN order |-> Node(order[i])],
          Cardinality(rest), {Node(s) : s \in rest \cap shown},
          [m \in Maps |-> Name(root[m])], height, length,
          IF op.pc = "overflow" THEN [op EXCEPT !.node = Name(@), !.right = Name(@)]
          ELSE IF op.pc = "underflow" THEN [op EXCEPT !.node = Name(@)]
          ELSE op>>

Canonical == CanonicalShowing(live)

(***************************************************************************)
(* ACTION_CONSTRAINT of the run with M = 4 and three levels: the map is    *)
(* filled in rising or in falling order; once full it loses the keys       *)
(* between two of them, one by one at either end of the gap.               *)
(***************************************************************************)
Present == UNION {ToSet(keys[s]) : s \in {leaf \in live : level[leaf] = 0}}

OneGap(ks) == \A k \in ks : \/ \A x \in Keys \ ks : k < x
                            \/ \A x \in Keys \ ks : x < k

FromOneEnd(ks) == \/ \A k \in ks, x \in Keys \ ks : k < x
                  \/ \A k \in ks, x \in Keys \ ks : x < k

FillThenDrain ==
    \/ op # Idle
    \/ Present' = Present
    \/ Present \subseteq Present' /\ FromOneEnd(Present) /\ FromOneEnd(Present')
    \/ Present' \subseteq Present /\ OneGap(Present')
       /\ (Present = Keys \/ ~FromOneEnd(Present))

Slots6 == 1 .. 6
Slots7 == 1 .. 7
Slots8 == 1 .. 8
Slots10 == 1 .. 10
Slots12 == 1 .. 12
Slots14 == 1 .. 14
Keys3 == 1 .. 3
Keys4 == 1 .. 4
Keys5 == 1 .. 5
Keys6 == 1 .. 6
Keys8 == 1 .. 8
Keys16 == 1 .. 16
=============================================================================
