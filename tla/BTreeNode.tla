----------------------------- MODULE BTreeNode -----------------------------
(***************************************************************************)
(* The arithmetic of one node of the B+ tree (src/node.rs) and the walks   *)
(* over nodes that every operation of the map starts with, as operators    *)
(* without state.                                                          *)
(*                                                                         *)
(* A node's arrays `keys`, `vals` and `edges` are sequences holding the    *)
(* initialised prefix of the array, so `len` is the length of `keys`.  The *)
(* code's indices are 0-based: index i of the code is position i + 1.      *)
(***************************************************************************)
EXTENDS Integers, Sequences, SequencesExt

CONSTANT
    M        \* keys in a node at most: node.rs `M` (8 in the build)

(***************************************************************************)
(* The copies of node.rs's split_leaf and split_internal have the lengths  *)
(* of their slices agree only when M is even.                              *)
(***************************************************************************)
ASSUME MAssumption == M \in Nat /\ M >= 2 /\ M % 2 = 0

-----------------------------------------------------------------------------
(***************************************************************************)
(* Occupancy.                                                              *)
(***************************************************************************)

\* A node that takes another entry: `len < M`.
HasRoom(len) == len < M

\* A node other than the root that has to be rebalanced: `len < M / 2`.
Underfull(len) == len < M \div 2

\* Mutant: a sibling at the limit gives one away too.
LendsAtLimit(len) == len >= M \div 2

\* A sibling that can give an entry away: `len > M / 2`.
CanLend(len) == len > M \div 2

-----------------------------------------------------------------------------
(***************************************************************************)
(* Slots and positions.                                                    *)
(***************************************************************************)

\* What `keys().binary_search_by(..)` answers with Err: how many are smaller.
InsertionIndex(ks, k) == Cardinality({i \in DOMAIN ks : ks[i] < k})

\* Mutant: Ok(idx) => idx, left of a separator equal to the key.
EdgeIndexLeftOfEqual(ks, k) == Cardinality({i \in DOMAIN ks : ks[i] < k})

\* The edge find() descends through: Ok(idx) => idx + 1, Err(idx) => idx.
EdgeIndex(ks, k) == Cardinality({i \in DOMAIN ks : ks[i] <= k})

\* Mutant: the loops that renumber the children left out.
NotShifted(idxs, moved, d) == idxs

\* parent_idx of the children in `moved` changed by d (`parent_idx += 1` ..).
Shifted(idxs, moved, d) ==
    [c \in DOMAIN idxs |-> IF c \in moved THEN idxs[c] + d ELSE idxs[c]]

\* Mutant: the loop that renumbers starts one edge early.
EdgesFromBefore(es, i) == {es[j] : j \in {n \in DOMAIN es : n >= i}}

\* The edges of `es` from 0-based index i on.
EdgesFrom(es, i) == {es[j] : j \in {n \in DOMAIN es : n > i}}

\* Mutant: the neighbour's link left as it was.
LinkLeft(links, s, target) == links

\* A pointer assignment through an Option: nothing happens on None.
SetLink(links, s, target) ==
    IF s \in DOMAIN links THEN [links EXCEPT ![s] = target] ELSE links

-----------------------------------------------------------------------------
(***************************************************************************)
(* Splitting a full node.  `ks` (`vs`, `es`) is the node's array with the  *)
(* new entry already at its place, which is what the swap loops compute:   *)
(* it has one more element than the array holds.                           *)
(***************************************************************************)

\* `median = self.len / 2`, len being the length before the insertion.
Median(ks) == (Len(ks) - 1) \div 2

\* Mutants: the right half copied from one entry too far; the split key
\* taken from the left half.
LeafRightShort(s) == SubSeq(s, Median(s) + 2, Len(s))
LeafSplitKeyBefore(ks) == ks[Median(ks)]

\* split_leaf: the left node keeps `median` entries, the right one has the
\* rest, the split key included (the parent gets a copy of it).
LeafLeft(s)  == SubSeq(s, 1, Median(s))
LeafRight(s) == SubSeq(s, Median(s) + 1, Len(s))
LeafSplitKey(ks) == ks[Median(ks) + 1]

\* Mutant: the split key stays in the right half of an internal node too.
InternalRightKeepsKey(ks) == SubSeq(ks, Median(ks) + 1, Len(ks))

\* split_internal: the split key moves up and is in neither half; the edge
\* after it becomes edge 0 of the right node.
InternalLeft(ks)  == SubSeq(ks, 1, Median(ks))
InternalRight(ks) == SubSeq(ks, Median(ks) + 2, Len(ks))
InternalSplitKey(ks) == ks[Median(ks) + 1]
EdgesLeft(es)  == SubSeq(es, 1, ((Len(es) - 2) \div 2) + 1)
EdgesRight(es) == SubSeq(es, ((Len(es) - 2) \div 2) + 2, Len(es))

-----------------------------------------------------------------------------
(***************************************************************************)
(* Repeat(step, x)[n] is `step` applied n times to x: the loops of the     *)
(* code that walk down the tree or along the leaves.                       *)
(***************************************************************************)
Repeat(step, x) ==
    LET walk[n \in Nat] == IF n = 0 THEN x ELSE step[walk[n - 1]]
    IN  walk
=============================================================================
