----------------------------- MODULE BTreePanic -----------------------------
(***************************************************************************)
(* A client's K::clone that panics inside a call of src/map.rs.  The call  *)
(* is left where it stands: in split_leaf (src/node.rs) with the entry     *)
(* swapped into a leaf that was not split, in the loop of post_removal     *)
(* with `length` lowered and a node below its minimum.  While the panic    *)
(* unwinds, Drop of a map gives nothing back; a client that catches it     *)
(* goes on with the map.                                                   *)
(*                                                                         *)
(* K::clone in get_or_insert comes before any change.  The build is one    *)
(* without debug assertions: with them, insert_root stops a map that       *)
(* RootlessIsEmpty does not hold of.                                       *)
(***************************************************************************)
EXTENDS BTreeMapProps

\* The panic unwinds: `op` of a map that no call is in.
Panicking == [pc |-> "panic"]

\* Entries that `length` counts and no leaf holds, and nodes with too few
\* entries that no loop is at: the marks a panic leaves.
Lost(m) == length[m] - Len(ChainKeys(m))
Short == {s \in live : /\ Underfull(Len(keys[s])) /\ parent[s] # NULL
                       /\ ~(op.pc = "underflow" /\ s = op.node)}

\* The call ends here.  Bound: no second panic while there are marks of one.
Unwind ==
    /\ Occupancy /\ \A m \in Maps : Lost(m) = 0
    /\ op' = Panicking

\* Mutant: `self.len = median` before the clone.
SplitLeafLenFirst(m, k, v) ==
    /\ Found(m)
    /\ LET leaf == FindLeaf(m, k)
           idx == InsertionIndex(keys[leaf], k)
       IN  /\ ~IsAt(leaf, k) /\ ~HasRoom(Len(keys[leaf]))
           /\ keys' = [keys EXCEPT ![leaf] = LeafLeft(InsertAt(@, idx + 1, k))]
           /\ vals' = [vals EXCEPT ![leaf] = LeafLeft(InsertAt(@, idx + 1, v))]
    /\ Unwind
    /\ UNCHANGED <<live, level, parent, parent_idx, edges, prev, next, mapVars>>

\* `right.keys[0].write(key.clone())`: the swap loops have run, `len` is as
\* it was.  The median entry, or the new one if it is that, goes with the
\* locals of the call.
SplitLeafPanics(m, k, v) ==
    /\ Found(m)
    /\ LET leaf == FindLeaf(m, k)
           idx == InsertionIndex(keys[leaf], k)
           ks == InsertAt(keys[leaf], idx + 1, k)
           vs == InsertAt(vals[leaf], idx + 1, v)
       IN  /\ ~IsAt(leaf, k) /\ ~HasRoom(Len(keys[leaf]))
           /\ keys' = [keys EXCEPT ![leaf] = LeafLeft(ks) \o Tail(LeafRight(ks))]
           /\ vals' = [vals EXCEPT ![leaf] = LeafLeft(vs) \o Tail(LeafRight(vs))]
    /\ Unwind
    /\ UNCHANGED <<live, level, parent, parent_idx, edges, prev, next, mapVars>>

\* `node.insert_val(0, key.clone(), val)`: the entry has left the sibling.
BorrowPrevLeafPanics ==
    /\ Underflowing(TRUE)
    /\ ~AtRoot /\ PrevLends
    /\ keys' = [keys EXCEPT ![PrevSibling] = Front(@)]
    /\ vals' = [vals EXCEPT ![PrevSibling] = Front(@)]
    /\ Unwind
    /\ UNCHANGED <<live, level, parent, parent_idx, edges, prev, next, mapVars>>

\* `next.key(1).clone()` of a leaf and `parent.key(..).clone()` of a merge of
\* internal nodes come before this iteration has changed anything.
CloneBeforeChangePanics ==
    /\ \/ Underflowing(TRUE) /\ ~AtRoot /\ ~PrevLends /\ NextLends
       \/ Underflowing(FALSE) /\ ~AtRoot /\ ~PrevLends /\ ~NextLends
    /\ Unwind
    /\ UNCHANGED <<live, nodeVars, mapVars>>

\* Mutant: the root goes back to the store, and what is below it does not.
DropRootWhilePanicking(m) ==
    /\ op = Panicking
    /\ root[m] # NULL
    /\ GiveBack({root[m]})
    /\ root' = [root EXCEPT ![m] = NULL]
    /\ height' = [height EXCEPT ![m] = 0]
    /\ length' = [length EXCEPT ![m] = 0]
    /\ UNCHANGED op

\* Drop while panicking: "TODO: Drop when panicking without causing UB".
DropWhilePanicking(m) ==
    /\ op = Panicking
    /\ root[m] # NULL
    /\ root' = [root EXCEPT ![m] = NULL]
    /\ height' = [height EXCEPT ![m] = 0]
    /\ length' = [length EXCEPT ![m] = 0]
    /\ UNCHANGED <<live, nodeVars, op>>

\* catch_unwind in the client
CatchUnwind ==
    /\ op = Panicking
    /\ op' = Idle
    /\ UNCHANGED <<live, nodeVars, mapVars>>

PanicNext ==
    \/ Next
    \/ \E m \in Maps, k \in Keys, v \in Values : SplitLeafPanics(m, k, v)
    \/ BorrowPrevLeafPanics
    \/ CloneBeforeChangePanics
    \/ \E m \in Maps : DropWhilePanicking(m)
    \/ CatchUnwind

PanicSpec == Init /\ [][PanicNext]_vars

-----------------------------------------------------------------------------
\* After a panic one node at most has too few entries, and only one too few:
\* it is mended or merged when a later loop comes to it, and no loop leaves a
\* second one behind (map.rs 882, 908, 927).
OccupiedButForPanics ==
    /\ Cardinality(Short) <= 1
    /\ \A s \in Short : Len(keys[s]) = M \div 2 - 1

\* As long as a map has a root, a panic leaves its leaves linked and its keys in
\* order, and `length`, which validate() compares with what it counts (map.rs
\* 494), is wrong by the one lost entry at most (map.rs 876, 909-911).
ValidButForLost ==
    op = Idle => \A m \in Maps : root[m] # NULL =>
        Lost(m) \in {0, 1} /\ LeavesLinked(m) /\ KeysInOrder(m)

\* The nodes that a Drop left in the store while a panic unwound stay apart from
\* those of all maps made since, and from those a map gives back: no node of
\* the store refers to a freed one or to one of another tree (map.rs 1053-1062).
LeftBehindApart ==
    op \in {Idle, Panicking} =>
        \A s \in live : \A t \in (ToSet(edges[s]) \cup {parent[s], prev[s], next[s]}) \ {NULL} :
            t \in live /\ \A m \in Maps : s \in TreeOf(m) <=> t \in TreeOf(m)

\* A panic takes one entry at most from the map besides the one that is being
\* inserted or removed (node.rs 566-584, map.rs 909-911).
PanicsLoseOneEntry ==
    [][op' = Panicking /\ op # Panicking =>
        \A m \in Maps : root[m] # NULL =>
            Cardinality(ToSet(ChainKeys(m)) \ ToSet(ChainKeys(m)')) <= 1]_vars

-----------------------------------------------------------------------------
\* "debug_assert_eq!(self.length, 0)" in insert_root (map.rs 800): a map without
\* a root, to which insert_root is applied next, counts no entry.
RootlessIsEmpty == op = Idle => \A m \in Maps : root[m] = NULL => length[m] = 0
=============================================================================
