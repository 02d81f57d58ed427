----------------------------- MODULE BTreeCursor -----------------------------
(***************************************************************************)
(* Positions in the chain of leaves: the cursors of src/cursor.rs and the  *)
(* address functions at the end of src/node.rs, as operators on records    *)
(* [node, index].  Every iterator of src/map.rs is made of two of them.    *)
(***************************************************************************)
EXTENDS BTreeMapProps

\* Option<(NodePtr, u16)>: an entry's leaf and 0-based index.
Address(node, index) == [node |-> node, index |-> index]

\* Cursor::new_detached, and the address None.
Detached == Address(NULL, 0)

IsAttached(c) == c.node # NULL

\* It leaves the index alone.
detach(c) == [c EXCEPT !.node = NULL]

\* Cursor::validate: the entry is there.
IsValid(c) == IsAttached(c) => c.index < Len(keys[c.node])

CursorKey(c) == keys[c.node][c.index + 1]

\* key_value_mut: the client's `*value = v` through the reference handed out
WriteAt(c, v) ==
    /\ vals' = [vals EXCEPT ![c.node][c.index + 1] = v]
    /\ UNCHANGED <<live, level, parent, parent_idx, keys, edges, prev, next,
                   root, height, length, op>>

\* The first, and the last, entry of a leaf that may be None.
AtStart(leaf) == Address(leaf, 0)

\* Mutant: new_at_end at `len`.
AtLen(leaf) == IF leaf = NULL THEN Detached ELSE Address(leaf, Len(keys[leaf]))

AtEnd(leaf) == IF leaf = NULL THEN Detached ELSE Address(leaf, Len(keys[leaf]) - 1)

\* Cursor::advance of an attached cursor (of a detached one it panics)
Advanced(c) ==
    IF c.index < Len(keys[c.node]) - 1 THEN [c EXCEPT !.index = @ + 1]
    ELSE AtStart(next[c.node])

\* Mutant: the index of the leaf before left at 0.
LandsAtStart(c) ==
    IF c.index > 0 THEN [c EXCEPT !.index = @ - 1] ELSE AtStart(prev[c.node])

\* Cursor::advance_back of an attached cursor
AdvancedBack(c) ==
    IF c.index > 0 THEN [c EXCEPT !.index = @ - 1] ELSE AtEnd(prev[c.node])

-----------------------------------------------------------------------------
(***************************************************************************)
(* Addresses next to one that find() returned.  Find::Before may be at     *)
(* index len, behind the last entry of its leaf.                           *)
(***************************************************************************)

\* Mutant: index len taken for an entry.
NotNormalized(node, idx) == Address(node, idx)

normalize_address(node, idx) ==
    IF idx < Len(keys[node]) THEN Address(node, idx) ELSE AtStart(next[node])

address_before(node, idx) ==
    IF idx > 0 THEN Address(node, idx - 1) ELSE AtEnd(prev[node])

\* The third branch, index len, is one that find() never leads to here.
address_after(node, idx) ==
    IF idx < Len(keys[node]) - 1 THEN Address(node, idx + 1) ELSE AtStart(next[node])

-----------------------------------------------------------------------------
\* first_leaf and last_leaf of a map that may have no root
FirstLeaf(m) == IF root[m] = NULL THEN NULL ELSE first_leaf(m)
LastLeaf(m)  == IF root[m] = NULL THEN NULL ELSE last_leaf(m)
=============================================================================
