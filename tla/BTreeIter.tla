----------------------------- MODULE BTreeIter -----------------------------
(***************************************************************************)
(* Iter and IterMut of src/map.rs: two cursors, one from either end, and   *)
(* the number of entries between them.                                     *)
(*                                                                         *)
(* An iterator borrows its map, so the map is not called while it exists.  *)
(* The other maps are: their nodes come from and go back to the same       *)
(* store while the iterator holds pointers into it.                        *)
(***************************************************************************)
EXTENDS BTreeCursor

VARIABLE
    iter             \* the iterator, or NoIter

NoIter == [kind |-> "none"]

iterVars == <<vars, iter>>

(***************************************************************************)
(* `length`, `cursor` and `back_cursor` are the struct's fields.  The      *)
(* other fields are history: the keys handed out at either end, and the    *)
(* values that the map should have, in order, after the client's writes.   *)
(***************************************************************************)
IterNew(m, kind) ==
    [kind |-> kind, map |-> m,
     cursor |-> AtStart(FirstLeaf(m)), back_cursor |-> AtEnd(LastLeaf(m)),
     length |-> length[m],
     front |-> <<>>, back |-> <<>>, values |-> ChainVals(m)]

IterInit == Init /\ iter = NoIter

iter_of(m)     == iter = NoIter /\ op = Idle /\ iter' = IterNew(m, "Iter") /\ UNCHANGED vars
iter_mut_of(m) == iter = NoIter /\ op = Idle /\ iter' = IterNew(m, "IterMut") /\ UNCHANGED vars

\* `iter` with an entry fewer: next and next_back, after the entry was read
Advance(i) == [i EXCEPT !.cursor = Advanced(@), !.length = @ - 1,
                        !.front = Append(@, CursorKey(i.cursor))]
AdvanceBack(i) == [i EXCEPT !.back_cursor = AdvancedBack(@), !.length = @ - 1,
                            !.back = Append(@, CursorKey(i.back_cursor))]

\* With length 0 both return None and nothing changes.
HasNextEntry(kind) == iter.kind = kind /\ op = Idle /\ iter.length > 0

iter_next ==
    /\ HasNextEntry("Iter")
    /\ iter' = Advance(iter)
    /\ UNCHANGED vars

iter_next_back ==
    /\ HasNextEntry("Iter")
    /\ iter' = AdvanceBack(iter)
    /\ UNCHANGED vars

\* Mutant: the reference taken after the cursor has moved on.
next_mut_of_following(v) ==
    /\ HasNextEntry("IterMut")
    /\ LET i == Advance(iter)
       IN  /\ iter' = [i EXCEPT !.values[Len(i.front)] = v]
           /\ IsAttached(i.cursor)
           /\ WriteAt(i.cursor, v)

iter_mut_next(v) ==
    /\ HasNextEntry("IterMut")
    /\ LET i == Advance(iter)
       IN  iter' = [i EXCEPT !.values[Len(i.front)] = v]
    /\ WriteAt(iter.cursor, v)

iter_mut_next_back(v) ==
    /\ HasNextEntry("IterMut")
    /\ LET i == AdvanceBack(iter)
       IN  iter' = [i EXCEPT !.values[Len(i.values) + 1 - Len(i.back)] = v]
    /\ WriteAt(iter.back_cursor, v)

\* The iterator is dropped, at any moment.
iter_drop == iter # NoIter /\ op = Idle /\ iter' = NoIter /\ UNCHANGED vars

\* Calls on the maps that are not borrowed
Borrowed == IF iter = NoIter THEN {} ELSE {iter.map}

CallElsewhere ==
    /\ \/ \E m \in Maps \ Borrowed : CallOn(m)
       \/ OverflowStep
       \/ UnderflowStep
    /\ UNCHANGED iter

IterNext ==
    \/ CallElsewhere
    \/ \E m \in Maps : iter_of(m) \/ iter_mut_of(m)
    \/ iter_next \/ iter_next_back
    \/ \E v \in Values : iter_mut_next(v) \/ iter_mut_next_back(v)
    \/ iter_drop

IterSpec == IterInit /\ [][IterNext]_iterVars

-----------------------------------------------------------------------------
\* What was handed out is a beginning and an end of `ks`, and `length`
\* (size_hint, len) is what is between them.
HandedOutInOrder(i, ks) ==
    LET n == Len(i.front)
        k == Len(i.back)
    IN  /\ n + k + i.length = Len(ks)
        /\ i.front = SubSeq(ks, 1, n)
        /\ i.back = Reverse(SubSeq(ks, Len(ks) - k + 1, Len(ks)))

Borrowing == iter.kind \in {"Iter", "IterMut"}

\* Every entry once, in order, from both ends until they meet (map.rs
\* 575-583, tests/iter.rs 5-22).
EachEntryOnce == Borrowing => HandedOutInOrder(iter, ChainKeys(iter.map))

\* "Node and connected pointers must be alive for 'a, and the node must be a
\* leaf" (cursor.rs 26, 39): whatever other maps of the store do meanwhile,
\* a cursor that will be read is at an entry of a leaf of its own map.
CursorsAlive ==
    Borrowing /\ iter.length > 0 =>
        \A c \in {iter.cursor, iter.back_cursor} :
            /\ IsAttached(c) /\ IsValid(c)
            /\ c.node \in TreeOf(iter.map) \cap live
            /\ level[c.node] = 0

\* IterMut hands out each value once: the values written are those of the
\* entries handed out, the others are what they were (tests/iter.rs 218-234).
WritesOwnEntry == Borrowing => ChainVals(iter.map) = iter.values
=============================================================================
