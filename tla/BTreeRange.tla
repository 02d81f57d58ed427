----------------------------- MODULE BTreeRange -----------------------------
(***************************************************************************)
(* node_bounds, Range and RangeMut of src/map.rs.  A range is found by its *)
(* first and last entry; unlike Iter it has no count, and ends when the    *)
(* moving cursor meets the address that node_bounds gave for the far end.  *)
(***************************************************************************)
EXTENDS BTreeCursor

VARIABLE
    range            \* the Range, or NoRange

NoRange == [kind |-> "none"]

rangeVars == <<vars, range>>

\* RangeBounds: start_bound and end_bound
Unbounded == [kind |-> "Unbounded"]
Bounds == [kind : {"Included", "Excluded"}, key : Keys] \cup {Unbounded}

-----------------------------------------------------------------------------
(***************************************************************************)
(* node_bounds.                                                            *)
(***************************************************************************)

\* The entry a range from `bound` starts with
StartAddress(m, bound) ==
    LET leaf == FindLeaf(m, bound.key)
        idx  == InsertionIndex(keys[leaf], bound.key)
    IN  IF bound.kind = "Unbounded" THEN AtStart(first_leaf(m))
        ELSE IF ~IsAt(leaf, bound.key) THEN normalize_address(leaf, idx)
        ELSE IF bound.kind = "Included" THEN Address(leaf, idx)
        ELSE address_after(leaf, idx)

\* The entry a range up to `bound` ends with
EndAddress(m, bound) ==
    LET leaf == FindLeaf(m, bound.key)
        idx  == InsertionIndex(keys[leaf], bound.key)
    IN  IF bound.kind = "Unbounded" THEN AtEnd(last_leaf(m))
        ELSE IF bound.kind = "Included" /\ IsAt(leaf, bound.key) THEN Address(leaf, idx)
        ELSE address_before(leaf, idx)

\* "Check for overlap (only need to check if address_after(start) == end)"
Overlap(start, end) ==
    \/ start.node = end.node /\ start.index = end.index + 1
    \/ start.index = 0 /\ prev[start.node] = end.node

NoBounds == [start |-> Detached, end |-> Detached]

node_bounds(m, lo, hi) ==
    IF root[m] = NULL THEN NoBounds
    ELSE LET start == StartAddress(m, lo)
             end   == EndAddress(m, hi)
         IN  IF ~IsAttached(start) \/ ~IsAttached(end) \/ Overlap(start, end)
             THEN NoBounds
             ELSE [start |-> start, end |-> end]

-----------------------------------------------------------------------------
(***************************************************************************)
(* The iterator.  `front` and `back` are history: the keys next and        *)
(* next_back handed out.                                                   *)
(***************************************************************************)
RangeInit == Init /\ range = NoRange

RangeNew(m, kind, lo, hi) ==
    LET found == node_bounds(m, lo, hi)
    IN  [kind |-> kind, map |-> m, lo |-> lo, hi |-> hi, bounds |-> found,
         cursor |-> found.start, back_cursor |-> found.end,
         front |-> <<>>, back |-> <<>>]

range_of(m, lo, hi) ==
    /\ range = NoRange /\ op = Idle
    /\ range' = RangeNew(m, "Range", lo, hi)
    /\ UNCHANGED vars

range_mut_of(m, lo, hi) ==
    /\ range = NoRange /\ op = Idle
    /\ range' = RangeNew(m, "RangeMut", lo, hi)
    /\ UNCHANGED vars

\* Mutant: the end that node_bounds found is not looked at again.
AdvanceToEndOfMap(r) ==
    LET moved == Advanced(r.cursor)
    IN  IF ~IsAttached(moved)
        THEN [r EXCEPT !.cursor = moved, !.back_cursor = detach(@)]
        ELSE [r EXCEPT !.cursor = moved]

\* Mutant: the far end compared by its leaf.
AdvanceToFarLeaf(r) ==
    LET moved == Advanced(r.cursor)
    IN  IF ~IsAttached(moved)
        THEN [r EXCEPT !.cursor = moved, !.back_cursor = detach(@)]
        ELSE IF moved.node = r.bounds.end.node
        THEN [r EXCEPT !.cursor = detach(moved), !.back_cursor = detach(@)]
        ELSE [r EXCEPT !.cursor = moved]

AdvanceRange(r) ==
    LET moved == Advanced(r.cursor)
    IN  IF ~IsAttached(moved)
        THEN [r EXCEPT !.cursor = moved, !.back_cursor = detach(@)]
        ELSE IF moved = r.bounds.end
        THEN [r EXCEPT !.cursor = detach(moved), !.back_cursor = detach(@)]
        ELSE [r EXCEPT !.cursor = moved]

AdvanceRangeBack(r) ==
    LET moved == AdvancedBack(r.back_cursor)
    IN  IF ~IsAttached(moved)
        THEN [r EXCEPT !.back_cursor = moved, !.cursor = detach(@)]
        ELSE IF moved = r.bounds.start
        THEN [r EXCEPT !.back_cursor = detach(moved), !.cursor = detach(@)]
        ELSE [r EXCEPT !.back_cursor = moved]

NextOf(r) == AdvanceRange([r EXCEPT !.front = Append(@, CursorKey(r.cursor))])
NextBackOf(r) == AdvanceRangeBack([r EXCEPT !.back = Append(@, CursorKey(r.back_cursor))])

\* With a detached cursor they return None and nothing changes.
RangeHasNext(kind) == range.kind = kind /\ IsAttached(range.cursor)
RangeHasNextBack(kind) == range.kind = kind /\ IsAttached(range.back_cursor)

range_next == RangeHasNext("Range") /\ range' = NextOf(range) /\ UNCHANGED vars

range_next_back == RangeHasNextBack("Range") /\ range' = NextBackOf(range) /\ UNCHANGED vars

range_mut_next(v) ==
    RangeHasNext("RangeMut") /\ range' = NextOf(range) /\ WriteAt(range.cursor, v)

range_mut_next_back(v) ==
    RangeHasNextBack("RangeMut") /\ range' = NextBackOf(range) /\ WriteAt(range.back_cursor, v)

range_drop == range # NoRange /\ range' = NoRange /\ UNCHANGED vars

\* Calls on the map before it is borrowed
CallBefore == range = NoRange /\ Next /\ UNCHANGED range

RangeNext ==
    \/ CallBefore
    \/ \E m \in Maps, lo, hi \in Bounds : range_of(m, lo, hi) \/ range_mut_of(m, lo, hi)
    \/ range_next \/ range_next_back
    \/ \E v \in Values : range_mut_next(v) \/ range_mut_next_back(v)
    \/ range_drop

RangeSpec == RangeInit /\ [][RangeNext]_rangeVars

-----------------------------------------------------------------------------
Within(k, lo, hi) ==
    /\ lo.kind = "Included" => k >= lo.key
    /\ lo.kind = "Excluded" => k > lo.key
    /\ hi.kind = "Included" => k <= hi.key
    /\ hi.kind = "Excluded" => k < hi.key

\* Bounds that RangeBounds describes: the start does not lie behind the end.
BoundsOrdered(lo, hi) ==
    \/ "Unbounded" \in {lo.kind, hi.kind}
    \/ lo.key < hi.key
    \/ lo.key = hi.key /\ "Included" \in {lo.kind, hi.kind}

KeysWithin(ks, lo, hi) ==
    FlattenSeq([i \in DOMAIN ks |-> IF Within(ks[i], lo, hi) THEN <<ks[i]>> ELSE <<>>])

\* node_bounds finds the first and the last entry within the bounds, or
\* nothing when there is none, for all bounds and wherever find() ends: on a
\* separator that is no longer a key, behind the last entry of a leaf, before
\* the first one of the map (map.rs 746-796).
BoundsExact ==
    op = Idle /\ range = NoRange =>
        \A m \in Maps :
            LET all == ChainKeys(m)
            IN  \A lo, hi \in Bounds : BoundsOrdered(lo, hi) =>
                    LET ks    == KeysWithin(all, lo, hi)
                        found == node_bounds(m, lo, hi)
                    IN  IF ks = <<>> THEN found = NoBounds
                        ELSE /\ \A c \in {found.start, found.end} :
                                    IsAttached(c) /\ IsValid(c)
                             /\ CursorKey(found.start) = ks[1]
                             /\ CursorKey(found.end) = Last(ks)

\* A cursor that next, next_back or peek would read is at an entry of a leaf
\* of the map, whatever the bounds were (cursor.rs 26).
RangeCursorsAlive ==
    range # NoRange =>
        \A c \in {range.cursor, range.back_cursor} : IsAttached(c) =>
            c.node \in TreeOf(range.map) /\ level[c.node] = 0 /\ IsValid(c)

\* The entries within the range that `range` was made for, and those that
\* only one of its bounds asks for, from the front
RangeKeys == KeysWithin(ChainKeys(range.map), range.lo, range.hi)
KeysFromStart == KeysWithin(ChainKeys(range.map), range.lo, Unbounded)
KeysUpToEnd == KeysWithin(ChainKeys(range.map), Unbounded, range.hi)

RangeOrdered == range # NoRange /\ BoundsOrdered(range.lo, range.hi)
RangeDone == range # NoRange /\ ~IsAttached(range.cursor) /\ ~IsAttached(range.back_cursor)

\* Either end hands out the entries from its bound on, in order and each once,
\* across leaves, whatever the other end does; and does not pass the far bound
\* but where exactly one entry is within the range (map.rs 1626-1676).
RangeInOrder ==
    RangeOrdered =>
        /\ IsPrefix(range.front, KeysFromStart)
        /\ IsPrefix(range.back, Reverse(KeysUpToEnd))
        /\ Len(RangeKeys) # 1 => /\ Len(range.front) <= Len(RangeKeys)
                                 /\ Len(range.back) <= Len(RangeKeys)

\* A range does not end too early by more than the entry at the end that is
\* reached: when both ends return None, at most one entry within the range
\* was not handed out (map.rs 1627-1655).
OmitsAtMostOne ==
    RangeOrdered /\ RangeDone =>
        \A j, k \in ToSet(RangeKeys) \ (ToSet(range.front) \cup ToSet(range.back)) : j = k

-----------------------------------------------------------------------------
(***************************************************************************)
(* What the code says of a range and does not keep to: "Iterates over the  *)
(* map's key-value pairs in order, within the given range." (map.rs 604)   *)
(***************************************************************************)
\* When next and next_back have come to return None, the entries within the
\* range were handed out, each once and in order.
IteratesWithinRange ==
    RangeOrdered /\ RangeDone => range.front \o Reverse(range.back) = RangeKeys
=============================================================================
