--------------------------- MODULE BTreeIntoIter ---------------------------
(***************************************************************************)
(* IntoIter of src/map.rs: the iterator that owns the entries.  It moves   *)
(* the map away and gives each node back to the store as soon as a cursor  *)
(* has passed it, so its two ends free nodes while both still hold raw     *)
(* pointers into the tree, and other maps may get the slots at once.       *)
(***************************************************************************)
EXTENDS BTreeIter

(***************************************************************************)
(* `entries` and `nodes` are history: the entries of the map, and which of *)
(* its nodes were not given back yet.                                      *)
(***************************************************************************)
IntoIterNew(m) ==
    [kind |-> "IntoIter", map |-> m,
     cursor |-> AtStart(FirstLeaf(m)), back_cursor |-> AtEnd(LastLeaf(m)),
     length |-> length[m], front |-> <<>>, back |-> <<>>,
     entries |-> ChainKeys(m), nodes |-> TreeOf(m)]

\* Mutant: `forget(tree)` left out, the map's Drop runs.
into_iter_drops(m) ==
    /\ iter = NoIter /\ op = Idle
    /\ iter' = IntoIterNew(m)
    /\ drop_and_new_in(m)

\* IntoIter::new.  `forget(tree)` drops no node; a map of the same name is
\* an empty one and is not used before the iterator is dropped.
into_iter(m) ==
    /\ iter = NoIter /\ op = Idle
    /\ iter' = IntoIterNew(m)
    /\ root' = [root EXCEPT ![m] = NULL]
    /\ height' = [height EXCEPT ![m] = 0]
    /\ length' = [length EXCEPT ![m] = 0]
    /\ UNCHANGED <<live, nodeVars, op>>

\* `leaf` and the nodes above it, as long as each is a child that `goesOn`.
UpFrom(leaf, goesOn(_)) ==
    LET up == [S \in SUBSET Slots |->
                  S \cup {parent[s] : s \in {t \in S : parent[t] # NULL /\ goesOn(t)}}]
    IN  Repeat(up, {leaf})[Cardinality(Slots)]

IsFirstEdge(s) == parent_idx[s] = 0
IsLastEdge(s) == parent_idx[s] = Len(keys[parent[s]])

\* Mutants: a node taken for its parent's last edge one too early; the loop
\* left after the leaf.
GoneOneEarly(c) ==
    IF c.index # Len(keys[c.node]) - 1 THEN {}
    ELSE UpFrom(c.node, LAMBDA s : parent_idx[s] >= Len(keys[parent[s]]) - 1)

LeafOnly(c) == IF c.index # 0 THEN {} ELSE {c.node}

\* The nodes dealloc_up_firsts and dealloc_up_lasts give back once the entry
\* at `c` was handed out.
dealloc_up_firsts(c) == IF c.index # 0 THEN {} ELSE UpFrom(c.node, IsFirstEdge)

dealloc_up_lasts(c) ==
    IF c.index # Len(keys[c.node]) - 1 THEN {} ELSE UpFrom(c.node, IsLastEdge)

into_next ==
    /\ HasNextEntry("IntoIter")
    /\ LET gone == dealloc_up_lasts(iter.cursor)
       IN  /\ iter' = [Advance(iter) EXCEPT !.nodes = @ \ gone]
           /\ GiveBack(gone)
    /\ UNCHANGED <<mapVars, op>>

(***************************************************************************)
(* advance_back at the start of a leaf reads `len` of the leaf before it.  *)
(* When the front has given that leaf back, the read may return anything   *)
(* (bound: 0 .. M of the values of an u16).  A build that checks overflow  *)
(* may panic on it, which for the iterator is iter_drop.                   *)
(***************************************************************************)
LandsBefore(c) ==
    IF c.index > 0 \/ prev[c.node] \in iter.nodes \cup {NULL} THEN {AdvancedBack(c)}
    ELSE {Address(prev[c.node], index) : index \in 0 .. M}

into_next_back ==
    /\ HasNextEntry("IntoIter")
    /\ LET c == iter.back_cursor
           gone == dealloc_up_firsts(c)
       IN  /\ \E before \in LandsBefore(c) :
                 iter' = [iter EXCEPT !.back_cursor = before, !.length = @ - 1,
                                      !.back = Append(@, CursorKey(c)),
                                      !.nodes = @ \ gone]
           /\ GiveBack(gone)
    /\ UNCHANGED <<mapVars, op>>

\* IntoIter has no Drop: iter_drop leaves what is in `nodes` allocated.
IntoIterNext ==
    \/ IterNext
    \/ \E m \in Maps : into_iter(m)
    \/ into_next
    \/ into_next_back

IntoIterSpec == IterInit /\ [][IntoIterNext]_iterVars

-----------------------------------------------------------------------------
Owning == iter.kind = "IntoIter"

\* IntoIter hands out every entry of the map it was made from once and in
\* order, from both ends until they meet, although both free nodes on their
\* way (map.rs 1424-1463, tests/iter.rs 47-160).
OwnsEachEntryOnce == Owning => HandedOutInOrder(iter, iter.entries)

\* Until the last entry was handed out, every leaf from one cursor to the
\* other is there with all nodes above it, which dealloc_up_firsts and
\* dealloc_up_lasts climb through: no end frees what the other still needs,
\* or a node a second time (map.rs 1091-1153).
NeededNodesKept ==
    Owning /\ iter.length > 0 =>
        LET onwards == [S \in SUBSET Slots |->
                S \cup {next[s] : s \in {t \in S : t # iter.back_cursor.node /\ next[t] # NULL}}]
            leaves == Repeat(onwards, {iter.cursor.node} \cap Slots)[Cardinality(Slots)]
        IN  /\ iter.back_cursor.node \in leaves
            /\ \A leaf \in leaves : UpFrom(leaf, LAMBDA s : TRUE) \subseteq iter.nodes
            /\ IsValid(iter.cursor) /\ IsValid(iter.back_cursor)

\* The nodes of each map, and those that an IntoIter has not given back yet,
\* are allocated, and no two of them share one: no slot is freed under its
\* owner or handed to another map too early.
NodesStayOwned ==
    /\ op = Idle => \A m, n \in Maps :
          TreeOf(m) \subseteq live /\ (m # n => TreeOf(m) \cap TreeOf(n) = {})
    /\ Owning => /\ iter.nodes \subseteq live
                 /\ \A m \in Maps : TreeOf(m) \cap iter.nodes = {}

\* An IntoIter consumed from one end has given every node back; consumed from
\* both it keeps at most the leaf where they met and the nodes above it.
GivesNodesBack ==
    Owning /\ iter.length = 0 =>
        /\ <<>> \in {iter.front, iter.back} => iter.nodes = {}
        /\ \A s, t \in iter.nodes : level[s] = level[t] => s = t

\* "Node and connected pointers must be alive for 'a" (cursor.rs 25): the
\* leaf that the next call of next_back looks into is not given back.
LeafBeforeAlive ==
    Owning /\ iter.length > 0 /\ iter.back_cursor.index = 0 =>
        prev[iter.back_cursor.node] \in iter.nodes \cup {NULL}
=============================================================================
