------------------------------ MODULE BTreeMap ------------------------------
(***************************************************************************)
(* The mutable B+ tree maps of src/map.rs that share one store             *)
(* (src/store.rs), with the node operations of src/node.rs they call.      *)
(*                                                                         *)
(* A call that leaves every node within its bounds is one step.  When a    *)
(* leaf overflows or underflows, each iteration of the rebalancing loop in *)
(* insert_before or post_removal is a step of its own: the states between  *)
(* two iterations are the ones in which a node has no parent yet, or too   *)
(* few entries, and the next iteration relies on exactly that.  Nothing    *)
(* else can run there: `op` holds the loop's local variables, and every    *)
(* call waits for it to be Idle (`&mut self`, one thread).                 *)
(***************************************************************************)
EXTENDS BTreeNode

CONSTANTS
    Maps,            \* the BTreeMap values that share the store
    Slots,           \* bound: node slots of the arena (it grows in the code)
    Keys,            \* the ordered keys, integers
    Values,          \* the values
    NULL,            \* Option::None of a node pointer
    ReuseAfterClear  \* may the client insert after clear() of a tall tree?

ASSUME SlotsAssumption == IsFiniteSet(Slots) /\ NULL \notin Slots
ASSUME MapsAssumption == Maps # {}
ASSUME KeysAssumption == Keys \subseteq Int
ASSUME ReuseAssumption == ReuseAfterClear \in BOOLEAN

VARIABLES
    live,            \* the slots the arena has handed out
    level,           \* a node's implicit height: which union variant `d` holds
    parent,          \* Node::parent
    parent_idx,      \* Node::parent_idx
    keys,            \* Node::keys[..len]
    vals,            \* LeafData::vals[..len]
    edges,           \* InternalData::edges[..len + 1], <<>> in a leaf
    prev, next,      \* LeafData::prev, next
    root,            \* BTreeMap::root
    height,          \* BTreeMap::height
    length,          \* BTreeMap::length
    op               \* locals of the rebalancing loop under way

nodeVars == <<level, parent, parent_idx, keys, vals, edges, prev, next>>
mapVars == <<root, height, length>>
vars == <<live, level, parent, parent_idx, keys, vals, edges, prev, next,
          root, height, length, op>>

\* MaybeUninit::uninit() in parent_idx
Uninit == -1

\* No call is under way.
Idle == [pc |-> "idle"]

\* insert_before's loop: `right`, split off `node`, and the key between them
\* still have to go into the parent of `node`.
OverflowOps == [pc : {"overflow"}, map : Maps, node : Slots, right : Slots, key : Keys]

\* post_removal's loop: `node` has fewer than M / 2 entries.
UnderflowOps == [pc : {"underflow"}, map : Maps, node : Slots, is_leaf : BOOLEAN]

(***************************************************************************)
(* An empty slot and an empty map.  A slot that was discarded is wiped: in *)
(* the arena it joins the list of free slots and is never read as a node.  *)
(***************************************************************************)
Init ==
    /\ live = {}
    /\ level = [s \in Slots |-> 0]
    /\ parent = [s \in Slots |-> NULL]
    /\ parent_idx = [s \in Slots |-> Uninit]
    /\ keys = [s \in Slots |-> <<>>]
    /\ vals = [s \in Slots |-> <<>>]
    /\ edges = [s \in Slots |-> <<>>]
    /\ prev = [s \in Slots |-> NULL]
    /\ next = [s \in Slots |-> NULL]
    /\ root = [m \in Maps |-> NULL]
    /\ height = [m \in Maps |-> 0]
    /\ length = [m \in Maps |-> 0]
    /\ op = Idle

\* store.alloc: which free slot the arena picks is immaterial.
Fresh == CHOOSE s \in Slots : s \notin live

\* Bound: the arena has a free slot.
CanAlloc == live # Slots

\* The nodes in S discarded: what f holds for them is gone.
Wiped(f, S, blank) == [s \in Slots |-> IF s \in S THEN blank ELSE f[s]]

-----------------------------------------------------------------------------
(***************************************************************************)
(* The walks down a tree, `height` steps from the root.                    *)
(***************************************************************************)

Descend(m, child) == Repeat(child, root[m])[height[m]]

\* find: the leaf whose keys `k` is compared with
FindLeaf(m, k) ==
    Descend(m, [s \in Slots |-> edges[s][EdgeIndex(keys[s], k) + 1]])

first_leaf(m) == Descend(m, [s \in Slots |-> edges[s][1]])
last_leaf(m) == Descend(m, [s \in Slots |-> edges[s][Len(keys[s]) + 1]])

\* Find::At, the key being in the leaf; otherwise Find::Before
IsAt(leaf, k) == k \in ToSet(keys[leaf])

\* The nodes drop_node_ptr visits: `h` levels below r and r itself.
Children(S) == UNION {ToSet(edges[s]) : s \in S}
Subtree(r, h) ==
    LET down == Repeat([S \in SUBSET Slots |-> Children(S)], {r})
    IN  UNION {down[n] : n \in 0 .. h}

\* The nodes of a map
TreeOf(m) == IF root[m] = NULL THEN {} ELSE Subtree(root[m], height[m])

-----------------------------------------------------------------------------
(***************************************************************************)
(* Insertion.                                                              *)
(***************************************************************************)

insert_root(m, k, v) ==
    LET new == Fresh
    IN  /\ root[m] = NULL
        /\ height[m] = 0 \/ ReuseAfterClear
        /\ CanAlloc
        /\ live' = live \cup {new}
        /\ keys' = [keys EXCEPT ![new] = <<k>>]
        /\ vals' = [vals EXCEPT ![new] = <<v>>]
        /\ root' = [root EXCEPT ![m] = new]
        /\ length' = [length EXCEPT ![m] = @ + 1]
        /\ UNCHANGED <<level, parent, parent_idx, edges, prev, next, height, op>>

\* Mutant: `length` kept once for all maps of the store.
InsertCountedForAll(m, node, k, v) ==
    LET idx == InsertionIndex(keys[node], k)
    IN  /\ HasRoom(Len(keys[node]))
        /\ keys' = [keys EXCEPT ![node] = InsertAt(@, idx + 1, k)]
        /\ vals' = [vals EXCEPT ![node] = InsertAt(@, idx + 1, v)]
        /\ length' = [n \in Maps |-> length[n] + 1]
        /\ UNCHANGED <<live, level, parent, parent_idx, edges, prev, next, root, height, op>>

\* insert_before, the leaf having room: insert_val
InsertIntoLeaf(m, node, k, v) ==
    LET idx == InsertionIndex(keys[node], k)
    IN  /\ HasRoom(Len(keys[node]))
        /\ keys' = [keys EXCEPT ![node] = InsertAt(@, idx + 1, k)]
        /\ vals' = [vals EXCEPT ![node] = InsertAt(@, idx + 1, v)]
        /\ length' = [length EXCEPT ![m] = @ + 1]
        /\ UNCHANGED <<live, level, parent, parent_idx, edges, prev, next, root, height, op>>

\* Bound: a leaf is split only when the arena has room for all that follows,
\* a split of every full node above it and a new root if the root is split.
RoomToSplit(m, leaf) ==
    LET climb == [s \in Slots |-> IF parent[s] = NULL \/ HasRoom(Len(keys[parent[s]]))
                                  THEN s ELSE parent[s]]
        top == Repeat(climb, leaf)[height[m]]
    IN  Cardinality(Slots \ live) > level[top] + (IF parent[top] = NULL THEN 1 ELSE 0)

\* insert_before, the leaf being full: split_leaf and the leaves' links.
\* `length` grows when the loop is done.
SplitLeaf(m, node, k, v) ==
    LET idx == InsertionIndex(keys[node], k)
        ks == InsertAt(keys[node], idx + 1, k)
        vs == InsertAt(vals[node], idx + 1, v)
        right == Fresh
    IN  /\ ~HasRoom(Len(keys[node]))
        /\ RoomToSplit(m, node)
        /\ live' = live \cup {right}
        /\ keys' = [keys EXCEPT ![node] = LeafLeft(ks), ![right] = LeafRight(ks)]
        /\ vals' = [vals EXCEPT ![node] = LeafLeft(vs), ![right] = LeafRight(vs)]
        /\ next' = [next EXCEPT ![node] = right, ![right] = next[node]]
        /\ prev' = SetLink([prev EXCEPT ![right] = node], next[node], right)
        /\ op' = [pc |-> "overflow", map |-> m, node |-> node, right |-> right,
                  key |-> LeafSplitKey(ks)]
        /\ UNCHANGED <<level, parent, parent_idx, edges, root, height, length>>

insert_before(m, leaf, k, v) ==
    /\ ~IsAt(leaf, k)
    /\ InsertIntoLeaf(m, leaf, k, v) \/ SplitLeaf(m, leaf, k, v)

\* Find::At: replace_val of insert, write_val of update_and_return
WriteVal(leaf, k, v) ==
    /\ IsAt(leaf, k)
    /\ vals' = [vals EXCEPT ![leaf][InsertionIndex(keys[leaf], k) + 1] = v]
    /\ UNCHANGED <<live, level, parent, parent_idx, keys, edges, prev, next,
                   root, height, length, op>>

(***************************************************************************)
(* The loop of insert_before.  `op.node` is the left half and still in its *)
(* parent; `op.right` is in no parent.                                     *)
(***************************************************************************)

\* Mutant: `self.height += 1` dropped.
GrowRootSameHeight ==
    LET left == op.node
        right == op.right
        new == Fresh
    IN  /\ op.pc = "overflow"
        /\ parent[left] = NULL
        /\ CanAlloc
        /\ live' = live \cup {new}
        /\ level' = [level EXCEPT ![new] = height[op.map] + 1]
        /\ keys' = [keys EXCEPT ![new] = <<op.key>>]
        /\ edges' = [edges EXCEPT ![new] = <<left, right>>]
        /\ parent' = [parent EXCEPT ![left] = new, ![right] = new]
        /\ parent_idx' = [parent_idx EXCEPT ![left] = 0, ![right] = 1]
        /\ root' = [root EXCEPT ![op.map] = new]
        /\ length' = [length EXCEPT ![op.map] = @ + 1]
        /\ op' = Idle
        /\ UNCHANGED <<vals, prev, next, height>>

\* At the root: a new root above the two halves.
GrowRoot ==
    LET left == op.node
        right == op.right
        new == Fresh
    IN  /\ op.pc = "overflow"
        /\ parent[left] = NULL
        /\ CanAlloc
        /\ live' = live \cup {new}
        /\ level' = [level EXCEPT ![new] = height[op.map] + 1]
        /\ keys' = [keys EXCEPT ![new] = <<op.key>>]
        /\ edges' = [edges EXCEPT ![new] = <<left, right>>]
        /\ parent' = [parent EXCEPT ![left] = new, ![right] = new]
        /\ parent_idx' = [parent_idx EXCEPT ![left] = 0, ![right] = 1]
        /\ root' = [root EXCEPT ![op.map] = new]
        /\ height' = [height EXCEPT ![op.map] = @ + 1]
        /\ length' = [length EXCEPT ![op.map] = @ + 1]
        /\ op' = Idle
        /\ UNCHANGED <<vals, prev, next>>

\* The parent has room: insert_edge(idx, true, key, right).
AbsorbIntoParent ==
    LET right == op.right
        p == parent[op.node]
        idx == parent_idx[op.node]
    IN  /\ op.pc = "overflow"
        /\ p # NULL
        /\ HasRoom(Len(keys[p]))
        /\ keys' = [keys EXCEPT ![p] = InsertAt(@, idx + 1, op.key)]
        /\ edges' = [edges EXCEPT ![p] = InsertAt(@, idx + 2, right)]
        /\ parent' = [parent EXCEPT ![right] = p]
        /\ parent_idx' = [Shifted(parent_idx, EdgesFrom(edges[p], idx + 1), 1)
                             EXCEPT ![right] = idx + 1]
        /\ length' = [length EXCEPT ![op.map] = @ + 1]
        /\ op' = Idle
        /\ UNCHANGED <<live, level, vals, prev, next, root, height>>

\* The parent is full: split_internal, and once more with its two halves.
SplitParent ==
    LET right == op.right
        p == parent[op.node]
        idx == parent_idx[op.node]
        ks == InsertAt(keys[p], idx + 1, op.key)
        es == InsertAt(edges[p], idx + 2, right)
        new == Fresh
        moved == EdgesRight(es)
        shifted == [Shifted(parent_idx, EdgesFrom(edges[p], idx + 1), 1)
                        EXCEPT ![right] = idx + 1]
    IN  /\ op.pc = "overflow"
        /\ p # NULL
        /\ ~HasRoom(Len(keys[p]))
        /\ CanAlloc
        /\ live' = live \cup {new}
        /\ level' = [level EXCEPT ![new] = level[p]]
        /\ keys' = [keys EXCEPT ![p] = InternalLeft(ks), ![new] = InternalRight(ks)]
        /\ edges' = [edges EXCEPT ![p] = EdgesLeft(es), ![new] = moved]
        /\ parent' = [c \in Slots |-> IF c \in ToSet(moved) THEN new
                                      ELSE IF c = right THEN p ELSE parent[c]]
        /\ parent_idx' = Shifted(shifted, ToSet(moved), -(Len(EdgesLeft(es))))
        /\ op' = [op EXCEPT !.node = p, !.right = new, !.key = InternalSplitKey(ks)]
        /\ UNCHANGED <<vals, prev, next, root, height, length>>

-----------------------------------------------------------------------------
(***************************************************************************)
(* Removal.                                                                *)
(***************************************************************************)

\* Mutant: the loop entered with M / 2 entries left.
RebalanceAtHalf(m, node, len, is_leaf) ==
    IF len <= M \div 2
    THEN [pc |-> "underflow", map |-> m, node |-> node, is_leaf |-> is_leaf]
    ELSE Idle

\* The condition of post_removal's loop, `len` being the length of `node`.
Rebalance(m, node, len, is_leaf) ==
    IF Underfull(len)
    THEN [pc |-> "underflow", map |-> m, node |-> node, is_leaf |-> is_leaf]
    ELSE Idle

\* remove_val(idx) and the start of post_removal
RemoveVal(m, leaf, idx) ==
    /\ keys' = [keys EXCEPT ![leaf] = RemoveAt(@, idx + 1)]
    /\ vals' = [vals EXCEPT ![leaf] = RemoveAt(@, idx + 1)]
    /\ length' = [length EXCEPT ![m] = @ - 1]
    /\ op' = Rebalance(m, leaf, Len(keys[leaf]) - 1, TRUE)
    /\ UNCHANGED <<live, level, parent, parent_idx, edges, prev, next, root, height>>

(***************************************************************************)
(* The loop of post_removal.  Its cases, in the order the code tries them. *)
(***************************************************************************)

Underflowing(is_leaf) == op.pc = "underflow" /\ op.is_leaf = is_leaf

\* The siblings of the node the loop is at
PrevSibling == edges[parent[op.node]][parent_idx[op.node]]
NextSibling == edges[parent[op.node]][parent_idx[op.node] + 2]

AtRoot == parent[op.node] = NULL
HasPrev == parent_idx[op.node] > 0
HasNext == parent_idx[op.node] < Len(keys[parent[op.node]])
PrevLends == HasPrev /\ CanLend(Len(keys[PrevSibling]))
NextLends == HasNext /\ CanLend(Len(keys[NextSibling]))

\* Mutants: the height lowered with a leaf; the `break` dropped.
RootLeafLowers ==
    /\ Underflowing(TRUE)
    /\ AtRoot
    /\ root' = IF keys[op.node] = <<>> THEN [root EXCEPT ![op.map] = NULL] ELSE root
    /\ height' = IF keys[op.node] = <<>> THEN [height EXCEPT ![op.map] = @ - 1] ELSE height
    /\ op' = Idle
    /\ UNCHANGED <<live, nodeVars, length>>

RootLeafNoBreak ==
    /\ Underflowing(TRUE)
    /\ AtRoot
    /\ root' = IF keys[op.node] = <<>> THEN [root EXCEPT ![op.map] = NULL] ELSE root
    /\ UNCHANGED op
    /\ UNCHANGED <<live, nodeVars, height, length>>

\* A leaf at the root: when it is empty so is the map.  The leaf is not
\* given back to the arena.
RootLeafUnderflow ==
    /\ Underflowing(TRUE)
    /\ AtRoot
    /\ root' = IF keys[op.node] = <<>> THEN [root EXCEPT ![op.map] = NULL] ELSE root
    /\ op' = Idle
    /\ UNCHANGED <<live, nodeVars, height, length>>

\* An internal root with keys left stays.
RootInternalStays ==
    /\ Underflowing(FALSE)
    /\ AtRoot
    /\ keys[op.node] # <<>>
    /\ op' = Idle
    /\ UNCHANGED <<live, nodeVars, mapVars>>

\* An internal root with one edge left: the edge becomes the root.
ShrinkRoot ==
    LET node == op.node
        child == edges[node][1]
    IN  /\ Underflowing(FALSE)
        /\ AtRoot
        /\ keys[node] = <<>>
        /\ height' = [height EXCEPT ![op.map] = @ - 1]
        /\ root' = [root EXCEPT ![op.map] = child]
        /\ live' = live \ {node}
        /\ level' = [level EXCEPT ![node] = 0]
        /\ edges' = [edges EXCEPT ![node] = <<>>]
        /\ parent' = [parent EXCEPT ![child] = NULL]
        /\ parent_idx' = [parent_idx EXCEPT ![child] = Uninit]
        /\ op' = Idle
        /\ UNCHANGED <<keys, vals, prev, next, length>>

BorrowPrevLeaf ==
    LET node == op.node
        p == parent[node]
        idx == parent_idx[node]
        from == PrevSibling
    IN  /\ Underflowing(TRUE)
        /\ ~AtRoot /\ PrevLends
        /\ keys' = [keys EXCEPT ![from] = Front(@),
                                ![node] = InsertAt(@, 1, Last(keys[from])),
                                ![p][idx] = Last(keys[from])]
        /\ vals' = [vals EXCEPT ![from] = Front(@),
                                ![node] = InsertAt(@, 1, Last(vals[from]))]
        /\ op' = Idle
        /\ UNCHANGED <<live, level, parent, parent_idx, edges, prev, next, mapVars>>

\* remove_last_edge, replace_key(idx - 1), insert_edge(0, false)
BorrowPrevInternal ==
    LET node == op.node
        p == parent[node]
        idx == parent_idx[node]
        from == PrevSibling
        edge == Last(edges[from])
    IN  /\ Underflowing(FALSE)
        /\ ~AtRoot /\ PrevLends
        /\ keys' = [keys EXCEPT ![from] = Front(@),
                                ![node] = InsertAt(@, 1, keys[p][idx]),
                                ![p][idx] = Last(keys[from])]
        /\ edges' = [edges EXCEPT ![from] = Front(@), ![node] = InsertAt(@, 1, edge)]
        /\ parent' = [parent EXCEPT ![edge] = node]
        /\ parent_idx' = [Shifted(parent_idx, EdgesFrom(edges[node], 0), 1)
                             EXCEPT ![edge] = 0]
        /\ op' = Idle
        /\ UNCHANGED <<live, level, vals, prev, next, mapVars>>

BorrowNextLeaf ==
    LET node == op.node
        p == parent[node]
        idx == parent_idx[node]
        from == NextSibling
    IN  /\ Underflowing(TRUE)
        /\ ~AtRoot /\ ~PrevLends /\ NextLends
        /\ keys' = [keys EXCEPT ![p][idx + 1] = keys[from][2],
                                ![from] = Tail(@),
                                ![node] = Append(@, keys[from][1])]
        /\ vals' = [vals EXCEPT ![from] = Tail(@),
                                ![node] = Append(@, vals[from][1])]
        /\ op' = Idle
        /\ UNCHANGED <<live, level, parent, parent_idx, edges, prev, next, mapVars>>

\* remove_edge(0, false), replace_key(idx), insert_edge(len, true)
BorrowNextInternal ==
    LET node == op.node
        p == parent[node]
        idx == parent_idx[node]
        from == NextSibling
        edge == Head(edges[from])
    IN  /\ Underflowing(FALSE)
        /\ ~AtRoot /\ ~PrevLends /\ NextLends
        /\ keys' = [keys EXCEPT ![p][idx + 1] = Head(keys[from]),
                                ![from] = Tail(@),
                                ![node] = Append(@, keys[p][idx + 1])]
        /\ edges' = [edges EXCEPT ![from] = Tail(@), ![node] = Append(@, edge)]
        /\ parent' = [parent EXCEPT ![edge] = node]
        /\ parent_idx' = [Shifted(parent_idx, EdgesFrom(edges[from], 1), -1)
                             EXCEPT ![edge] = Len(keys[node]) + 1]
        /\ op' = Idle
        /\ UNCHANGED <<live, level, vals, prev, next, mapVars>>

\* Mutant: the loop ends with the first merge.
StopsAfterMerge(p) == op' = Idle

\* After a merge the loop goes on with the parent, which lost a key.
MergedIntoParent(p) == op' = Rebalance(op.map, p, Len(keys[p]) - 1, FALSE)

\* merge_prev_leaf, the link of the leaf before, remove_edge(idx - 1, false)
MergePrevLeaf ==
    LET node == op.node
        p == parent[node]
        idx == parent_idx[node]
        gone == PrevSibling
    IN  /\ Underflowing(TRUE)
        /\ ~AtRoot /\ ~PrevLends /\ ~NextLends /\ HasPrev
        /\ keys' = [keys EXCEPT ![node] = keys[gone] \o @, ![gone] = <<>>,
                                ![p] = RemoveAt(@, idx)]
        /\ vals' = [vals EXCEPT ![node] = vals[gone] \o @, ![gone] = <<>>]
        /\ edges' = [edges EXCEPT ![p] = RemoveAt(@, idx)]
        /\ parent' = [parent EXCEPT ![gone] = NULL]
        /\ parent_idx' = [Shifted(parent_idx, EdgesFrom(edges[p], idx), -1)
                             EXCEPT ![gone] = Uninit]
        /\ prev' = [prev EXCEPT ![node] = prev[gone], ![gone] = NULL]
        /\ next' = SetLink([next EXCEPT ![gone] = NULL], prev[gone], node)
        /\ live' = live \ {gone}
        /\ MergedIntoParent(p)
        /\ UNCHANGED <<level, mapVars>>

\* The children move over, merge_prev_internal, remove_edge(idx - 1, false)
MergePrevInternal ==
    LET node == op.node
        p == parent[node]
        idx == parent_idx[node]
        gone == PrevSibling
        own == ToSet(edges[node])
        taken == ToSet(edges[gone])
        shifted == Shifted(Shifted(parent_idx, own, Len(keys[gone]) + 1),
                           EdgesFrom(edges[p], idx), -1)
    IN  /\ Underflowing(FALSE)
        /\ ~AtRoot /\ ~PrevLends /\ ~NextLends /\ HasPrev
        /\ keys' = [keys EXCEPT ![node] = Append(keys[gone], keys[p][idx]) \o @,
                                ![gone] = <<>>, ![p] = RemoveAt(@, idx)]
        /\ edges' = [edges EXCEPT ![node] = edges[gone] \o @, ![gone] = <<>>,
                                  ![p] = RemoveAt(@, idx)]
        /\ parent' = [c \in Slots |-> IF c \in taken THEN node
                                      ELSE IF c = gone THEN NULL ELSE parent[c]]
        /\ parent_idx' = [shifted EXCEPT ![gone] = Uninit]
        /\ level' = [level EXCEPT ![gone] = 0]
        /\ live' = live \ {gone}
        /\ MergedIntoParent(p)
        /\ UNCHANGED <<vals, prev, next, mapVars>>

\* merge_next_leaf, the link of the leaf after, remove_edge(idx, true)
MergeNextLeaf ==
    LET node == op.node
        p == parent[node]
        gone == NextSibling
    IN  /\ Underflowing(TRUE)
        /\ ~AtRoot /\ ~PrevLends /\ ~NextLends /\ ~HasPrev
        /\ keys' = [keys EXCEPT ![node] = @ \o keys[gone], ![gone] = <<>>,
                                ![p] = RemoveAt(@, 1)]
        /\ vals' = [vals EXCEPT ![node] = @ \o vals[gone], ![gone] = <<>>]
        /\ edges' = [edges EXCEPT ![p] = RemoveAt(@, 2)]
        /\ parent' = [parent EXCEPT ![gone] = NULL]
        /\ parent_idx' = [Shifted(parent_idx, EdgesFrom(edges[p], 2), -1)
                             EXCEPT ![gone] = Uninit]
        /\ next' = [next EXCEPT ![node] = next[gone], ![gone] = NULL]
        /\ prev' = SetLink([prev EXCEPT ![gone] = NULL], next[gone], node)
        /\ live' = live \ {gone}
        /\ MergedIntoParent(p)
        /\ UNCHANGED <<level, mapVars>>

\* The children move over, merge_next_internal, remove_edge(idx, true)
MergeNextInternal ==
    LET node == op.node
        p == parent[node]
        gone == NextSibling
        taken == ToSet(edges[gone])
        shifted == Shifted(Shifted(parent_idx, taken, Len(keys[node]) + 1),
                           EdgesFrom(edges[p], 2), -1)
    IN  /\ Underflowing(FALSE)
        /\ ~AtRoot /\ ~PrevLends /\ ~NextLends /\ ~HasPrev
        /\ keys' = [keys EXCEPT ![node] = Append(@, keys[p][1]) \o keys[gone],
                                ![gone] = <<>>, ![p] = RemoveAt(@, 1)]
        /\ edges' = [edges EXCEPT ![node] = @ \o edges[gone], ![gone] = <<>>,
                                  ![p] = RemoveAt(@, 2)]
        /\ parent' = [c \in Slots |-> IF c \in taken THEN node
                                      ELSE IF c = gone THEN NULL ELSE parent[c]]
        /\ parent_idx' = [shifted EXCEPT ![gone] = Uninit]
        /\ level' = [level EXCEPT ![gone] = 0]
        /\ live' = live \ {gone}
        /\ MergedIntoParent(p)
        /\ UNCHANGED <<vals, prev, next, mapVars>>

-----------------------------------------------------------------------------
(***************************************************************************)
(* The calls of the map.                                                   *)
(***************************************************************************)

\* find(&key) and the branches of a call on a map with a root
Found(m) == op = Idle /\ root[m] # NULL

insert(m, k, v) ==
    \/ op = Idle /\ insert_root(m, k, v)
    \/ /\ Found(m)
       /\ LET leaf == FindLeaf(m, k)
          IN  insert_before(m, leaf, k, v) \/ WriteVal(leaf, k, v)

\* Mutant: the value of a key that is there is overwritten.
get_or_insert_overwrites(m, k, v) == insert(m, k, v)

\* Find::At only hands out a reference.
get_or_insert(m, k, v) ==
    \/ op = Idle /\ insert_root(m, k, v)
    \/ Found(m) /\ insert_before(m, FindLeaf(m, k), k, v)

remove_key_value(m, k) ==
    /\ Found(m)
    /\ LET leaf == FindLeaf(m, k)
       IN  /\ IsAt(leaf, k)
           /\ RemoveVal(m, leaf, InsertionIndex(keys[leaf], k))

\* `update` answers Some(v), or it answers None or panics: on a key that is
\* there the last two both remove it, on one that is not nothing happens.
update_and_return(m, k, v, outcome) ==
    \/ outcome = "some" /\ insert(m, k, v)
    \/ outcome \in {"none", "panic"} /\ remove_key_value(m, k)

pop_first(m) == Found(m) /\ RemoveVal(m, first_leaf(m), 0)

pop_last(m) ==
    /\ Found(m)
    /\ LET leaf == last_leaf(m) IN RemoveVal(m, leaf, Len(keys[leaf]) - 1)

\* store.dealloc of the nodes in `gone`
GiveBack(gone) ==
    /\ live' = live \ gone
    /\ level' = Wiped(level, gone, 0)
    /\ parent' = Wiped(parent, gone, NULL)
    /\ parent_idx' = Wiped(parent_idx, gone, Uninit)
    /\ keys' = Wiped(keys, gone, <<>>)
    /\ vals' = Wiped(vals, gone, <<>>)
    /\ edges' = Wiped(edges, gone, <<>>)
    /\ prev' = Wiped(prev, gone, NULL)
    /\ next' = Wiped(next, gone, NULL)

\* Mutant: the recursion of drop_node_ptr stops above the leaves.
DropInternalNodes(m) == GiveBack({s \in TreeOf(m) : level[s] > 0})

\* drop_node_ptr: every node of the map goes back to the arena.
DropNodes(m) == GiveBack(TreeOf(m))

\* clear() leaves `height` as it was.
clear(m) ==
    /\ op = Idle
    /\ DropNodes(m)
    /\ root' = [root EXCEPT ![m] = NULL]
    /\ length' = [length EXCEPT ![m] = 0]
    /\ UNCHANGED <<height, op>>

\* The map goes out of scope (Drop) and another one is made with new_in.
drop_and_new_in(m) ==
    /\ op = Idle
    /\ DropNodes(m)
    /\ root' = [root EXCEPT ![m] = NULL]
    /\ height' = [height EXCEPT ![m] = 0]
    /\ length' = [length EXCEPT ![m] = 0]
    /\ UNCHANGED op

CallOn(m) ==
    \/ \E k \in Keys, v \in Values :
          \/ insert(m, k, v)
          \/ get_or_insert(m, k, v)
          \/ \E outcome \in {"some", "none", "panic"} :
                update_and_return(m, k, v, outcome)
    \/ \E k \in Keys : remove_key_value(m, k)
    \/ pop_first(m)
    \/ pop_last(m)
    \/ clear(m)
    \/ drop_and_new_in(m)

Call == \E m \in Maps : CallOn(m)

OverflowStep == GrowRoot \/ AbsorbIntoParent \/ SplitParent

UnderflowStep ==
    \/ RootLeafUnderflow \/ RootInternalStays \/ ShrinkRoot
    \/ BorrowPrevLeaf \/ BorrowPrevInternal
    \/ BorrowNextLeaf \/ BorrowNextInternal
    \/ MergePrevLeaf \/ MergePrevInternal
    \/ MergeNextLeaf \/ MergeNextInternal

Next == Call \/ OverflowStep \/ UnderflowStep

Spec == Init /\ [][Next]_vars

\* A loop under way runs on: nothing else is scheduled before it returns.
FairSpec == Spec /\ WF_vars(OverflowStep \/ UnderflowStep)
=============================================================================
