# btree-forest-arena: a TLA+ model of the B+ tree maps

`btree-plus-store` (under `src/src/`) implements `BTreeMap` and `BTreeSet` as B+ trees whose nodes
live in a store, an arena that several maps share. Nodes refer to each other by raw pointers:
children by `edges`, parents by `parent` and `parent_idx`, leaves to their neighbours by `prev` and
`next`. There is no height, kind or owner in a node: which variant of a union it holds follows from how
far a descent has come ("implicit height"). Nothing but the code of `map.rs` and `node.rs` keeps these
pointers in step, and a mistake is memory corruption some calls later. That is what this project is
about.

The program is single-threaded; a call takes `&mut self`. What is hard is sequence, not concurrency:
rebalancing loops that pass through states with underfull or parentless nodes, cached indices, links
across subtrees, one arena under several maps, client code (closures, `Ord`, `Clone`) that can panic in
the middle, and iterators that give nodes back while they walk.

## 1. Inventory

| Part | State | Operations | Interacts with | What makes it correct |
|---|---|---|---|---|
| **map** (`map.rs` 1-1089) | `root`, `height`, `length`; locals of the two rebalancing loops | `insert`, `get_or_insert`, `remove`, `remove_key_value`, `pop_first`, `pop_last`, `update`, `update_and_return`, `clear`, `Drop`; lookups `get*`, `contains_key`, `first_*`, `last_*`; `validate` | calls node operations, allocates from the store, calls the client's `update` closure, `Ord`, `Clone` | tree shape and occupancy, order of keys, `length`, leaf chain; each call does what its name says; loops end |
| **node** (`node.rs`) | `parent`, `parent_idx`, `len`, `keys`; a leaf's `vals`, `prev`, `next`; an internal node's `edges` | `insert_val`, `insert_edge`, `remove_val`, `remove_edge`, `remove_last_edge`, `replace_key`, `replace_val`, `split_leaf`, `split_internal`, four merges | called by map; renumbers `parent_idx` of children | no array runs over or is read beyond `len`; children renumbered exactly when they move |
| **store** (`store.rs`) | the arena | `alloc`, `dealloc`, `retain_shared` | all maps of a store | a slot is given back once, and only when nothing refers to it |
| **Range** (`map.rs` 745-797, 1560-1720; `node.rs` `normalize_address`, `address_before`, `address_after`) | two cursors | `range`, `range_mut`, `next`, `next_back` | reads tree and leaf chain, `RangeMut` lends the values | yields the keys within the bounds, each once |
| **cursor, Iter, IterMut** (`cursor.rs`, `map.rs` 1091-1390) | one or two cursors, a count | `next`, `next_back`, `advance`, `detach` | read the leaf chain | each entry once from both ends |
| **IntoIter** (`map.rs` 1091-1153, 1396-1474) | two cursors, `length` | `next`, `next_back`; no `Drop` | gives nodes back as it passes them | each entry once, each node back once and not while an end needs it |
| **copyable maps and GC** (`copyable/`) | roots of the maps of a store | the map's operations without drop; `tracing_gc`, `NodeIter` | walks all maps, `retain_shared` | keeps exactly the reachable nodes |
| **set** (`set.rs`) | a map with `()` values | forwards to map | map | as map |
| **utils, tests, benches, reports** | none | | | |

Hard behaviours (each is a hazard in `PROJECT.json`, at its line):

- chains of splits and merges; the boundary cases of half-full nodes, the root, and the median;
- stale `parent_idx`, stale separators after removals, stale `prev`/`next` of a leaf under another parent;
- `clear()` and the emptied root leaf, whose bookkeeping differs from that of every other path;
- several maps that allocate and free in one arena;
- panics of client code inside a call; `Drop` while panicking;
- boundaries of `Range` and `node_bounds`; `IntoIter` from both ends; the climb of `NodeIter`.

## 2. Modules

| Module | What it is |
|---|---|
| `BTreeNode` | arithmetic of one node: occupancy tests, binary-search positions, halves of a split, renumbering; `Repeat`, a walk as a recursive function |
| `BTreeMap` | the state machine: all maps of one store and their nodes, one action per call and per case of a loop iteration |
| `BTreeMapProps` | type invariant, invariants, action and liveness properties |
| `OrderedMap` | the abstract specification: independent dictionaries over ordered keys |
| `BTreeMapRefinement` | refinement mapping `Contents` and the properties that compare the two |
| `BTreeMapInv` | the inductive invariant |
| `MCBTreeMap` | instances for TLC: constants, the view, the action constraint |
| `BTreeCursor` | positions in the chain of leaves: `Cursor` and the address functions of `node.rs`, as operators on records `[node, index]` |
| `BTreeIter` | `Iter` and `IterMut` over one map while the other maps of the store are called; extends `BTreeMap` through `BTreeCursor` |
| `BTreeRange` | `node_bounds`, `Range` and `RangeMut`, over every map the calls can build |
| `BTreeIntoIter` | `IntoIter`, which frees nodes as it passes them; extends `BTreeIter`, whose iterators and calls on other maps it keeps |
| `BTreePanic` | `BTreeMap` with one more kind of step: a `K::clone` that panics inside a call, `Drop` while panicking, and a client that catches the panic and goes on |
| `BTreeGC` | copyable maps, `NodeIter` one iteration or one climb a step, `tracing_gc` |
| `MCBTreeIter`, `MCBTreeRange`, `MCBTreePanic`, `MCBTreeGC` | their instances, with views that rename slots in their variables too |
| `BTreeOrderInv` | the inductive invariant behind the order of the keys, and `OrderedDown`, a form of it that TLC can evaluate |
| `BTreeForest` | lemmas on sequences, walks, halves of M; the nodes as a forest and the rewirings that keep it one |
| `BTreeMapSteps` | every step of `BTreeMap` keeps `IInv`: the loop of insertion, that of removal, its cases with a sibling, the calls |
| `BTreeOrderFacts` | lemmas on one node and its interval of keys, and on sequences joined end to end |
| `BTreeOrderSteps`, `BTreeOrderCalls` | the iterations of the loops, and the calls, keep `Ordered`; what a step leaves to the other maps |
| `BTreeOrderViews` | what `Ordered` shows between two calls: lookups, `validate`, the chain of leaves and its entries |
| `BTreeMapProofs` | the theorems on the maps, that they implement `OrderedMap` among them |
| `BTreeIterProofs` | the theorems on `Iter`, `IterMut`, `Range` and `RangeMut` |

### State and code

| TLA+ | Code |
|---|---|
| `live` | slots the arena has handed out |
| `keys[s]`, `vals[s]`, `edges[s]` | the initialised prefixes `keys[..len]`, `vals[..len]`, `edges[..len + 1]`; `len` is `Len(keys[s])` |
| `parent`, `parent_idx`, `prev`, `next` | the fields; `NULL` is `None`, `Uninit` is `MaybeUninit::uninit()` |
| `level[s]` | the variant of `NodeData` the node was built with: 0 for leaf data. The code has no such field; in the model it is a ghost that says what the slot really holds, so that a descent that mistakes one for the other shows |
| `root`, `height`, `length` | the fields of `BTreeMap`, per map |
| `op` | local variables of the rebalancing loop under way: `Idle`, or the two nodes and key of `insert_before`'s loop, or the node and `is_leaf` of `post_removal`'s |

A freed slot is wiped to its initial values. The arena writes its free list there and no code reads a
freed node, so nothing is lost; a dangling reference would show as a reference to a slot outside `live`.

### Actions and code

A call that leaves every node within bounds is one step. A call that over- or underflows a leaf sets
`op`, and each iteration of the loop is a step: `GrowRoot`, `AbsorbIntoParent`, `SplitParent` are the
three branches of `insert_before` (map.rs 832-870); `RootLeafUnderflow`, `RootInternalStays`,
`ShrinkRoot`, `Borrow{Prev,Next}{Leaf,Internal}`, `Merge{Prev,Next}{Leaf,Internal}` those of
`post_removal` (map.rs 881-991), with guards in the order in which the code tests them. Each includes
the node operations it calls, renumbering of children and relinking of neighbours included. All calls
wait for `op = Idle`: that is `&mut self`.

Making iterations visible is what lets the model state invariants *inside* a call: what each iteration
relies on, and what it leaves for the next.

`update_and_return` takes its closure's result as an input: it answers a value, answers none, or panics
(the panic of the closure is caught and the entry removed, as `None` does). `drop_and_new_in` is `Drop` followed by
`new_in`, so that the set of maps stays fixed.

### Iterators and code

An iterator is one record: the fields of the struct, and history that the properties compare with (the keys handed out
at either end, the values a client wrote). `next` is `peek` and `advance` in one step, as in the code; a `next` that returns
`None` changes nothing and is no step. The borrow checker's rules are the guards: `iter_of` and `range_of` wait for `op = Idle`; while an iterator exists its map is not
called (`CallElsewhere` calls the others, whose nodes come from the same store; in `BTreeRange`, which has no question about other maps, `CallBefore` builds the map first). `Keys`, `Values`,
`ValuesMut`, `RangeKeys`, ... project what these iterators hand out. The text of `RangeMut` is that of `Range` but for the mutable references: `range_mut_of`, `range_mut_next` and `range_mut_next_back` are steps
of their own, in which the client writes any value through the reference it got (`WriteAt`), and share `NextOf` and `NextBackOf` with `Range`.

`IntoIter` takes the map: `into_iter` empties the map's name (`forget(tree)`), and `iter.nodes` is the history of which of its nodes were not given back yet.
`into_next` and `into_next_back` follow the order of the code: read the entry, move the cursor, free the leaf left behind and the parents it was the last (first) edge of.
What `advance_back` reads from a leaf that is already freed is any `len` (`LandsBefore`). Dropping an `IntoIter` runs no code of its own: `iter_drop` leaves the rest allocated.

A `Range` keeps the addresses `node_bounds` found (`bounds`) apart from its cursors; `AdvanceRangeBack` keeps the index of a
detached cursor, because `detach()` does.

### Panics and code

A panic of `K::clone` leaves the call where it stands. `SplitLeafPanics`: the swaps of `split_leaf` have moved the new entry in and the median out, `len` is still the old one, so
the median goes with the locals. `BorrowPrevLeafPanics`: the entry has left the sibling and is not yet in the node, `length` was lowered before. `CloneBeforeChangePanics`: the other two
clones come before their iteration changes anything, but after the removal that underfilled the node. The clone of `get_or_insert` comes before any change. While panicking (`op = Panicking`), `Drop` returns
at once (`DropWhilePanicking`) and no other call is made until `CatchUnwind`. Every call of `BTreeMap` may follow. The build is one without debug assertions: `insert_root` goes on where `RootlessIsEmpty` fails (finding 6). `Lost` and `Short` are the marks a panic leaves: entries that `length`
counts and no leaf holds, and nodes below their minimum. Bound: `Unwind` waits until the marks of an earlier panic are gone, since several could empty a node, and what the code does with an empty leaf is another question.

### Collection and code

`into_copyable` makes a map read-only and exempt from `Drop`, `forget` drops the last copy: the nodes stay. `tracing_gc` takes all maps of the store, as its comment requires; since they are of one type, either all that have nodes are copyable or all are mutable. `nodes(m)` is one run of
`flat_map`'s closure, at whose end a mutable map is dropped: `NodeIter` then asks the freed root for its first edge and is astray. For each map it walks `NodeIter` with its fields `current`, `current_height`, `max_height`; `Sweep` is `retain_shared`. `parent_idx` of a root is uninitialised and read here, so it is any number up to `M`
(beyond `len` all are alike). Where `NodeIter` comes to a leaf and takes it for an internal node, what follows is undefined and the behaviour stops.

### Bounds

- `Slots`: the arena grows, the model has finitely many. `SplitLeaf` is guarded by `RoomToSplit`: enough free
  slots for every split that can follow and a new root, so that the bound never stops a call half-way.
- `M` is 8 in the build. `M = 2` gives the deepest trees per key and the tightest boundaries
  (`M / 2 - 1 = 0` keys in an underfull node); `M = 4` is the least at which an internal node can lend without being emptied
  and an internal root can underflow and stay. `MAssumption` asks for an even `M >= 2`: with an odd one the lengths that the split functions
  copy do not agree.
- `ReuseAfterClear`: with FALSE a map that was cleared while `height > 0` is not inserted into again. Every
  property but one is checked and proved under this condition, because the code breaks them all without it (finding 1). The
  run `clear_keeps_height` lifts it.
- `length` is an integer; it cannot reach the bound of `usize` before memory ends.

## 3. Runs

| Run | Instance | Question |
|---|---|---|
| `one_map` | M = 2, one map, 8 keys, 14 slots | do all node invariants, `Validates`, `LookupComplete`, `StoreAccounted`, and the inductive invariant `IInv`, hold over every sequence of calls? Trees reach three levels (four would take 15 nodes), so each branch of either loop occurs at leaves, at internal nodes below the root and at the root; a node with internal nodes both above and below it is the proofs' alone |
| `wide_nodes` | M = 4, 16 keys, three levels, `PanicSpec`, `FillPanicDrain` | the cases M = 2 cannot have (internal lending with keys left, internal root that stays); and what is left of the invariants after a panic of `K::clone` anywhere in it, and in maps made beside the nodes that a dropped one left |
| `refinement` | M = 2, one map, 5 keys, two values, 7 slots, `FairSpec` | does the tree implement a dictionary (`OrderedMap`), does each call do exactly what its name says, values included, and is every rebalancing loop left again? Trees of at most four leaves and three levels: internal nodes are split and merged and never borrow from each other, for which see `MapsAreDictionaries` and `CallsKeepTheirWord`. That several maps are independent dictionaries is proved (`MapsAreDictionaries`) |
| `clear_keeps_height` | `ReuseAfterClear = TRUE` | finding 1 |
| `emptied_leaf_leaks` | | finding 2 |
| `iter` | M = 2, one map, 6 keys, two values, 12 slots | do `Iter`, `IterMut` and `IntoIter` hand out every entry once, in order, however `next` and `next_back` alternate, do writes go to their own entries, and does `IntoIter` free each node in time and no node too early? Trees of three levels, so both ends cross leaves of different parents |
| `iter_beside` | M = 2, two maps, 3 keys, 8 slots, with and without an iterator of one of them | do two maps of one store interfere? Do the cursors, and the nodes an `IntoIter` still owns, survive any calls on the other map, which may get the freed slots? Trees of two levels; for several maps of all heights there are `StoreIsAccounted` and `MapsAreApart` |
| `range` | M = 2, one map, 5 keys, 10 slots, all pairs of bounds | does `node_bounds` find the first and last entry within the bounds? Are the cursors of a `Range` or `RangeMut` always on entries, and what of its entries does it hand out? |
| `range_omits_its_last` | M = 2, one map, 4 keys | finding 3 |
| `into_iter_reads_freed` | M = 2, one map, 4 keys | finding 4 |
| `gc_frees_reachable` | M = 2, one map, 4 keys | finding 5 |
| `lost_entry_counted` | M = 4, one map, 5 keys | finding 6 |

`VIEW Canonical` identifies states that differ only in the names of slots. `Fresh` picks any
free slot and no operation compares slots for order, so renaming slots maps behaviours to behaviours, and the
properties do not mention a particular slot. That holds of `RebalanceEnds` and the fairness under it too: both speak of `op.pc` and of loop steps as a whole, so a
cycle of the quotient that satisfies them is one of the model. `iter` and `iter_beside` add `FewLeftBehind`: when no iterator exists, at most one allocated node
is outside the map, so that what dropped iterators leave behind is not multiplied.

`FillThenDrain` restricts which calls are explored, not what they do: the map is filled in
rising or falling order, and once full it loses a growing gap of keys, from either end of the gap. Filling in order gives the
leanest trees (all nodes but those at one edge half full), and a gap anywhere makes each node in turn the one
that underflows. `FillPanicDrain` (run `wide_nodes`) is that up to a panic, which may come with any new key; a map whose keys have no such shape afterwards loses its first or its last
one, one by one. Once the store has nodes that no map reaches (those of a map dropped while panicking, or of an emptied one), any calls on a map of the first M + 1 keys follow, panics included: enough to split and to merge leaves beside them.
All sequences of calls at M = 4 and three levels are out of TLC's reach; `one_map` has no such restriction. `CanonicalPanic` counts the nodes that no map reaches in place of describing them (no step reads them but for the bound in `Unwind`), and shows
beside that what the invariants and `Unwind` ask of them.

### Properties

- `TypeOK`, and `NodeShape`: a leaf holds as many values as keys, an internal node one edge more than keys, neither more than M.
- `ParentAgrees`: edges and `parent`/`parent_idx` are inverse to each other; children are one level lower.
- `RootsAgree`: a root is at its map's height; no two maps share one.
- `Occupancy`: all nodes but roots and the one underfull node of the loop have M / 2 keys or more, *during* the loops too.
- `Validates` (between calls): what the code's own `validate` checks. Leaf chain equals the leaves in tree order, both ways; `length` is right; keys rise; separators separate.
- `LookupComplete`: descending by separators finds a key if and only if the leaf chain has it.
- `StoreAccounted`: trees disjoint and allocated; anything else that is allocated is an empty leaf.
- `OnlyOwnMap`: a step changes one map at most, an iteration only its own.
- `Implements`, `CallsDoWhatTheySay`: refinement of `OrderedMap`, as a whole and call by call.
- `RebalanceEnds`: a loop entered is left.
- `EachEntryOnce`: what the two ends of an `Iter` have handed out is a beginning and an end of the map, and its count is what lies between.
- `CursorsAlive`: a cursor that will be read is on an entry of a live leaf of its own map, whatever other maps did.
- `WritesOwnEntry`: the values of a map under `IterMut` are those before, but for the entries handed out and written.
- `OwnsEachEntryOnce`: the same of an `IntoIter`, whose entries are gone from the store by then.
- `NeededNodesKept`: while entries are left, all leaves from one end to the other, and every node above them, are still there: no node is freed early or twice.
- `NodesStayOwned`: the trees of the maps, and what an `IntoIter` has not freed yet, are allocated and share no node, whatever the maps of the store and their iterators did.
- `GivesNodesBack`: consumed from one end, every node is back; from both, at most one node a level is left (there is no `Drop` to free it).
- `OccupiedButForPanics`: after a panic one node at most is below its minimum, and by one; later loops mend it, merge it or leave it, but leave no second one.
- `ValidButForLost`: of a map with a root `Validates` still holds after a panic, but for a `length` that counts the one lost entry too many (which `validate` then reports); `LookupComplete` and `ParentAgrees` hold unchanged. A map that was emptied since is finding 6.
- `LeftBehindApart`: what a `Drop` while panicking leaves in the store never has an edge, a parent or a link to a node of a map, nor a map's node to it or to a freed one, whatever maps are made, filled and emptied afterwards.
- `PanicsLoseOneEntry`: a panicking call costs a map one entry at most. It may be an unrelated one: `split_leaf` drops the median in place of the new entry.
- `BoundsExact`: `node_bounds` gives the first and the last entry within the bounds, or none. It speaks of bounds whose start is not behind their end (`BoundsOrdered`), as `std` asks;
  for others the code's check for overlap does not hold and a range may run from behind its end to the end of the map.
- `RangeCursorsAlive`: an attached cursor of a range is on an entry, for all bounds, ordered or not.
- `RangeInOrder`: either end of a range hands out the entries from its own bound on, in order and each once, whatever the other end does, and none beyond the far bound unless exactly one entry is within (finding 3). It asks of no entry that it be left out.
- `OmitsAtMostOne`: when both ends return `None`, at most one entry within the range was handed out by neither.

Each of these has a mutant in `PROJECT.json`: a plausible slip in a definition of the model (the operators marked "Mutant") that makes the run fail.

### Fairness

`FairSpec` adds weak fairness of the loop steps only: a loop that runs is not preempted, its next iteration
happens. Nothing is assumed of the client's calls. Without it a behaviour may stop inside a call, which no
thread does.

### Findings

1. `clear()` (map.rs 293) leaves `height`. After `clear()` of a tree with internal nodes the next insert
   makes a leaf the root of a map of positive height, and `find` reads edges where a leaf has values, against node.rs 33-36.
2. `post_removal` (map.rs 890) forgets the emptied root leaf without giving it back: an emptied map
   leaves one slot in use each time it is refilled and emptied, against README.md 20.
3. `Range::advance` (map.rs 1627) detaches the cursors when the moved cursor is at the inclusive far end, so that entry, the last of the range, is never handed out (map.rs 604
   promises the pairs "within the given range").
   A range of exactly one entry starts at its far end, has moved past it when the comparison comes, and goes on to the end of the map.
4. `IntoIter::next_back` reads `len` of the leaf before its own after `dealloc_up_lasts` of the front freed that leaf (map.rs 1457, cursor.rs 70-74, against cursor.rs 25). It happens
   only when one entry is left, so no entry is lost (`OwnsEachEntryOnce` holds); it is a read of freed memory all the same, and `len - 1` of it may overflow.
5. `NodeIter` (sealed.rs 62-64) climbs first and tests the parent's own `parent_idx` then, and does not lower `current_height` when it goes to a sibling. In a tree of one root and its leaves it yields the root
   and the first leaf, and `tracing_gc` frees the others, against store.rs 8. The library implements the public trait
   `copyable::BTree`, which `tracing_gc` asks for, for no type. But the trait has no items, and its supertrait is implemented for the mutable and the copyable map, so a client can implement it for either with a key type of its own.
6. When `K::clone` panics in the borrow from the previous leaf (map.rs 909-911), the entry is lost and stays counted. While the map has a root, `validate` reports a wrong `length` (map.rs 494). Emptied by removals, it has no root and `length` 1: the next insert
   fails `debug_assert_eq!(self.length, 0)` of `insert_root` (map.rs 800), and without debug assertions `len()` stays one too high.

Two more things the model shows without a run. A mutable map that is passed to `tracing_gc` is dropped when the closure of `flat_map` returns (copyable/store.rs 36-39; `nodes()` exists for it, map.rs 1801), so `NodeIter` walks freed nodes.
And in the behaviours of 3 the ends of a range can also pass each other: they are compared with its bounds and not with each
other, so `next` and `next_back` may hand out the same entry, and `RangeMut` the same `&mut`. `IteratesWithinRange` excludes that as well. Each finding has
its run, of which TLC prints a shortest behaviour. No test of the repository calls `range`; the benchmarks do.

## 4. Proofs

TLAPS proves, for every finite set of slots, every non-empty set of maps, every set of integer keys, every set of values and
every even M >= 2, provided `ReuseAfterClear = FALSE`:

| Theorem | States |
|---|---|
| `InductiveInvariant` | `Spec => []IInv` |
| `TypeCorrect`, `NodesKeepShape`, `ParentsAgree`, `RootsAreAgreed`, `NodesKeepOccupied` | the node invariants of `one_map` |
| `StoreIsAccounted` | `Spec => []StoreAccounted`: maps that share a store never share a node |
| `OrderIsKept` | `Spec => []Ordered`: keys within their intervals, links from one interval to the next, `length` the number of entries, in the loops too |
| `LookupIsComplete` | `Spec => []LookupComplete`: `find` misses no key that is there |
| `MapsAreValid` | `Spec => []Validates`: the code's own `validate` never has anything to report |
| `MapsAreApart` | `Spec => OnlyOwnMap` (an action property): no step changes a map other than its own |
| `InvariantUnderIteration`, `StoreUnderIteration`, `OrderUnderIteration` | `IInv`, `StoreAccounted` and `Ordered` under `IterSpec`: also while a map is iterated, written through `IterMut`, and others of its store are called |
| `CursorsStayAlive` | `IterSpec => []CursorsAlive` |
| `IterationIsComplete` | `IterSpec => []EachEntryOnce`, for maps of any size and any alternation of the two ends |
| `WritesStayPut` | `IterSpec => []WritesOwnEntry` |
| `MapsAreDictionaries` | `Spec => Implements`: the maps of a store are independent dictionaries (`OrderedMap`), iterations of loops are stutters |
| `CallsKeepTheirWord` | `Spec => CallsDoWhatTheySay` (an action property): each call changes the entries of its map as its name says, values and the outcomes of `update_and_return` included |
| `RangeInvHolds` | `RangeSpec => [](IInv /\ Ordered /\ RangeInv)` |
| `BoundsAreExact` | `RangeSpec => []BoundsExact`: `node_bounds` on any map that calls can build and any bounds in order |
| `RangesStayAlive` | `RangeSpec => []RangeCursorsAlive` |
| `RangesStayInOrder` | `RangeSpec => []RangeInOrder` |
| `RangesOmitAtMostOne` | `RangeSpec => []OmitsAtMostOne` |

Those under `IterSpec` and `RangeSpec` are in `BTreeIterProofs`, the others in `BTreeMapProofs`. The runs `iter` and `iter_beside` check the same properties under `IntoIterSpec`, whose behaviours are those of `IterSpec` and
those with an `IntoIter` besides; the proofs are of `Iter` and `IterMut` alone.

**Assumptions**: the named ones of `BTreeNode` and `BTreeMap` (`MAssumption`, `SlotsAssumption`, `MapsAssumption`, `KeysAssumption`, `ReuseAssumption`). The finiteness of
`Slots` is used twice: that a set bound by `RoomToSplit` is not empty, and that climbing ends.

**The invariant of the nodes.** The properties of section 3 are not inductive. `IInv` adds what the code relies on without saying so:

- `PendingOverflow`, `PendingUnderflow`: what a loop has at the head of an iteration. The split-off half has no
  parent, is no root and is at its sibling's level; the underfull node really lacks a key, and `is_leaf` is right. Without these a
  branch could attach a node that is already in a tree.
- `Orphans`: a node without a parent is a root, the half just split off, or a leaf that a map forgot (finding 2). With
  it, a loop that climbs to a node without a parent knows it is at *a* root.
- `Owned`: there is an assignment of nodes to maps that follows edges and roots. With it, that root is the root of *its own* map, so
  that the right `root` and `height` are changed. It is also why maps never share a node.
- `FreeBlank`: a slot handed out has no trace of an earlier life, so that allocating does not connect anything.

**Its argument.** `BTreeForest` states the wiring of all nodes as one predicate, `Forest`, of the node arrays and the owner map, and proves that six
rewirings keep it: `Attach` and `Detach` an edge, `AddNode`, `Discard` a set of nodes closed under children and parents, `Split` a node's edges, `Join` those of two siblings. Two composites follow,
`MoveEdge` (borrowing between internal nodes) and `RemoveChild` (the node that a merge empties). Each loop step is then written as such a composition and only its lengths are left to check:
`SplitParent` is Attach, AddNode, Split; `GrowRoot` is AddNode and two Attach; the internal merges are Join and RemoveChild; `clear` is a Discard of the tree that `drop_node_ptr` visits (`TreeData`: that tree is closed and all its nodes are
the map's). The calls need that a descent of `height` steps ends at a leaf with an entry in it (`DescentEnds`, `LeafData`). `StoreFromInv` shows that a node with a parent is in some tree: parents are one level higher, and the slots are finite
(`ChildrenReached`, by the pigeonhole principle).
Under iteration only one step is new, the write through a reference of `IterMut` (`WriteInv`): it changes a value and no length, so the shape of no node; the other steps of `IterNext` are calls of `Next` or move a cursor (`IterNextInv`).

**The invariant of the order.** `Ordered` (`BTreeOrderInv`) gives every node an interval of keys between two cuts. A cut is the set of keys above it, so the ends of all keys need no key of their own. A root has all keys; the
separators of a node divide its interval among its children; the keys of a leaf rise within its interval; each interval has room (`Separates`), so a leaf that is left empty for a moment still has its place.
That a separator may be *stale*, a key that was removed since, costs nothing: only the cut counts. The same cuts order the links: `next` of a leaf leads to the leaf whose lower cut is this one's upper cut, in the same map, and is
`None` exactly where the keys end (`LinksOrdered`). `EntriesCounted` compares `length` with the number of keys in the leaves of the map's own nodes, as a set: because leaves are
disjoint intervals, no entry is counted twice. In the middle of a split the right half is in no parent: the parent still counts its interval to the left half (`Far`), and the key in `op` is the cut between the halves (`HalvesOrdered`), and one entry is not counted
yet (`Uncounted`). In the middle of an underflow nothing needs to be said: an underfull node is in order.

**Its argument.** Every iteration moves a cut or gives one to a new node: a borrow moves the cut between two siblings, a merge removes it, a split adds one. `BTreeOrderFacts` proves of one node what inserting, removing and replacing keys, splitting
and joining leave of its order, `BTreeOrderSteps` and `BTreeOrderCalls` put the nodes of a step together: a node whose arrays and whose edges' cuts stay remains in order. For a call, `FindReaches` follows the search: the key is within the
interval of each node on the way, so of the leaf it ends at, and a key outside an interval is not in the leaf.

**What the order shows** (`BTreeOrderViews`). Lookups: the interval of the leaf that `find` reaches is the only one that has the key. `validate`: the chain of links from the first leaf meets every leaf of the tree once, since lower cuts fall along it and the leaves are finitely many (`LinkedOnce`,
`LinkedCover`); so its keys rise and their number is `length`. That no other map changes follows from `Owned`: a step writes only nodes whose owner is its own map, or that were in none (`LeavesOthers`).

**The invariant of the iterators.** `IterInv` (`BTreeIterProofs`) says of the iterated map that its chain of leaves `q` and the offsets `o` of their entries in the sequence of all (`Offsets`) put the two cursors at the places that the number of entries handed out asks for, and that the keys handed
out are those before the one and behind the other (`Between`). Advancing a cursor is then adding one to its place (`AdvancedPlace`, `AdvancedBackPlace`), across leaves too; a call on another map leaves the whole chain (`ChainStays`). TLC checked `IterInv` on both instances before it was proved.

**The refinement.** `Contents` of a map are the pairs in the leaves that its links lead through, the half just split off among them. `Reads` (from `Ordered`) says that they are, for each key, the value beside
it in the one leaf that holds it, and `HeldApart` that leaves of one map never have a key in common, by their intervals. With both a proof need only look at the leaves that a step writes, in the middle of a loop too. A step changes at most two leaves of its own map (`OwnStep`, `OnlyAt`), and what it does to their pairs together is one of four things: nothing, one pair more, one pair's value replaced, one pair less
(`EntriesMove`, `EntryAdded`, `EntryWritten`, `EntryErased`). The first is the case of every iteration of the loops, which is why they are stutters: a split, a borrow and a merge carry pairs from one leaf to another. The dictionaries of the other maps stay by `LeavesOthers`.
The calls then follow one by one, and `CallsDoWhatTheySay` from the same case distinction.

**The invariant of a range.** `RangeInv` (`BTreeIterProofs`) puts the bounds and the cursors of a range at their places in the chain. With `ks` the keys of the map along the chain, `FindPlace` says where `find` of any key lands among them: on the key, or on the place in the leaf it would be
inserted at, which may be behind the last entry of that leaf and so at no place of the chain. `StartPlace` and `EndPlace` are the two normalisations, which step over to the next or the previous leaf, and `OverlapPlace` the code's test whether
anything is left between them. `Delimits` sums this up: for bounds in order `node_bounds` finds none if no key is within, and otherwise the places of the first and of the last of them (`NodeBounds`). From there the cursors walk: `Readable` (an attached cursor is on an entry) and, for bounds in order, `Ahead` (each cursor is behind as many entries
as its end has handed out; and short of the far bound, unless exactly one entry is within). `RangeAdvances` and `RangeAdvancesBack` move them along, `BeginsWith` and `BeginsBackwards` compare what they handed out with the keys of the map from the bound on. For bounds out of order only `Readable` is claimed,
which is what `RangeCursorsAlive` needs. A write through `RangeMut` changes a value and no key, link or length (`RangeWritten`, with `WriteInv` and `WriteOrder` as for `IterMut`).

**Only model-checked**, and why:

- `IntoIter` (`OwnsEachEntryOnce`, `NeededNodesKept`, `GivesNodesBack`, `NodesStayOwned`). The proofs above rest on `IInv`, and `IInv` is not an invariant of `IntoIterSpec`: the nodes of a map that is being consumed belong to no map, some of them lose a parent that was freed
  before them, and what a dropped iterator leaves behind stays so for ever, against `ParentAgrees` and `Orphans`. A proof needs a weaker `IInv` of the nodes that maps own, and all of `BTreeMapSteps` again with it.
- Panics (`OccupiedButForPanics`, `ValidButForLost`, `LeftBehindApart`, `PanicsLoseOneEntry`). `PanicSpec` breaks `Occupancy` and the count of entries on purpose; each lemma on a loop step would need a second version, for nodes that lack one key more.
- The collection: it ends in finding 5, and what is checked of it is that violation.
- `RebalanceEnds`: liveness under fairness.

Liveness, `ENABLED`, induction over data and recursive operators are out of the prover's reach here; recursion in modules that are proved about is
a recursive function (`Repeat`), sequences that folds make are reasoned about by what they contain (`Joins`), and facts on walks are proved from the least counterexample (`LeastNat`, `WalkStays`).

## 5. Not modelled, and why

- A panicking `Ord` strikes in `find`, before any change, and is a call that does nothing. A panic while there are marks of another: see section 2.
- Drops of keys and values, so also that `IntoIter` never drops the keys cloned into the internal nodes it frees.
- The read-only methods of copyable maps and sets: they forward to `map`.
- `advance_back` of a detached cursor by the client (cursor.rs 65).
- The arena (`rustc_arena_modified`): external; `alloc` and `dealloc` are modelled by the set of slots in use.
- Copies over uninitialised memory inside the node functions: modelled by the arrays they leave. Bit patterns, drop of keys and values, and layout are left out.
- Lookups other than `find`, `first_leaf`, `last_leaf`: they read what these find.
- `set.rs`, `utils`: forward or have no state. Tests, benches and criterion's reports are not part of the library.

## 6. Plan

Done: every module above, with its runs, and the proofs of section 4. What is left are proofs, in this order:

1. An `IInv` that speaks only of the nodes that maps own, of which the present one is the case without remains; then `NodesStayOwned` from `LeavesOthers`, and `OwnsEachEntryOnce` and `NeededNodesKept` along the chain, as for `Iter`.
2. The same for panics: an `Occupancy` with one exception, and `EntriesCounted` with the entry lost.
