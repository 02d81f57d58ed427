--------------------------- MODULE BTreeMapProps ---------------------------
(***************************************************************************)
(* What makes the B+ tree maps of BTreeMap correct: the structure of every *)
(* node at every moment, and between calls the agreement of the three ways *)
(* the code has to reach an entry (descending the tree, following the      *)
(* leaves' links, counting with `length`).                                 *)
(***************************************************************************)
EXTENDS BTreeMap

-----------------------------------------------------------------------------
(***************************************************************************)
(* Node by node, also between two iterations of a rebalancing loop.        *)
(***************************************************************************)

\* Types of all variables (node.rs Node, map.rs BTreeMap).
TypeOK ==
    /\ live \subseteq Slots
    /\ level \in [Slots -> Nat]
    /\ parent \in [Slots -> Slots \cup {NULL}]
    /\ parent_idx \in [Slots -> Nat \cup {Uninit}]
    /\ keys \in [Slots -> Seq(Keys)]
    /\ vals \in [Slots -> Seq(Values)]
    /\ edges \in [Slots -> Seq(Slots)]
    /\ prev \in [Slots -> Slots \cup {NULL}]
    /\ next \in [Slots -> Slots \cup {NULL}]
    /\ root \in [Maps -> Slots \cup {NULL}]
    /\ height \in [Maps -> Nat]
    /\ length \in [Maps -> Int]
    /\ op \in {Idle} \cup OverflowOps \cup UnderflowOps

\* What a union variant holds: a leaf as many values as keys, an internal
\* node one edge more than keys, neither more than M keys (node.rs 15-54).
NodeShape ==
    \A s \in Slots :
        /\ Len(keys[s]) <= M
        /\ level[s] = 0 => edges[s] = <<>> /\ Len(vals[s]) = Len(keys[s])
        /\ level[s] # 0 => vals[s] = <<>> /\ Len(edges[s]) = Len(keys[s]) + 1

\* `*node.parent.edges[node.parent_idx]` is the node (node.rs 18-21), in
\* both directions: every edge leads to an allocated child that knows its
\* parent and its place, and every node that has a parent is listed there.
ParentAgrees ==
    /\ \A s \in live : \A i \in DOMAIN edges[s] :
          LET child == edges[s][i]
          IN  /\ child \in live
              /\ parent[child] = s
              /\ parent_idx[child] = i - 1
              /\ level[child] = level[s] - 1
    /\ \A s \in live : parent[s] # NULL =>
          /\ parent[s] \in live
          /\ parent_idx[s] + 1 \in DOMAIN edges[parent[s]]
          /\ edges[parent[s]][parent_idx[s] + 1] = s

\* A map's root is allocated, has no parent and is at the map's height, so
\* that a descent of `height` edges ends at a leaf; two maps never share one.
RootsAgree ==
    /\ \A m \in Maps : root[m] # NULL =>
          root[m] \in live /\ parent[root[m]] = NULL /\ level[root[m]] = height[m]
    /\ \A m, n \in Maps : root[m] # NULL /\ root[m] = root[n] => m = n

\* Every node but a root and the one the underflow loop is at has at least
\* M / 2 keys; that one lacks exactly one. Both halves of a split have enough,
\* and a root has none only if it is about to shrink or the map forgot it.
Occupancy ==
    \A s \in live :
        \/ ~Underfull(Len(keys[s]))
        \/ /\ op.pc = "underflow" /\ s = op.node
           /\ parent[s] = NULL \/ Len(keys[s]) = M \div 2 - 1
        \/ /\ parent[s] = NULL /\ ~(op.pc = "overflow" /\ s = op.right)
           /\ keys[s] = <<>> => \A m \in Maps : root[m] # s

-----------------------------------------------------------------------------
(***************************************************************************)
(* The tree as a whole, between two calls.                                 *)
(***************************************************************************)

\* The nodes n levels below the root, from left to right.
Level(m, n) ==
    LET down == [q \in Seq(Slots) |-> FlattenSeq([i \in DOMAIN q |-> edges[q[i]]])]
    IN  Repeat(down, <<root[m]>>)[n]

\* The keys in the leaves at most h levels below s.
KeysBelow(s, h) == UNION {ToSet(keys[c]) : c \in {d \in Subtree(s, h) : level[d] = 0}}

\* The leaves, from first_leaf along `next`.
LeafChain(m) ==
    LET follow == [q \in Seq(Slots) |->
                      IF next[Last(q)] = NULL THEN q ELSE Append(q, next[Last(q)])]
    IN  IF root[m] = NULL THEN <<>>
        ELSE Repeat(follow, <<first_leaf(m)>>)[Cardinality(Slots)]

ChainKeys(m) == LET chain == LeafChain(m)
                IN  FlattenSeq([i \in DOMAIN chain |-> keys[chain[i]]])
ChainVals(m) == LET chain == LeafChain(m)
                IN  FlattenSeq([i \in DOMAIN chain |-> vals[chain[i]]])

\* The leaves' links run through the leaves of the tree from left to right
\* and back.
LeavesLinked(m) ==
    LET leaves == Level(m, height[m])
        n == Len(leaves)
    IN  \A i \in 1 .. n :
            /\ prev[leaves[i]] = IF i = 1 THEN NULL ELSE leaves[i - 1]
            /\ next[leaves[i]] = IF i = n THEN NULL ELSE leaves[i + 1]

\* Keys rise strictly along the leaves, and every key of an internal node is
\* above all keys to its left and at most the keys to its right.
KeysInOrder(m) ==
    /\ LET ks == ChainKeys(m) IN \A i \in 1 .. Len(ks) - 1 : ks[i] < ks[i + 1]
    /\ \A s \in TreeOf(m) : level[s] > 0 =>
          \A i \in DOMAIN keys[s] :
              /\ \A k \in KeysBelow(edges[s][i], height[m]) : k < keys[s][i]
              /\ \A k \in KeysBelow(edges[s][i + 1], height[m]) : keys[s][i] <= k

\* validate() finds nothing, `length` being the number of entries.
ValidTree(m) ==
    LeavesLinked(m) /\ KeysInOrder(m) /\ Len(ChainKeys(m)) = length[m]

\* "Ideally, this should always be a no-op" (map.rs 377).
Validates ==
    op = Idle => \A m \in Maps :
        IF root[m] = NULL THEN length[m] = 0 ELSE ValidTree(m)

\* A key is found by descending exactly when the leaves hold it, so that a
\* separator that is stale after removals never hides an entry.
LookupComplete ==
    op = Idle => \A m \in Maps : root[m] # NULL =>
        LET present == ToSet(ChainKeys(m))
        IN  \A k \in Keys : IsAt(FindLeaf(m, k), k) <=> k \in present

\* The store: no two maps share a node, everything a map reaches is
\* allocated, and an allocated node no map reaches holds no entry.
StoreAccounted ==
    op = Idle =>
        /\ \A m, n \in Maps : m # n => TreeOf(m) \cap TreeOf(n) = {}
        /\ LET trees == UNION {TreeOf(m) : m \in Maps}
           IN  /\ trees \subseteq live
               /\ \A s \in live \ trees : keys[s] = <<>> /\ edges[s] = <<>>

\* "Leaf data. Only exists if the implicit height is 0", "Internal data. Only
\* exists if the implicit height is positive" (node.rs 33-36): at a map's root.
ImplicitHeight ==
    \A m \in Maps : root[m] # NULL => (edges[root[m]] = <<>> <=> height[m] = 0)

\* "can also reuse storage by dropped b-trees" (README.md 20): a node that
\* no map reaches is given back to the store.
NoLeak == op = Idle => live = UNION {TreeOf(m) : m \in Maps}

-----------------------------------------------------------------------------
(***************************************************************************)
(* Steps.                                                                  *)
(***************************************************************************)

NodeAt(s) == <<level[s], parent[s], parent_idx[s], keys[s], vals[s], edges[s],
               prev[s], next[s]>>

\* A map as its owner sees it
View(m) == <<root[m], height[m], length[m], [s \in TreeOf(m) |-> NodeAt(s)]>>

\* A step changes one map at most, and the loop under way only its own.
OnlyOwnMap ==
    [][LET changed == {m \in Maps : View(m)' # View(m)}
       IN  /\ \A m, n \in changed : m = n
           /\ op # Idle => changed \subseteq {op.map}]_vars

\* A loop under way returns (it climbs one level per iteration).
RebalanceEnds == (op # Idle) ~> (op = Idle)
=============================================================================
