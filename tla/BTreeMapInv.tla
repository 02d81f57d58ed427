----------------------------- MODULE BTreeMapInv -----------------------------
(***************************************************************************)
(* The inductive invariant behind the structural properties of             *)
(* BTreeMapProps.  Those properties speak of one node and its neighbours;  *)
(* what the code relies on besides is                                      *)
(*   - what the loops have left to do (Pending),                           *)
(*   - that a node without a parent is a root, the right half of a split,  *)
(*     or a leaf a map forgot when it was emptied (Orphans),               *)
(*   - that the nodes of a tree belong to one map (Owned): a loop that     *)
(*     climbs to a node without a parent is at the root of its own map,    *)
(*   - that a slot the arena hands out is blank (FreeBlank).               *)
(***************************************************************************)
EXTENDS BTreeMapProps

\* What the two rebalancing loops rely on at the head of an iteration.
PendingOverflow ==
    op.pc = "overflow" =>
        /\ op.node \in live /\ op.right \in live /\ op.node # op.right
        /\ ~Underfull(Len(keys[op.node]))
        /\ parent[op.right] = NULL
        /\ \A m \in Maps : root[m] # op.right
        /\ level[op.right] = level[op.node]
        /\ parent[op.node] = NULL => root[op.map] = op.node

PendingUnderflow ==
    op.pc = "underflow" =>
        /\ op.node \in live
        /\ Underfull(Len(keys[op.node]))
        /\ op.is_leaf <=> level[op.node] = 0
        /\ parent[op.node] = NULL => root[op.map] = op.node

\* A node without a parent is a root, about to get one, or forgotten.
Orphans ==
    \A s \in live : parent[s] = NULL =>
        \/ \E m \in Maps : root[m] = s
        \/ op.pc = "overflow" /\ s = op.right
        \/ level[s] = 0 /\ keys[s] = <<>>

\* owner[s] is the map in whose tree s is.
OwnedBy(owner) ==
    /\ \A m \in Maps : root[m] # NULL => owner[root[m]] = m
    /\ \A s \in live : parent[s] # NULL => owner[s] = owner[parent[s]]
    /\ op.pc # "idle" => owner[op.node] = op.map
    /\ op.pc = "overflow" => owner[op.right] = op.map

Owned == \E owner \in [Slots -> Maps] : OwnedBy(owner)

FreeBlank ==
    \A s \in Slots \ live :
        /\ level[s] = 0 /\ parent[s] = NULL
        /\ keys[s] = <<>> /\ vals[s] = <<>> /\ edges[s] = <<>>

IInv ==
    /\ TypeOK
    /\ NodeShape
    /\ ParentAgrees
    /\ RootsAgree
    /\ Occupancy
    /\ PendingOverflow
    /\ PendingUnderflow
    /\ Orphans
    /\ Owned
    /\ FreeBlank
=============================================================================
