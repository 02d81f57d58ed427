------------------------------ MODULE BTreeGC ------------------------------
(***************************************************************************)
(* Copyable maps (src/copyable/map.rs) and the tracing collection of a     *)
(* store (src/copyable/store.rs), with the traversal of the nodes of a map *)
(* by NodeIter (src/copyable/sealed.rs), one iteration or one climb a step.*)
(*                                                                         *)
(* tracing_gc asks for the trait copyable::BTree, which the library        *)
(* implements for no type.  The trait has no items and its supertrait is   *)
(* implemented for the mutable and the copyable map, so a client can       *)
(* implement it for either of them with a key type of its own.             *)
(***************************************************************************)
EXTENDS BTreeMapProps

VARIABLES
    copyable,        \* the maps that were made copyable
    gc               \* the locals of tracing_gc and of its NodeIter

NoGc == [pc |-> "none"]

gcVars == <<vars, copyable, gc>>

GcInit == Init /\ copyable = {} /\ gc = NoGc

\* From<BTreeMap>: the map is only read from now on and never dropped.
into_copyable(m) ==
    /\ gc = NoGc /\ op = Idle
    /\ copyable' = copyable \cup {m}
    /\ UNCHANGED <<vars, gc>>

\* The last copy goes out of scope: its nodes stay.  A map made later with
\* new_in takes the name.
forget(m) ==
    /\ gc = NoGc /\ op = Idle
    /\ m \in copyable
    /\ copyable' = copyable \ {m}
    /\ root' = [root EXCEPT ![m] = NULL]
    /\ height' = [height EXCEPT ![m] = 0]
    /\ length' = [length EXCEPT ![m] = 0]
    /\ UNCHANGED <<live, nodeVars, op, gc>>

\* "there must not exist a b-tree with this store which is not in `b_trees`",
\* and these are all of one type: every map with nodes is copyable or none is.
tracing_gc ==
    /\ gc = NoGc /\ op = Idle
    /\ \E b_trees \in {copyable, Maps \ copyable} :
          /\ \A m \in Maps \ b_trees : root[m] = NULL
          /\ gc' = [pc |-> "maps", todo |-> b_trees, nodes |-> {}]
    /\ UNCHANGED <<vars, copyable>>

\* flat_map: NodeIter::new(self.root, self.height) of the next map.  The closure
\* owns that map: a mutable one is dropped before the first NodeIter::next.
nodes(m) ==
    /\ gc.pc = "maps" /\ m \in gc.todo
    /\ gc' = [pc |-> IF root[m] = NULL THEN "maps" ELSE "next",
              todo |-> gc.todo \ {m}, nodes |-> gc.nodes,
              current |-> root[m], current_height |-> height[m], max_height |-> height[m]]
    /\ IF m \in copyable THEN UNCHANGED vars ELSE drop_and_new_in(m)
    /\ UNCHANGED copyable

(***************************************************************************)
(* NodeIter::next.  It climbs without lowering current_height again, so it *)
(* may come to a leaf with current_height > 0; what it then reads as       *)
(* edge(0) is leaf data, and what it does from there on is undefined       *)
(* ("astray").  parent_idx of a root is uninitialised: any u16 (bound: M). *)
(***************************************************************************)
NextDown ==
    /\ gc.pc = "next" /\ gc.current_height > 0
    /\ gc' = IF edges[gc.current] = <<>>
             THEN [gc EXCEPT !.pc = "astray"]
             ELSE [gc EXCEPT !.nodes = @ \cup {gc.current}, !.current = edges[@][1],
                             !.current_height = @ - 1]
    /\ UNCHANGED <<vars, copyable>>

NextLeaf ==
    /\ gc.pc = "next" /\ gc.current_height = 0
    /\ gc' = [gc EXCEPT !.pc = "climb", !.nodes = @ \cup {gc.current}]
    /\ UNCHANGED <<vars, copyable>>

Climb ==
    /\ gc.pc = "climb" /\ gc.current_height < gc.max_height
    /\ LET node == parent[gc.current]
           idxs == IF parent_idx[node] = Uninit THEN 0 .. M ELSE {parent_idx[node]}
       IN  \E index \in idxs :
              gc' = IF index < Len(keys[node])
                    THEN [gc EXCEPT !.pc = "next", !.current = edges[node][index + 2],
                                    !.current_height = @ + 1]
                    ELSE [gc EXCEPT !.current = node, !.current_height = @ + 1]
    /\ UNCHANGED <<vars, copyable>>

LastNode ==
    /\ gc.pc = "climb" /\ gc.current_height = gc.max_height
    /\ gc' = [gc EXCEPT !.pc = "maps"]
    /\ UNCHANGED <<vars, copyable>>

\* retain_shared
Sweep ==
    /\ gc.pc = "maps" /\ gc.todo = {}
    /\ GiveBack(live \ gc.nodes)
    /\ gc' = NoGc
    /\ UNCHANGED <<mapVars, op, copyable>>

Build ==
    /\ gc = NoGc
    /\ (\E m \in Maps \ copyable : CallOn(m)) \/ OverflowStep \/ UnderflowStep
    /\ UNCHANGED <<copyable, gc>>

GcNext ==
    \/ Build
    \/ \E m \in Maps : into_copyable(m) \/ forget(m) \/ nodes(m)
    \/ tracing_gc
    \/ NextDown \/ NextLeaf \/ Climb \/ LastNode
    \/ Sweep

GcSpec == GcInit /\ [][GcNext]_gcVars

-----------------------------------------------------------------------------
\* "Remove all allocated nodes which are not reachable through `b_trees`
\* iterator." (copyable/store.rs 8): a node that a map reaches is not removed.
ReachableNodesStay ==
    gc = NoGc /\ op = Idle => \A m \in Maps : TreeOf(m) \subseteq live
=============================================================================
