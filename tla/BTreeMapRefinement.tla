------------------------- MODULE BTreeMapRefinement -------------------------
(***************************************************************************)
(* The B+ tree maps implement OrderedMap.  A map's contents are what an    *)
(* iterator sees: the entries of the leaves, from the first leaf along the *)
(* links.  A call takes effect in its first step, the one that writes the  *)
(* leaf; the steps of the rebalancing loops that may follow change nothing *)
(* a client could see.                                                     *)
(***************************************************************************)
EXTENDS BTreeMapInv

\* The value beside a key of a leaf
ValueIn(leaf, k) == vals[leaf][CHOOSE i \in DOMAIN keys[leaf] : keys[leaf][i] = k]

Contents ==
    [m \in Maps |->
        LET leaves  == ToSet(LeafChain(m))
            home(k) == CHOOSE leaf \in leaves : k \in ToSet(keys[leaf])
        IN  [k \in UNION {ToSet(keys[leaf]) : leaf \in leaves} |-> ValueIn(home(k), k)]]

Abstract == INSTANCE OrderedMap WITH contents <- Contents

\* Every behaviour of the maps in one store is one of independent
\* dictionaries, rebalancing steps being stutters.
Implements == Abstract!Spec

\* Call by call: each does to its dictionary what its name says (map.rs
\* 201-372), and no step of a rebalancing loop changes any dictionary.
CallsDoWhatTheySay ==
    [][LET was == Contents
           now == Contents'
       IN  /\ op # Idle => now = was
           /\ \A m \in Maps :
                 LET Becomes(d) == now = [was EXCEPT ![m] = d]
                 IN  /\ \A k \in Keys, v \in Values :
                           /\ insert(m, k, v) => Becomes(Abstract!Put(was[m], k, v))
                           /\ get_or_insert(m, k, v) =>
                                   Becomes(Abstract!PutIfAbsent(was[m], k, v))
                           /\ update_and_return(m, k, v, "some") =>
                                   Becomes(Abstract!Put(was[m], k, v))
                           /\ \A outcome \in {"none", "panic"} :
                                   update_and_return(m, k, v, outcome) =>
                                       Becomes(Abstract!Erase(was[m], k))
                     /\ \A k \in Keys :
                           remove_key_value(m, k) => Becomes(Abstract!Erase(was[m], k))
                     /\ pop_first(m) => Becomes(Abstract!EraseFirst(was[m]))
                     /\ pop_last(m) => Becomes(Abstract!EraseLast(was[m]))
                     /\ clear(m) \/ drop_and_new_in(m) => Becomes(Abstract!EraseAll(was[m]))]_vars
=============================================================================
