---------------------------- MODULE BTreeOrderInv ----------------------------
(***************************************************************************)
(* The inductive invariant behind the order of the keys: what makes find() *)
(* right, keeps the leaves' links in the order of the tree, and `length`   *)
(* the number of entries (LookupComplete and Validates of BTreeMapProps).  *)
(*                                                                         *)
(* Every node has an interval of keys, from its lower cut to its upper     *)
(* one: a root has all keys, and the separators of a node divide its       *)
(* interval between its children.  A cut is the set of keys above it, so   *)
(* that no key need stand for minus or plus infinity.                      *)
(***************************************************************************)
EXTENDS BTreeMapInv

Up(k) == {x \in Keys : k <= x}
Cuts == {{}, Keys} \cup {Up(k) : k \in Keys}

\* There is room between the cut L and the key k.
Above(L, k) == \E x \in L : x < k

-----------------------------------------------------------------------------
(***************************************************************************)
(* One node between the cuts L and H, lo and hi being the cuts of all.     *)
(***************************************************************************)

\* The keys rise and are within the interval.
LeafOrdered(ks, L, H) ==
    /\ \A i, j \in DOMAIN ks : i < j => ks[i] < ks[j]
    /\ \A i \in DOMAIN ks : ks[i] \in L /\ ks[i] \notin H

\* The key k is the cut between the edges e and f, within their intervals.
Separates(k, e, f, lo, hi) ==
    /\ hi[e] = Up(k) /\ lo[f] = Up(k)
    /\ Above(lo[e], k)
    /\ k \notin hi[f]

\* So is each key of a node; the outermost cuts are those of the node.
Divides(ks, es, L, H, lo, hi) ==
    /\ lo[es[1]] = L
    /\ hi[es[Len(ks) + 1]] = H
    /\ \A i \in DOMAIN ks : Separates(ks[i], es[i], es[i + 1], lo, hi)

NodeOrdered(lev, ks, es, L, H, lo, hi) ==
    IF lev = 0 THEN LeafOrdered(ks, L, H) ELSE Divides(ks, es, L, H, lo, hi)

-----------------------------------------------------------------------------
(***************************************************************************)
(* The nodes of all maps, owner[s] being the map that s is in, lo[s] and   *)
(* hi[s] its lower and its upper cut.                                      *)
(***************************************************************************)

\* While the right half of a split is in no parent, the parent still counts
\* its interval to the left half.
Far(hi) == IF op.pc = "overflow" THEN [hi EXCEPT ![op.node] = hi[op.right]] ELSE hi

InPlace(s) == ~(op.pc = "overflow" /\ s = op.right)

NodesOrdered(lo, hi) ==
    \A s \in live :
        /\ NodeOrdered(level[s], keys[s], edges[s], lo[s], hi[s], lo, Far(hi))
        /\ parent[s] = NULL /\ InPlace(s) => lo[s] = Keys /\ Far(hi)[s] = {}

\* The key between the two halves of a split is a separator to be.
HalvesOrdered(lo, hi) ==
    op.pc = "overflow" => Separates(op.key, op.node, op.right, lo, hi)

\* The leaves' links are mutual, stay in the map, lead from one interval to
\* the next, and end where the keys end.
LinksOrdered(owner, lo, hi) ==
    \A s \in live : level[s] = 0 =>
        /\ next[s] = NULL <=> hi[s] = {}
        /\ next[s] # NULL => /\ next[s] \in live /\ level[next[s]] = 0
                             /\ prev[next[s]] = s
                             /\ lo[next[s]] = hi[s]
                             /\ owner[next[s]] = owner[s]
        /\ prev[s] = NULL <=> lo[s] = Keys
        /\ prev[s] # NULL => /\ prev[s] \in live /\ level[prev[s]] = 0
                             /\ next[prev[s]] = s

NoStrayLinks ==
    \A s \in Slots : s \notin live \/ level[s] # 0 => next[s] = NULL /\ prev[s] = NULL

\* The keys of the entries in a node, and in a map
LeafKeys(s) == IF level[s] = 0 THEN ToSet(keys[s]) ELSE {}
KeysOf(owner, m) == UNION {LeafKeys(s) : s \in {t \in Slots : owner[t] = m}}

\* The map whose new entry is in a leaf, but not counted before the loop ends
Uncounted(m) == IF op.pc = "overflow" /\ op.map = m THEN 1 ELSE 0

EntriesCounted(owner) ==
    \A m \in Maps : /\ IsFiniteSet(KeysOf(owner, m))
                    /\ Cardinality(KeysOf(owner, m)) = length[m] + Uncounted(m)

OrderedBy(owner, lo, hi) ==
    /\ OwnedBy(owner)
    /\ NodesOrdered(lo, hi)
    /\ HalvesOrdered(lo, hi)
    /\ LinksOrdered(owner, lo, hi)
    /\ EntriesCounted(owner)

Ordered ==
    /\ NoStrayLinks
    /\ \E owner \in [Slots -> Maps], lo, hi \in [Slots -> Cuts] : OrderedBy(owner, lo, hi)

-----------------------------------------------------------------------------
(***************************************************************************)
(* The cuts, computed from the roots down, one level per round: Ordered in *)
(* a form that can be evaluated.                                           *)
(***************************************************************************)
CutPairs == [lo : SUBSET Keys, hi : SUBSET Keys]

CutsDown ==
    LET lower(s, cuts) ==
            IF parent[s] = NULL THEN Keys
            ELSE IF parent_idx[s] = 0 THEN cuts[parent[s]].lo
            ELSE Up(keys[parent[s]][parent_idx[s]])
        upper(s, cuts) ==
            IF parent[s] = NULL THEN {}
            ELSE IF parent_idx[s] = Len(keys[parent[s]]) THEN cuts[parent[s]].hi
            ELSE Up(keys[parent[s]][parent_idx[s] + 1])
        round == [cuts \in [Slots -> CutPairs] |->
                    [s \in Slots |->
                        IF op.pc = "overflow" /\ s = op.node
                        THEN [lo |-> lower(s, cuts), hi |-> Up(op.key)]
                        ELSE IF op.pc = "overflow" /\ s = op.right
                        THEN [lo |-> Up(op.key), hi |-> upper(op.node, cuts)]
                        ELSE [lo |-> lower(s, cuts), hi |-> upper(s, cuts)]]]
    IN  Repeat(round, [s \in Slots |-> [lo |-> Keys, hi |-> {}]])[Cardinality(Slots)]

OrderedDown ==
    LET lo == [s \in Slots |-> CutsDown[s].lo]
        hi == [s \in Slots |-> CutsDown[s].hi]
    IN  NoStrayLinks /\ \E owner \in [Slots -> Maps] : OrderedBy(owner, lo, hi)
=============================================================================
