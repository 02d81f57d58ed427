-------------------------- MODULE BTreeOrderCalls --------------------------
(***************************************************************************)
(* The calls of the map keep Ordered of BTreeOrderInv, and so does every   *)
(* step of BTreeMap.  What a step leaves to the other maps.                *)
(***************************************************************************)
EXTENDS BTreeOrderSteps

-----------------------------------------------------------------------------
(***************************************************************************)
(* The calls that allocate or give back nodes.                             *)
(***************************************************************************)
\* No entry of a map without a root
LEMMA EmptyMap ==
    ASSUME NEW owner, NEW lo, NEW hi, OrderState(owner, lo, hi), op = Idle,
           NEW m \in Maps, root[m] = NULL
    PROVE  KeysOf(owner, m) = {}
<1>1. SUFFICES ASSUME NEW s \in Slots, owner[s] = m, NEW x \in LeafKeys(s)
               PROVE  FALSE
    BY DEF KeysOf
<1>2. level[s] = 0 /\ x \in ToSet(keys[s])
    BY <1>1 DEF LeafKeys
<1>3. root[owner[s]] # NULL
    BY <1>2, KeyHome
<1>4. QED
    BY <1>1, <1>3

LEMMA InsertRootOrder ==
    ASSUME IInv, Ordered, op = Idle, NEW m \in Maps, NEW k \in Keys, NEW v \in Values,
           insert_root(m, k, v)
    PROVE  Ordered'
<1>1. PICK owner, lo, hi : OrderState(owner, lo, hi)
    BY OrderFound
<1>2. /\ Local /\ Wiring(owner) /\ OpOwned(owner) /\ RootsOwned(owner)
      /\ lo \in [Slots -> Cuts] /\ hi \in [Slots -> Cuts]
      /\ LinksOrdered(owner, lo, hi) /\ EntriesCounted(owner) /\ NoStrayLinks
    BY <1>1 DEF OrderState
<1>3. PICK new : new = Fresh
    OBVIOUS
<1>4. /\ root[m] = NULL /\ CanAlloc
      /\ live' = live \cup {new}
      /\ keys' = [keys EXCEPT ![new] = <<k>>]
      /\ root' = [root EXCEPT ![m] = new]
      /\ length' = [length EXCEPT ![m] = @ + 1]
      /\ level' = level /\ parent' = parent /\ edges' = edges
      /\ prev' = prev /\ next' = next /\ op' = op
    BY <1>3 DEF insert_root
<1>5. /\ new \in Slots /\ new \notin live /\ keys[new] = <<>> /\ edges[new] = <<>>
      /\ parent[new] = NULL /\ level[new] = 0
      /\ \A q \in Maps : root[q] # new
      /\ \A s \in Slots : parent[s] # new
    BY <1>2, <1>3, <1>4, FreshData
<1>6. /\ live \subseteq Slots /\ owner \in [Slots -> Maps]
      /\ keys \in [Slots -> Seq(Keys)] /\ parent \in [Slots -> Slots \cup {NULL}]
      /\ root \in [Maps -> Slots \cup {NULL}] /\ length \in [Maps -> Int]
    BY <1>2 DEF Local, DataTypes, Wiring, Forest
<1>7. PICK ow2, lo2, hi2 : /\ ow2 = [owner EXCEPT ![new] = m]
                           /\ lo2 = [lo EXCEPT ![new] = Keys]
                           /\ hi2 = [hi EXCEPT ![new] = {}]
    OBVIOUS
<1>8. ow2 \in [Slots -> Maps] /\ lo2 \in [Slots -> Cuts] /\ hi2 \in [Slots -> Cuts]
    <2>1. Keys \in Cuts /\ {} \in Cuts
        BY DEF Cuts
    <2>2. QED
        BY <1>2, <1>6, <1>7, <2>1
<1>9. /\ ow2[new] = m /\ lo2[new] = Keys /\ hi2[new] = {}
      /\ \A s \in Slots : s # new => ow2[s] = owner[s] /\ lo2[s] = lo[s] /\ hi2[s] = hi[s]
    BY <1>2, <1>5, <1>6, <1>7
<1>10. /\ keys'[new] = <<k>>
       /\ \A s \in Slots : s # new => keys'[s] = keys[s]
       /\ \A q \in Maps : root'[q] = IF q = m THEN new ELSE root[q]
       /\ \A q \in Maps : length'[q] = IF q = m THEN length[q] + 1 ELSE length[q]
    BY <1>4, <1>5, <1>6
<1>11. op.pc = "idle" /\ op'.pc = "idle" /\ op.pc # "overflow" /\ op'.pc # "overflow"
    BY <1>4 DEF Idle
<1>12. /\ \A q \in Maps : Uncounted(q) = 0
       /\ \A s \in live : /\ NodeOrdered(level[s], keys[s], edges[s], lo[s], hi[s], lo, hi)
                          /\ parent[s] = NULL => lo[s] = Keys /\ hi[s] = {}
    BY <1>1, <1>11, CalmState
<1>13. /\ NodeOrdered(level'[new], keys'[new], edges'[new], lo2[new], hi2[new], lo2, hi2)
    <2>1. LeafOrdered(<<k>>, Keys, {})
        BY DEF LeafOrdered
    <2>2. QED
        BY <1>4, <1>5, <1>9, <1>10, <2>1 DEF NodeOrdered
<1>14. ASSUME NEW s \in live
       PROVE  /\ NodeOrdered(level'[s], keys'[s], edges'[s], lo2[s], hi2[s], lo2, hi2)
              /\ parent'[s] = NULL => lo2[s] = Keys /\ hi2[s] = {}
    <2>1. s \in Slots /\ s # new
        BY <1>5, <1>6
    <2>2. NodeOrdered(level[s], keys[s], edges[s], lo[s], hi[s], lo, hi)
        BY <1>12
    <2>3. \A c \in Slots : parent[c] = s => lo2[c] = lo[c] /\ hi2[c] = hi[c]
        <3>1. \A c \in Slots : parent[c] = s => c # new
            BY <1>5, <1>6, <2>1, SlotsAssumption
        <3>2. QED
            BY ONLY <1>9, <3>1
    <2>4. Local /\ Wiring(owner) /\ s \in live
        BY <1>2
    <2>5. NodeOrdered(level[s], keys[s], edges[s], lo[s], hi[s], lo2, hi2)
        BY ONLY <2>2, <2>3, <2>4, NodeKept
    <2>6. /\ level'[s] = level[s] /\ keys'[s] = keys[s] /\ edges'[s] = edges[s]
          /\ lo2[s] = lo[s] /\ hi2[s] = hi[s] /\ parent'[s] = parent[s]
        BY ONLY <1>4, <1>9, <1>10, <2>1
    <2>7. QED
        BY <1>12, <2>5, <2>6
<1>15. OwnedBy(ow2)'
    <2>1. ASSUME NEW q \in Maps, root'[q] # NULL
          PROVE  ow2[root'[q]] = q
        <3>1. CASE q = m
            BY <1>9, <1>10, <3>1
        <3>2. CASE q # m
            <4>1. root'[q] = root[q] /\ root[q] \in Slots /\ root[q] # new /\ root[q] # NULL
                BY <1>5, <1>6, <1>10, <2>1, <3>2
            <4>2. owner[root[q]] = q
                BY <1>2, <4>1 DEF RootsOwned
            <4>3. QED
                BY ONLY <1>9, <4>1, <4>2
        <3>3. QED
            BY <3>1, <3>2
    <2>2. ASSUME NEW s \in live', parent'[s] # NULL
          PROVE  ow2[s] = ow2[parent'[s]]
        <3>1. s \in Slots /\ parent'[s] = parent[s] /\ parent[s] # NULL /\ s # new
            BY <1>4, <1>5, <1>6, <2>2
        <3>2. parent[s] \in Slots /\ parent[s] # new /\ owner[s] = owner[parent[s]]
            BY <1>2, <1>5, <3>1, ParentOf
        <3>3. QED
            BY ONLY <1>9, <3>1, <3>2
    <2>3. QED
        BY <1>11, <2>1, <2>2 DEF OwnedBy
<1>16. LinksOrdered(ow2, lo2, hi2)' /\ NoStrayLinks'
    <2>1. next[new] = NULL /\ prev[new] = NULL
        BY <1>2, <1>5 DEF NoStrayLinks
    <2>2. ASSUME NEW s \in live', level[s] = 0
          PROVE  /\ next[s] = NULL <=> hi2[s] = {}
                 /\ next[s] # NULL => /\ next[s] \in live' /\ level[next[s]] = 0
                                      /\ prev[next[s]] = s
                                      /\ lo2[next[s]] = hi2[s]
                                      /\ ow2[next[s]] = ow2[s]
                 /\ prev[s] = NULL <=> lo2[s] = Keys
                 /\ prev[s] # NULL => /\ prev[s] \in live' /\ level[prev[s]] = 0
                                      /\ next[prev[s]] = s
        <3>1. CASE s = new
            BY ONLY <1>9, <2>1, <3>1
        <3>2. CASE s # new
            <4>1. s \in live /\ s \in Slots
                BY <1>4, <1>6, <3>2
            <4>2. /\ next[s] = NULL <=> hi[s] = {}
                  /\ next[s] # NULL => /\ next[s] \in live /\ level[next[s]] = 0
                                       /\ prev[next[s]] = s
                                       /\ lo[next[s]] = hi[s]
                                       /\ owner[next[s]] = owner[s]
                  /\ prev[s] = NULL <=> lo[s] = Keys
                  /\ prev[s] # NULL => /\ prev[s] \in live /\ level[prev[s]] = 0
                                       /\ next[prev[s]] = s
                BY <1>2, <2>2, <4>1 DEF LinksOrdered
            <4>3. QED
                BY ONLY <1>4, <1>5, <1>6, <1>9, <3>2, <4>1, <4>2
        <3>3. QED
            BY <3>1, <3>2
    <2>3. LinksOrdered(ow2, lo2, hi2)'
        BY <1>4, <2>2 DEF LinksOrdered
    <2>4. NoStrayLinks'
        BY <1>2, <1>4 DEF NoStrayLinks
    <2>5. QED
        BY <2>3, <2>4
<1>17. EntriesCounted(ow2)'
    <2>1. KeysOf(owner, m) = {}
        BY <1>1, <1>4, EmptyMap
    <2>2. LeafKeys(new) = {} /\ LeafKeys(new)' = {k}
        <3>1. ToSet(<<>>) = {} /\ ToSet(<<k>>) = {k}
            BY DEF ToSet
        <3>2. QED
            BY <1>4, <1>5, <1>10, <3>1 DEF LeafKeys
    <2>3. PICK a, X : a = new /\ X = {k}
        OBVIOUS
    <2>4. /\ KeysOf(ow2, m)' = KeysOf(owner, m) \cup X
          /\ \A q \in Maps \ {m} : KeysOf(ow2, q)' = KeysOf(owner, q)
        <3>1. LeafKeys(new)' \cup LeafKeys(a)' = (LeafKeys(new) \cup LeafKeys(a)) \cup X
            BY ONLY <2>2, <2>3
        <3>2. /\ new \in Slots /\ ow2[new] = m /\ (owner[new] = m \/ LeafKeys(new) = {})
              /\ a \in Slots /\ ow2[a] = m /\ (owner[a] = m \/ LeafKeys(a) = {})
            BY ONLY <1>5, <1>9, <2>2, <2>3
        <3>3. \A s \in Slots \ {new, a} : /\ LeafKeys(s)' = LeafKeys(s)
                                          /\ ow2[s] = owner[s] \/ LeafKeys(s) = {}
            BY <1>4, <1>9, <1>10, <2>3 DEF LeafKeys
        <3>4. m \in Maps /\ new \in Slots /\ a \in Slots
            BY <1>5, <2>3
        <3>5. TwoLeavesGain(owner, ow2, m, new, a, X)
            BY ONLY <3>1, <3>2, <3>3 DEF TwoLeavesGain
        <3>6. QED
            BY ONLY <3>4, <3>5, KeysChanged
    <2>5. \A q \in Maps : Uncounted(q)' = 0
        BY <1>11 DEF Uncounted
    <2>6. length'[m] + Uncounted(m)' = length[m] + Uncounted(m) + 1
        <3>1. length'[m] = length[m] + 1 /\ length[m] \in Int
            BY <1>6, <1>10
        <3>2. QED
            BY <1>12, <2>5, <3>1
    <2>7. \A q \in Maps \ {m} : length'[q] + Uncounted(q)' = length[q] + Uncounted(q)
        BY <1>10, <1>12, <2>5
    <2>8. QED
        BY <1>2, <1>6, <2>1, <2>3, <2>4, <2>6, <2>7, CountMore
<1>18. live' \subseteq Slots
    BY <1>4, <1>5, <1>6
<1>19. \A s \in live' :
          /\ NodeOrdered(level'[s], keys'[s], edges'[s], lo2[s], hi2[s], lo2, hi2)
          /\ parent'[s] = NULL => lo2[s] = Keys /\ hi2[s] = {}
    BY <1>4, <1>9, <1>13, <1>14
<1>20. QED
    BY ONLY <1>8, <1>11, <1>15, <1>16, <1>17, <1>18, <1>19, CalmGiven

\* clear and Drop: what is left of a map whose nodes are discarded
LEMMA DropNodesOrder ==
    ASSUME IInv, Ordered, op = Idle, NEW m \in Maps, DropNodes(m),
           root' = [root EXCEPT ![m] = NULL], length' = [length EXCEPT ![m] = 0], op' = op
    PROVE  Ordered'
<1>1. PICK owner, lo, hi : OrderState(owner, lo, hi)
    BY OrderFound
<1>2. /\ Local /\ Wiring(owner) /\ OpOwned(owner) /\ RootsOwned(owner)
      /\ lo \in [Slots -> Cuts] /\ hi \in [Slots -> Cuts]
      /\ LinksOrdered(owner, lo, hi) /\ EntriesCounted(owner) /\ NoStrayLinks
    BY <1>1 DEF OrderState
<1>3. PICK gone : gone = TreeOf(m)
    OBVIOUS
<1>4. /\ live \subseteq Slots /\ owner \in [Slots -> Maps]
      /\ parent \in [Slots -> Slots \cup {NULL}]
      /\ root \in [Maps -> Slots \cup {NULL}] /\ length \in [Maps -> Int] /\ NULL \notin Slots
    BY <1>2, SlotsAssumption DEF Local, DataTypes, Wiring, Forest
<1>5. /\ gone \subseteq live
      /\ \A s \in gone : owner[s] = m
      /\ root[m] # NULL => root[m] \in gone
      /\ \A s \in live : parent[s] # NULL => (s \in gone <=> parent[s] \in gone)
    <2>1. CASE root[m] = NULL
        BY <1>3, <2>1 DEF TreeOf
    <2>2. CASE root[m] # NULL
        BY <1>2, <1>3, <2>2, TreeData
    <2>3. QED
        BY <2>1, <2>2
<1>6. ASSUME NEW s \in live, s \notin gone, owner[s] = m
      PROVE  parent[s] = NULL
    <2>1. SUFFICES ASSUME parent[s] # NULL PROVE FALSE
        OBVIOUS
    <2>2. PICK q \in Maps : s \in TreeOf(q)
        BY <1>2, <2>1, ChildrenReached
    <2>3. root[q] # NULL
        BY <2>2 DEF TreeOf
    <2>4. owner[s] = q
        BY <1>2, <2>2, <2>3, TreeData
    <2>5. QED
        BY <1>3, <1>6, <2>2, <2>4
<1>7. /\ live' = live \ gone
      /\ \A s \in Slots \ gone : /\ level'[s] = level[s] /\ parent'[s] = parent[s]
                                 /\ keys'[s] = keys[s] /\ edges'[s] = edges[s]
                                 /\ next'[s] = next[s] /\ prev'[s] = prev[s]
      /\ \A s \in gone : /\ level'[s] = 0 /\ keys'[s] = <<>>
                         /\ next'[s] = NULL /\ prev'[s] = NULL
    BY <1>3, <1>4, <1>5 DEF DropNodes, GiveBack, Wiped
<1>8. /\ \A q \in Maps : root'[q] = IF q = m THEN NULL ELSE root[q]
      /\ \A q \in Maps : length'[q] = IF q = m THEN 0 ELSE length[q]
    BY <1>4
<1>9. op.pc = "idle" /\ op'.pc = "idle" /\ op.pc # "overflow" /\ op'.pc # "overflow"
    BY DEF Idle
<1>10. /\ \A q \in Maps : Uncounted(q) = 0
       /\ \A s \in live : /\ NodeOrdered(level[s], keys[s], edges[s], lo[s], hi[s], lo, hi)
                          /\ parent[s] = NULL => lo[s] = Keys /\ hi[s] = {}
    BY <1>1, <1>9, CalmState
<1>11. \A s \in live' : s \in live /\ s \in Slots /\ s \in Slots \ gone
    BY <1>4, <1>7
<1>12. \A s \in live' :
          /\ NodeOrdered(level'[s], keys'[s], edges'[s], lo[s], hi[s], lo, hi)
          /\ parent'[s] = NULL => lo[s] = Keys /\ hi[s] = {}
    <2>1. SUFFICES ASSUME NEW s \in live'
                   PROVE  /\ NodeOrdered(level'[s], keys'[s], edges'[s], lo[s], hi[s], lo, hi)
                          /\ parent'[s] = NULL => lo[s] = Keys /\ hi[s] = {}
        OBVIOUS
    <2>2. /\ NodeOrdered(level[s], keys[s], edges[s], lo[s], hi[s], lo, hi)
          /\ parent[s] = NULL => lo[s] = Keys /\ hi[s] = {}
        BY <1>10, <1>11
    <2>3. level'[s] = level[s] /\ parent'[s] = parent[s] /\ keys'[s] = keys[s] /\ edges'[s] = edges[s]
        BY ONLY <1>7, <1>11, <2>1
    <2>4. QED
        BY ONLY <2>2, <2>3
<1>13. OwnedBy(owner)'
    <2>1. \A q \in Maps : root'[q] # NULL => owner[root'[q]] = q
        BY <1>2, <1>8 DEF RootsOwned
    <2>2. ASSUME NEW s \in live', parent'[s] # NULL
          PROVE  owner[s] = owner[parent'[s]]
        <3>1. s \in Slots /\ parent'[s] = parent[s] /\ parent[s] # NULL
            BY <1>7, <1>11, <2>2
        <3>2. QED
            BY <1>2, <3>1, ParentOf
    <2>3. QED
        BY <1>9, <2>1, <2>2 DEF OwnedBy
<1>14. LinksOrdered(owner, lo, hi)'
    <2>1. ASSUME NEW s \in live', level'[s] = 0
          PROVE  /\ next'[s] = NULL <=> hi[s] = {}
                 /\ next'[s] # NULL => /\ next'[s] \in live' /\ level'[next'[s]] = 0
                                       /\ prev'[next'[s]] = s
                                       /\ lo[next'[s]] = hi[s]
                                       /\ owner[next'[s]] = owner[s]
                 /\ prev'[s] = NULL <=> lo[s] = Keys
                 /\ prev'[s] # NULL => /\ prev'[s] \in live' /\ level'[prev'[s]] = 0
                                       /\ next'[prev'[s]] = s
        <3>1. /\ s \in live /\ s \in Slots /\ s \notin gone /\ level[s] = 0
              /\ next'[s] = next[s] /\ prev'[s] = prev[s]
            BY <1>7, <1>11, <2>1
        <3>2. \A t \in live : level[t] = 0 =>
                 /\ next[t] = NULL <=> hi[t] = {}
                 /\ next[t] # NULL => /\ next[t] \in live /\ level[next[t]] = 0
                                      /\ prev[next[t]] = t
                                      /\ lo[next[t]] = hi[t]
                                      /\ owner[next[t]] = owner[t]
                 /\ prev[t] = NULL <=> lo[t] = Keys
                 /\ prev[t] # NULL => /\ prev[t] \in live /\ level[prev[t]] = 0
                                      /\ next[prev[t]] = t
            BY <1>2 DEF LinksOrdered
        <3>3. owner[s] = m => next[s] = NULL /\ prev[s] = NULL
            BY <1>6, <1>10, <3>1, <3>2
        <3>4. next[s] # NULL => next[s] \notin gone
            BY ONLY <1>5, <3>1, <3>2, <3>3
        <3>5. prev[s] # NULL => prev[s] \notin gone
            <4>1. ASSUME prev[s] # NULL, prev[s] \in gone PROVE FALSE
                <5>1. prev[s] \in live /\ level[prev[s]] = 0 /\ next[prev[s]] = s /\ owner[prev[s]] = m
                    BY ONLY <1>5, <3>1, <3>2, <4>1
                <5>2. s # NULL
                    BY <1>4, <3>1
                <5>3. owner[s] = m
                    BY ONLY <3>2, <5>1, <5>2
                <5>4. QED
                    BY <3>3, <4>1, <5>3
            <4>2. QED
                BY <4>1
        <3>6. \A t \in live : t \notin gone => /\ t \in live' /\ level'[t] = level[t]
                                               /\ next'[t] = next[t] /\ prev'[t] = prev[t]
            BY ONLY <1>4, <1>7
        <3>7. QED
            BY ONLY <3>1, <3>2, <3>4, <3>5, <3>6
    <2>2. QED
        BY <2>1 DEF LinksOrdered
<1>15. NoStrayLinks'
    <2>1. SUFFICES ASSUME NEW s \in Slots, s \notin live' \/ level'[s] # 0
                   PROVE  next'[s] = NULL /\ prev'[s] = NULL
        BY DEF NoStrayLinks
    <2>2. CASE s \in gone
        BY <1>7, <2>2
    <2>3. CASE s \notin gone
        <3>1. s \notin live \/ level[s] # 0
            BY <1>7, <2>1, <2>3
        <3>2. next[s] = NULL /\ prev[s] = NULL
            BY <1>2, <3>1 DEF NoStrayLinks
        <3>3. QED
            BY <1>7, <2>3, <3>2
    <2>4. QED
        BY <2>2, <2>3
<1>16. EntriesCounted(owner)'
    <2>1. \A s \in Slots : LeafKeys(s)' = IF s \in gone THEN {} ELSE LeafKeys(s)
        <3>1. ToSet(<<>>) = {}
            BY DEF ToSet
        <3>2. QED
            BY <1>7, <3>1 DEF LeafKeys
    <2>2. ASSUME NEW q \in Maps, q # m
          PROVE  KeysOf(owner, q)' = KeysOf(owner, q)
        BY <1>5, <2>1, <2>2 DEF KeysOf
    <2>3. KeysOf(owner, m)' = {}
        <3>1. ASSUME NEW s \in Slots, owner[s] = m, s \notin gone
              PROVE  LeafKeys(s) = {}
            <4>1. SUFFICES ASSUME NEW x \in LeafKeys(s) PROVE FALSE
                OBVIOUS
            <4>2. level[s] = 0 /\ x \in ToSet(keys[s])
                BY <4>1 DEF LeafKeys
            <4>3. Held(owner, m, s)
                BY <1>1, <3>1, <4>2, KeyHome
            <4>4. s \in live /\ (parent[s] # NULL \/ root[m] = s)
                BY <4>3 DEF Held
            <4>5. root[m] = s
                BY <1>6, <3>1, <4>4
            <4>6. QED
                BY <1>4, <1>5, <3>1, <4>5
        <3>2. QED
            BY <2>1, <3>1 DEF KeysOf
    <2>4. \A q \in Maps : Uncounted(q)' = 0
        BY <1>9 DEF Uncounted
    <2>5. ASSUME NEW q \in Maps
          PROVE  /\ IsFiniteSet(KeysOf(owner, q)')
                 /\ Cardinality(KeysOf(owner, q)') = length'[q] + Uncounted(q)'
        <3>1. CASE q = m
            <4>1. length'[q] = 0 /\ Uncounted(q)' = 0 /\ KeysOf(owner, q)' = {}
                BY <1>8, <2>3, <2>4, <3>1
            <4>2. IsFiniteSet({}) /\ Cardinality({}) = 0
                BY FS_EmptySet
            <4>3. QED
                BY <4>1, <4>2
        <3>2. CASE q # m
            <4>1. IsFiniteSet(KeysOf(owner, q)) /\ Cardinality(KeysOf(owner, q)) = length[q] + Uncounted(q)
                BY <1>2 DEF EntriesCounted
            <4>2. length'[q] = length[q] /\ Uncounted(q)' = Uncounted(q)
                BY <1>8, <1>10, <2>4, <3>2
            <4>3. QED
                BY <2>2, <3>2, <4>1, <4>2
        <3>3. QED
            BY <3>1, <3>2
    <2>6. QED
        BY <2>5 DEF EntriesCounted
<1>17. live' \subseteq Slots
    BY <1>11
<1>18. QED
    BY ONLY <1>2, <1>4, <1>9, <1>12, <1>13, <1>14, <1>15, <1>16, <1>17, CalmGiven

-----------------------------------------------------------------------------
(***************************************************************************)
(* A leaf is split.                                                        *)
(***************************************************************************)
LEMMA LeafSplit ==
    ASSUME NEW z, z = M + 1, NEW ks \in Seq(Keys), Len(ks) = z,
           NEW L, NEW H, LeafOrdered(ks, L, H), NEW k, k = LeafSplitKey(ks)
    PROVE  /\ k \in Keys /\ Above(L, k) /\ k \notin H
           /\ LeafOrdered(LeafLeft(ks), L, Up(k))
           /\ LeafOrdered(LeafRight(ks), Up(k), H)
           /\ ToSet(LeafLeft(ks)) \cup ToSet(LeafRight(ks)) = ToSet(ks)
<1>1. PICK h \in Nat : h >= 1 /\ M = h + h /\ M \div 2 = h
    BY HalfOfM
<1>2. PICK j \in Nat : /\ j = h + 1 /\ j \in 2 .. z /\ j - 1 = h /\ z \in Nat /\ z - 1 = M
    <2>1. h + 1 \in 2 .. z /\ (h + 1) - 1 = h /\ z \in Nat /\ z - 1 = M /\ h + 1 \in Nat
        BY <1>1
    <2>2. QED
        BY <2>1
<1>3. Median(ks) = h
    BY <1>1, <1>2 DEF Median
<1>4. /\ LeafLeft(ks) = SubSeq(ks, 1, j - 1) /\ LeafRight(ks) = SubSeq(ks, j, z) /\ k = ks[j]
    BY <1>2, <1>3 DEF LeafLeft, LeafRight, LeafSplitKey
<1>5. k \in Keys
    BY <1>2, <1>4
<1>6. /\ LeafOrdered(SubSeq(ks, 1, j - 1), L, Up(ks[j]))
      /\ LeafOrdered(SubSeq(ks, j, z), Up(ks[j]), H)
      /\ ToSet(SubSeq(ks, 1, j - 1)) \cup ToSet(SubSeq(ks, j, z)) = ToSet(ks)
      /\ Above(L, ks[j]) /\ ks[j] \notin H
    BY <1>2, LeafHalvesOrdered
<1>7. QED
    BY ONLY <1>4, <1>5, <1>6

\* The new leaf comes between the one that was split and the next one.
SplitOff(owner, lo, hi, leaf, right, k, ow2, lo2, hi2) ==
    /\ leaf \in live /\ level[leaf] = 0
    /\ right \in Slots /\ right \notin live /\ level[right] = 0
    /\ k \in Keys /\ Above(lo[leaf], k) /\ k \notin hi[leaf]
    /\ live' = live \cup {right} /\ level' = level
    /\ next' = [next EXCEPT ![leaf] = right, ![right] = next[leaf]]
    /\ prev' = SetLink([prev EXCEPT ![right] = leaf], next[leaf], right)
    /\ \A s \in Slots : /\ ow2[s] = IF s = right THEN owner[leaf] ELSE owner[s]
                        /\ lo2[s] = IF s = right THEN Up(k) ELSE lo[s]
                        /\ hi2[s] = IF s = leaf THEN Up(k)
                                    ELSE IF s = right THEN hi[leaf] ELSE hi[s]

LEMMA SplitLinks ==
    ASSUME NEW owner, NEW lo, NEW hi, OrderState(owner, lo, hi),
           NEW leaf, NEW right, NEW k, NEW ow2, NEW lo2, NEW hi2,
           SplitOff(owner, lo, hi, leaf, right, k, ow2, lo2, hi2)
    PROVE  LinksOrdered(ow2, lo2, hi2)' /\ NoStrayLinks'
<1>0. /\ leaf \in live /\ level[leaf] = 0
      /\ right \in Slots /\ right \notin live /\ level[right] = 0
      /\ k \in Keys /\ Above(lo[leaf], k) /\ k \notin hi[leaf]
      /\ live' = live \cup {right} /\ level' = level
    BY DEF SplitOff
<1>a. /\ next' = [next EXCEPT ![leaf] = right, ![right] = next[leaf]]
      /\ prev' = SetLink([prev EXCEPT ![right] = leaf], next[leaf], right)
    BY DEF SplitOff
<1>b. \A s \in Slots : /\ ow2[s] = IF s = right THEN owner[leaf] ELSE owner[s]
                       /\ lo2[s] = IF s = right THEN Up(k) ELSE lo[s]
                       /\ hi2[s] = IF s = leaf THEN Up(k)
                                   ELSE IF s = right THEN hi[leaf] ELSE hi[s]
    BY DEF SplitOff
<1>1. /\ Local /\ Wiring(owner) /\ LinksOrdered(owner, lo, hi) /\ NoStrayLinks
      /\ lo \in [Slots -> Cuts] /\ hi \in [Slots -> Cuts]
    BY <1>0 DEF OrderState
<1>2. /\ live \subseteq Slots /\ NULL \notin Slots
      /\ next \in [Slots -> Slots \cup {NULL}] /\ prev \in [Slots -> Slots \cup {NULL}]
    BY <1>0, <1>1, SlotsAssumption DEF Local, DataTypes, Wiring, Forest
<1>3. /\ leaf \in Slots /\ leaf # right /\ leaf # NULL /\ right # NULL
    BY <1>0, <1>2
<1>4. \A t \in live : level[t] = 0 =>
         /\ next[t] = NULL <=> hi[t] = {}
         /\ next[t] # NULL => /\ next[t] \in live /\ level[next[t]] = 0
                              /\ prev[next[t]] = t
                              /\ lo[next[t]] = hi[t]
                              /\ owner[next[t]] = owner[t]
         /\ prev[t] = NULL <=> lo[t] = Keys
         /\ prev[t] # NULL => /\ prev[t] \in live /\ level[prev[t]] = 0
                              /\ next[prev[t]] = t
    BY <1>0, <1>1 DEF LinksOrdered
<1>5. PICK y : y = next[leaf]
    OBVIOUS
<1>6. y \in Slots \cup {NULL} /\ y # leaf /\ y # right
    <2>1. k \in lo[leaf]
        BY <1>0, <1>1, <1>3, AboveIs
    <2>2. lo[leaf] # hi[leaf]
        BY <1>0, <2>1
    <2>3. QED
        BY ONLY <1>0, <1>2, <1>3, <1>4, <1>5, <2>2
<1>7. \A s \in Slots : /\ next'[s] = IF s = leaf THEN right ELSE IF s = right THEN y ELSE next[s]
                       /\ prev'[s] = IF s = right THEN leaf ELSE IF s = y THEN right ELSE prev[s]
    <2>1. \A s \in Slots : next'[s] = IF s = leaf THEN right ELSE IF s = right THEN y ELSE next[s]
        BY <1>0, <1>a, <1>2, <1>3, <1>5
    <2>2. PICK f \in [Slots -> Slots \cup {NULL}] : f = [prev EXCEPT ![right] = leaf]
        BY <1>0, <1>2, <1>3
    <2>3. \A s \in Slots : f[s] = IF s = right THEN leaf ELSE prev[s]
        BY <1>0, <1>2, <2>2
    <2>4. prev' = IF y \in Slots THEN [f EXCEPT ![y] = right] ELSE f
        BY <1>0, <1>a, <1>5, <2>2 DEF SetLink
    <2>5. \A s \in Slots : prev'[s] = IF s = right THEN leaf ELSE IF s = y THEN right ELSE prev[s]
        BY ONLY <1>0, f \in [Slots -> Slots \cup {NULL}], <1>6, <2>3, <2>4
    <2>6. QED
        BY <1>0, <2>1, <2>5
<1>8. /\ Up(k) # {} /\ Up(k) # Keys
    <2>1. k \in Int /\ k \in Up(k)
        BY <1>0, <1>b, KeysAssumption DEF Up
    <2>2. PICK x \in lo[leaf] : x < k
        BY <1>0 DEF Above
    <2>3. x \in Keys /\ x \in Int
        BY <1>0, <1>b, <1>1, <1>3, CutIs, KeysAssumption
    <2>4. x \notin Up(k)
        BY <1>0, <1>b, <2>1, <2>2, <2>3 DEF Up
    <2>5. QED
        BY <1>0, <1>b, <2>1, <2>3, <2>4
<1>9. y # NULL => /\ y \in live /\ level[y] = 0 /\ prev[y] = leaf /\ lo[y] = hi[leaf]
                  /\ owner[y] = owner[leaf]
    BY <1>0, <1>b, <1>4, <1>5
<1>10. ASSUME NEW s \in live', level[s] = 0
       PROVE  /\ next'[s] = NULL <=> hi2[s] = {}
              /\ next'[s] # NULL => /\ next'[s] \in live' /\ level[next'[s]] = 0
                                    /\ prev'[next'[s]] = s
                                    /\ lo2[next'[s]] = hi2[s]
                                    /\ ow2[next'[s]] = ow2[s]
              /\ prev'[s] = NULL <=> lo2[s] = Keys
              /\ prev'[s] # NULL => /\ prev'[s] \in live' /\ level[prev'[s]] = 0
                                    /\ next'[prev'[s]] = s
    <2>1. CASE s = right
        <3>1. next'[s] = y /\ prev'[s] = leaf /\ hi2[s] = hi[leaf] /\ lo2[s] = Up(k) /\ ow2[s] = owner[leaf]
            BY <1>0, <1>b, <1>3, <1>7, <2>1
        <3>2. y # NULL => y \in Slots /\ prev'[y] = right /\ lo2[y] = lo[y] /\ ow2[y] = owner[y]
            BY <1>0, <1>b, <1>6, <1>7
        <3>3. next'[leaf] = right
            BY <1>0, <1>b, <1>3, <1>7
        <3>4. QED
            BY <1>0, <1>b, <1>3, <1>4, <1>5, <1>8, <1>9, <2>1, <3>1, <3>2, <3>3
    <2>2. CASE s = leaf
        <3>1. /\ next'[s] = right /\ prev'[s] = prev[s] /\ hi2[s] = Up(k) /\ lo2[s] = lo[s]
              /\ ow2[s] = owner[leaf]
            BY <1>0, <1>b, <1>3, <1>6, <1>7, <2>2
        <3>2. prev'[right] = leaf /\ lo2[right] = Up(k) /\ ow2[right] = owner[leaf]
            BY <1>0, <1>b, <1>3, <1>7
        <3>3. prev[s] # NULL => prev[s] # leaf /\ prev[s] \in live /\ prev[s] \in Slots
                                /\ level[prev[s]] = 0 /\ next[prev[s]] = s
            BY <1>0, <1>b, <1>2, <1>4, <1>5, <1>6, <2>2
        <3>4. prev[s] # NULL => next'[prev[s]] = s
            BY ONLY <1>0, <1>b, <1>7, <2>2, <3>3
        <3>5. prev[s] = NULL <=> lo[s] = Keys
            BY <1>0, <1>b, <1>4, <2>2
        <3>6. QED
            BY <1>0, <1>b, <1>3, <1>8, <2>2, <3>1, <3>2, <3>3, <3>4, <3>5
    <2>3. CASE s # right /\ s # leaf
        <3>1. s \in live /\ s \in Slots
            BY <1>0, <1>b, <1>2, <2>3
        <3>2. /\ next[s] = NULL <=> hi[s] = {}
              /\ next[s] # NULL => /\ next[s] \in live /\ level[next[s]] = 0
                                   /\ prev[next[s]] = s
                                   /\ lo[next[s]] = hi[s]
                                   /\ owner[next[s]] = owner[s]
              /\ prev[s] = NULL <=> lo[s] = Keys
              /\ prev[s] # NULL => /\ prev[s] \in live /\ level[prev[s]] = 0
                                   /\ next[prev[s]] = s
            BY <1>0, <1>b, <1>4, <1>10, <3>1
        <3>3. /\ next'[s] = next[s] /\ prev'[s] = IF s = y THEN right ELSE prev[s]
              /\ hi2[s] = hi[s] /\ lo2[s] = lo[s] /\ ow2[s] = owner[s]
            BY <1>0, <1>b, <1>7, <2>3, <3>1
        <3>4. next[s] # NULL => /\ next[s] \in Slots /\ next[s] # y /\ next[s] # right
            BY <1>0, <1>b, <1>2, <1>9, <2>3, <3>2
        <3>5. next[s] # NULL => /\ prev'[next[s]] = s /\ lo2[next[s]] = lo[next[s]]
                                /\ ow2[next[s]] = owner[next[s]] /\ next[s] \in live'
            BY <1>0, <1>b, <1>7, <3>2, <3>4
        <3>6. CASE s = y
            <4>1. next'[right] = y /\ prev[s] = leaf
                BY <1>0, <1>b, <1>2, <1>3, <1>7, <1>9, <3>1, <3>6
            <4>2. QED
                BY <1>0, <1>b, <1>3, <3>2, <3>3, <3>5, <3>6, <4>1
        <3>7. CASE s # y
            <4>1. prev[s] # NULL => prev[s] # leaf /\ prev[s] # right /\ prev[s] \in Slots
                BY <1>0, <1>b, <1>2, <1>5, <3>2, <3>7
            <4>2. prev[s] # NULL => next'[prev[s]] = s
                BY <1>0, <1>b, <1>7, <3>2, <4>1
            <4>3. QED
                BY <1>0, <1>b, <3>2, <3>3, <3>5, <3>7, <4>2
        <3>8. QED
            BY <1>0, <1>b, <3>6, <3>7
    <2>4. QED
        BY <1>0, <1>b, <2>1, <2>2, <2>3
<1>11. LinksOrdered(ow2, lo2, hi2)'
    BY <1>0, <1>b, <1>10 DEF LinksOrdered
<1>12. NoStrayLinks'
    <2>1. SUFFICES ASSUME NEW s \in Slots, s \notin live' \/ level[s] # 0
                   PROVE  next'[s] = NULL /\ prev'[s] = NULL
        BY <1>0 DEF NoStrayLinks
    <2>2. s # right /\ s # leaf /\ s # y /\ (s \notin live \/ level[s] # 0)
        BY <1>0, <1>b, <1>2, <1>9, <2>1
    <2>3. next[s] = NULL /\ prev[s] = NULL
        BY <1>0, <1>b, <1>1, <2>2 DEF NoStrayLinks
    <2>4. QED
        BY <1>0, <1>b, <1>7, <2>2, <2>3
<1>13. QED
    BY <1>0, <1>b, <1>11, <1>12

LEMMA SplitLeafOrder ==
    ASSUME IInv, Ordered, op = Idle, NEW m \in Maps, root[m] # NULL,
           NEW k \in Keys, NEW v \in Values, NEW leaf, leaf = FindLeaf(m, k), ~IsAt(leaf, k),
           SplitLeaf(m, leaf, k, v)
    PROVE  Ordered'
<1>1. PICK owner, lo, hi : OrderState(owner, lo, hi)
    BY OrderFound
<1>2. /\ Local /\ Wiring(owner) /\ OpOwned(owner) /\ RootsOwned(owner)
      /\ lo \in [Slots -> Cuts] /\ hi \in [Slots -> Cuts]
      /\ EntriesCounted(owner) /\ NoStrayLinks
    BY <1>1 DEF OrderState
<1>3. PICK n \in Nat : \E i \in 1 .. n + 1 : NewKeyAt(owner, lo, hi, m, k, leaf, n, i)
    BY <1>1, NewKeyPlace
<1>4. PICK j \in 1 .. n + 1 :
         /\ leaf \in live /\ leaf \in Slots /\ level[leaf] = 0 /\ owner[leaf] = m
         /\ n <= M /\ keys[leaf] \in Seq(Keys) /\ Len(keys[leaf]) = n
         /\ InsertionIndex(keys[leaf], k) + 1 = j
         /\ LeafOrdered(InsertAt(keys[leaf], j, k), lo[leaf], hi[leaf])
         /\ ToSet(InsertAt(keys[leaf], j, k)) = ToSet(keys[leaf]) \cup {k}
         /\ k \notin KeysOf(owner, m)
    BY <1>3 DEF NewKeyAt
<1>5. PICK ks, x, right : /\ ks = InsertAt(keys[leaf], j, k)
                          /\ x = LeafSplitKey(ks) /\ right = Fresh
    OBVIOUS
<1>6. /\ ~HasRoom(Len(keys[leaf])) /\ RoomToSplit(m, leaf)
      /\ live' = live \cup {right}
      /\ keys' = [keys EXCEPT ![leaf] = LeafLeft(ks), ![right] = LeafRight(ks)]
      /\ next' = [next EXCEPT ![leaf] = right, ![right] = next[leaf]]
      /\ prev' = SetLink([prev EXCEPT ![right] = leaf], next[leaf], right)
      /\ op' = [pc |-> "overflow", map |-> m, node |-> leaf, right |-> right, key |-> x]
      /\ level' = level /\ parent' = parent /\ edges' = edges
      /\ root' = root /\ length' = length
    BY <1>4, <1>5 DEF SplitLeaf
<1>7. PICK z \in Nat : z = M + 1 /\ ks \in Seq(Keys) /\ Len(ks) = z
    <2>1. n = M
        BY <1>4, <1>6, MAssumption DEF HasRoom
    <2>2. InsertAt(keys[leaf], j, k) \in Seq(Keys) /\ Len(InsertAt(keys[leaf], j, k)) = n + 1
        <3>1. PICK q \in Seq(Keys) : q = keys[leaf] /\ Len(q) = n
            BY <1>4
        <3>2. n \in Nat /\ j \in 1 .. n + 1 /\ k \in Keys
            BY <1>4
        <3>3. InsertAt(q, j, k) \in Seq(Keys) /\ Len(InsertAt(q, j, k)) = n + 1
            BY ONLY q \in Seq(Keys), <3>1, <3>2, InsertAtSeq
        <3>4. QED
            BY <3>1, <3>3
    <2>3. n + 1 \in Nat
        OBVIOUS
    <2>4. QED
        BY ONLY <1>5, <2>1, <2>2, <2>3
<1>8. /\ x \in Keys /\ Above(lo[leaf], x) /\ x \notin hi[leaf]
      /\ LeafOrdered(LeafLeft(ks), lo[leaf], Up(x))
      /\ LeafOrdered(LeafRight(ks), Up(x), hi[leaf])
      /\ ToSet(LeafLeft(ks)) \cup ToSet(LeafRight(ks)) = ToSet(ks)
    <2>1. LeafOrdered(ks, lo[leaf], hi[leaf])
        BY <1>4, <1>5
    <2>2. QED
        BY <1>5, <1>7, <2>1, LeafSplit
<1>9. CanAlloc
    BY <1>2, <1>4, <1>6, RoomForRight
<1>10. /\ right \in Slots /\ right \notin live /\ keys[right] = <<>> /\ edges[right] = <<>>
       /\ parent[right] = NULL /\ level[right] = 0
       /\ \A q \in Maps : root[q] # right
       /\ \A s \in Slots : parent[s] # right
    BY <1>2, <1>5, <1>9, FreshData
<1>11. /\ live \subseteq Slots /\ owner \in [Slots -> Maps]
       /\ keys \in [Slots -> Seq(Keys)] /\ parent \in [Slots -> Slots \cup {NULL}]
       /\ root \in [Maps -> Slots \cup {NULL}] /\ length \in [Maps -> Int] /\ NULL \notin Slots
    BY <1>2, SlotsAssumption DEF Local, DataTypes, Wiring, Forest
<1>12. leaf # right
    BY <1>4, <1>10
<1>13. PICK ow2, lo2, hi2, far2 : /\ ow2 = [owner EXCEPT ![right] = m]
                                  /\ lo2 = [lo EXCEPT ![right] = Up(x)]
                                  /\ hi2 = [hi EXCEPT ![leaf] = Up(x), ![right] = hi[leaf]]
                                  /\ far2 = [hi2 EXCEPT ![leaf] = hi2[right]]
    OBVIOUS
<1>14. /\ ow2 \in [Slots -> Maps] /\ lo2 \in [Slots -> Cuts] /\ hi2 \in [Slots -> Cuts]
       /\ \A s \in Slots :
             /\ ow2[s] = IF s = right THEN owner[leaf] ELSE owner[s]
             /\ lo2[s] = IF s = right THEN Up(x) ELSE lo[s]
             /\ hi2[s] = IF s = leaf THEN Up(x) ELSE IF s = right THEN hi[leaf] ELSE hi[s]
             /\ far2[s] = IF s = right THEN hi[leaf] ELSE hi[s]
    <2>1. Up(x) \in Cuts /\ hi[leaf] \in Cuts
        BY <1>2, <1>4, <1>8 DEF Cuts
    <2>2. /\ ow2 \in [Slots -> Maps]
          /\ \A s \in Slots : ow2[s] = IF s = right THEN owner[leaf] ELSE owner[s]
        BY ONLY <1>4, <1>10, <1>11, <1>13, m \in Maps
    <2>3. /\ lo2 \in [Slots -> Cuts]
          /\ \A s \in Slots : lo2[s] = IF s = right THEN Up(x) ELSE lo[s]
        BY ONLY <1>2, <1>10, <1>13, <2>1
    <2>4. /\ hi2 \in [Slots -> Cuts]
          /\ \A s \in Slots :
                hi2[s] = IF s = leaf THEN Up(x) ELSE IF s = right THEN hi[leaf] ELSE hi[s]
        BY ONLY <1>2, <1>4, <1>10, <1>12, <1>13, <2>1
    <2>5. \A s \in Slots : far2[s] = IF s = right THEN hi[leaf] ELSE hi[s]
        <3>1. \A s \in Slots : far2[s] = IF s = leaf THEN hi2[right] ELSE hi2[s]
            BY ONLY <1>13, <2>4
        <3>2. QED
            BY ONLY <1>4, <1>10, <1>12, <2>4, <3>1
    <2>6. QED
        BY ONLY <2>2, <2>3, <2>4, <2>5
<1>15. /\ keys'[leaf] = LeafLeft(ks) /\ keys'[right] = LeafRight(ks)
       /\ \A s \in Slots \ {leaf, right} : keys'[s] = keys[s]
    BY ONLY <1>4, <1>6, <1>10, <1>11, <1>12
<1>16. /\ op.pc = "idle" /\ op.pc # "overflow"
       /\ op'.pc = "overflow" /\ op'.map = m /\ op'.node = leaf /\ op'.right = right /\ op'.key = x
    BY <1>6 DEF Idle
<1>17. /\ \A q \in Maps : Uncounted(q) = 0
       /\ \A s \in live : /\ NodeOrdered(level[s], keys[s], edges[s], lo[s], hi[s], lo, hi)
                          /\ parent[s] = NULL => lo[s] = Keys /\ hi[s] = {}
    BY <1>1, <1>16, CalmState
<1>18. Far(hi2)' = far2 /\ \A s \in Slots : InPlace(s)' <=> s # right
    BY <1>13, <1>16 DEF Far, InPlace
<1>19. NodesOrdered(lo2, hi2)'
    <2>1. ASSUME NEW s \in live'
          PROVE  /\ NodeOrdered(level'[s], keys'[s], edges'[s], lo2[s], hi2[s], lo2, far2)
                 /\ parent'[s] = NULL /\ s # right => lo2[s] = Keys /\ far2[s] = {}
        <3>1. s \in Slots /\ (s \in live \/ s = right)
            BY ONLY <1>6, <1>10, <1>11, <2>1
        <3>2. CASE s = leaf \/ s = right
            <4>1. LeafOrdered(keys'[s], lo2[s], hi2[s]) /\ level'[s] = 0
                BY ONLY <1>4, <1>6, <1>8, <1>10, <1>12, <1>14, <1>15, <3>1, <3>2
            <4>2. NodeOrdered(level'[s], keys'[s], edges'[s], lo2[s], hi2[s], lo2, far2)
                BY ONLY <4>1 DEF NodeOrdered
            <4>3. parent'[s] = NULL /\ s # right => lo2[s] = Keys /\ far2[s] = {}
                BY <1>4, <1>6, <1>14, <1>17, <3>1, <3>2
            <4>4. QED
                BY ONLY <4>2, <4>3
        <3>3. CASE s # leaf /\ s # right
            <4>1. NodeOrdered(level[s], keys[s], edges[s], lo[s], hi[s], lo, hi)
                BY <1>17, <3>1, <3>3
            <4>2. \A c \in Slots : parent[c] = s => lo2[c] = lo[c] /\ far2[c] = hi[c]
                <5>1. \A c \in Slots : parent[c] = s => c # right
                    BY ONLY <1>10, <1>11, <3>1
                <5>2. QED
                    BY ONLY <1>14, <5>1
            <4>3. Local /\ Wiring(owner) /\ s \in live
                BY <1>2, <3>1, <3>3
            <4>4. NodeOrdered(level[s], keys[s], edges[s], lo[s], hi[s], lo2, far2)
                BY ONLY <4>1, <4>2, <4>3, NodeKept
            <4>5. /\ level'[s] = level[s] /\ keys'[s] = keys[s] /\ edges'[s] = edges[s]
                  /\ lo2[s] = lo[s] /\ hi2[s] = hi[s] /\ far2[s] = hi[s] /\ parent'[s] = parent[s]
                BY ONLY <1>6, <1>14, <1>15, <3>1, <3>3
            <4>6. QED
                BY <1>17, <4>3, <4>4, <4>5
        <3>4. QED
            BY ONLY <3>2, <3>3
    <2>2. \A s \in live' : InPlace(s)' => s # right
        BY ONLY <1>6, <1>10, <1>11, <1>18
    <2>3. \A s \in live' :
             /\ NodeOrdered(level[s], keys[s], edges[s], lo2[s], hi2[s], lo2, Far(hi2))'
             /\ parent'[s] = NULL /\ InPlace(s)' => lo2[s] = Keys /\ Far(hi2)'[s] = {}
        BY <1>18, <2>1, <2>2
    <2>4. QED
        BY ONLY <2>3 DEF NodesOrdered
<1>20. HalvesOrdered(lo2, hi2)'
    <2>1. /\ hi2[leaf] = Up(x) /\ lo2[right] = Up(x) /\ lo2[leaf] = lo[leaf] /\ hi2[right] = hi[leaf]
        BY ONLY <1>4, <1>10, <1>12, <1>14
    <2>2. Separates(x, leaf, right, lo2, hi2)
        BY ONLY <1>8, <2>1 DEF Separates
    <2>3. QED
        BY ONLY <1>16, <2>2 DEF HalvesOrdered
<1>21. OwnedBy(ow2)'
    <2>1. ASSUME NEW q \in Maps, root'[q] # NULL
          PROVE  ow2[root'[q]] = q
        <3>1. root[q] \in Slots /\ root[q] # right /\ root'[q] = root[q] /\ owner[root[q]] = q
            BY <1>2, <1>6, <1>10, <1>11, <2>1 DEF RootsOwned
        <3>2. QED
            BY ONLY <1>14, <3>1
    <2>2. ASSUME NEW s \in live', parent'[s] # NULL
          PROVE  ow2[s] = ow2[parent'[s]]
        <3>1. s \in Slots /\ parent'[s] = parent[s] /\ parent[s] # NULL /\ s # right
            BY <1>6, <1>10, <1>11, <2>2
        <3>2. parent[s] \in Slots /\ parent[s] # right /\ owner[s] = owner[parent[s]]
            BY <1>2, <1>10, <3>1, ParentOf
        <3>3. QED
            BY ONLY <1>14, <3>1, <3>2
    <2>3. ow2[leaf] = m /\ ow2[right] = m
        BY ONLY <1>4, <1>10, <1>12, <1>14
    <2>4. QED
        BY ONLY <1>16, <2>1, <2>2, <2>3 DEF OwnedBy
<1>22. LinksOrdered(ow2, lo2, hi2)' /\ NoStrayLinks'
    <2>1. \A s \in Slots : /\ ow2[s] = IF s = right THEN owner[leaf] ELSE owner[s]
                           /\ lo2[s] = IF s = right THEN Up(x) ELSE lo[s]
                           /\ hi2[s] = IF s = leaf THEN Up(x)
                                       ELSE IF s = right THEN hi[leaf] ELSE hi[s]
        BY ONLY <1>14
    <2>2. QED
        <3>1. SplitOff(owner, lo, hi, leaf, right, x, ow2, lo2, hi2)
            BY ONLY <1>4, <1>6, <1>8, <1>10, <2>1 DEF SplitOff
        <3>2. QED
            BY ONLY <1>1, <3>1, SplitLinks
<1>23. EntriesCounted(ow2)'
    <2>1. LeafKeys(right) = {} /\ level'[leaf] = 0 /\ level'[right] = 0
        BY <1>4, <1>6, <1>10 DEF LeafKeys, ToSet
    <2>2. PICK X : X = {k}
        OBVIOUS
    <2>3. LeafKeys(leaf)' \cup LeafKeys(right)' = (LeafKeys(leaf) \cup LeafKeys(right)) \cup X
        <3>1. /\ LeafKeys(leaf)' = ToSet(LeafLeft(ks)) /\ LeafKeys(right)' = ToSet(LeafRight(ks))
              /\ LeafKeys(leaf) = ToSet(keys[leaf])
            BY ONLY <1>4, <1>15, <2>1 DEF LeafKeys
        <3>2. QED
            BY ONLY <1>4, <1>5, <1>8, <2>1, <2>2, <3>1
    <2>4. \A s \in Slots \ {leaf, right} : /\ LeafKeys(s)' = LeafKeys(s)
                                           /\ ow2[s] = owner[s] \/ LeafKeys(s) = {}
        <3>1. \A s \in Slots \ {leaf, right} : LeafKeys(s)' = LeafKeys(s)
            <4>1. \A s \in Slots \ {leaf, right} : keys'[s] = keys[s] /\ level'[s] = level[s]
                BY ONLY <1>6, <1>15
            <4>2. QED
                BY ONLY <4>1 DEF LeafKeys
        <3>2. \A s \in Slots \ {leaf, right} : ow2[s] = owner[s]
            BY ONLY <1>14
        <3>3. QED
            BY ONLY <3>1, <3>2
    <2>5. /\ KeysOf(ow2, m)' = KeysOf(owner, m) \cup X
          /\ \A q \in Maps \ {m} : KeysOf(ow2, q)' = KeysOf(owner, q)
        <3>1. /\ leaf \in Slots /\ ow2[leaf] = m /\ owner[leaf] = m
              /\ right \in Slots /\ ow2[right] = m /\ LeafKeys(right) = {}
            BY ONLY <1>4, <1>10, <1>12, <1>14, <2>1
        <3>2. m \in Maps /\ leaf \in Slots /\ right \in Slots
            BY <3>1
        <3>3. TwoLeavesGain(owner, ow2, m, leaf, right, X)
            BY ONLY <2>3, <2>4, <3>1 DEF TwoLeavesGain
        <3>4. QED
            BY ONLY <3>2, <3>3, KeysChanged
    <2>6. \A q \in Maps : Uncounted(q)' = IF q = m THEN 1 ELSE 0
        BY ONLY <1>16 DEF Uncounted
    <2>7. length'[m] + Uncounted(m)' = length[m] + Uncounted(m) + 1
        BY <1>6, <1>11, <1>17, <2>6
    <2>8. \A q \in Maps \ {m} : length'[q] + Uncounted(q)' = length[q] + Uncounted(q)
        BY <1>6, <1>17, <2>6
    <2>9. QED
        BY <1>2, <1>4, <1>11, <2>2, <2>5, <2>7, <2>8, CountMore
<1>24. QED
    BY ONLY <1>14, <1>19, <1>20, <1>21, <1>22, <1>23, OrderGiven

-----------------------------------------------------------------------------
(***************************************************************************)
(* Every step.                                                             *)
(***************************************************************************)
LEMMA InsertBeforeOrder ==
    ASSUME IInv, Ordered, NEW m \in Maps, NEW k \in Keys, NEW v \in Values, Found(m),
           insert_before(m, FindLeaf(m, k), k, v)
    PROVE  Ordered'
<1>1. op = Idle /\ root[m] # NULL
    BY DEF Found
<1>2. PICK leaf : leaf = FindLeaf(m, k)
    OBVIOUS
<1>3. ~IsAt(leaf, k) /\ (InsertIntoLeaf(m, leaf, k, v) \/ SplitLeaf(m, leaf, k, v))
    BY <1>2 DEF insert_before
<1>4. QED
    BY <1>1, <1>2, <1>3, InsertIntoLeafOrder, SplitLeafOrder

LEMMA InsertOrder ==
    ASSUME IInv, Ordered, NEW m \in Maps, NEW k \in Keys, NEW v \in Values,
           insert(m, k, v) \/ get_or_insert(m, k, v)
    PROVE  Ordered'
<1>1. CASE op = Idle /\ insert_root(m, k, v)
    BY <1>1, InsertRootOrder
<1>2. CASE Found(m) /\ insert_before(m, FindLeaf(m, k), k, v)
    BY <1>2, InsertBeforeOrder
<1>3. CASE Found(m) /\ WriteVal(FindLeaf(m, k), k, v)
    <2>1. /\ op' = op /\ live' = live /\ level' = level /\ parent' = parent
          /\ keys' = keys /\ edges' = edges /\ prev' = prev /\ next' = next
          /\ root' = root /\ length' = length
        BY <1>3 DEF WriteVal
    <2>2. QED
        BY <2>1, WriteOrder
<1>4. QED
    BY <1>1, <1>2, <1>3 DEF insert, get_or_insert

LEMMA RemoveOrder ==
    ASSUME IInv, Ordered, NEW m \in Maps, NEW k \in Keys, remove_key_value(m, k)
    PROVE  Ordered'
<1>1. PICK owner, lo, hi : OrderState(owner, lo, hi)
    BY OrderFound
<1>2. /\ Local /\ Wiring(owner) /\ RootsOwned(owner) /\ op = Idle /\ root[m] # NULL
    BY <1>1 DEF OrderState, remove_key_value, Found
<1>3. PICK leaf \in live : /\ leaf = FindLeaf(m, k)
                           /\ level[leaf] = 0 /\ owner[leaf] = m
                           /\ leaf = root[m] \/ parent[leaf] # NULL
    BY <1>2, FindLeafEnds
<1>4. k \in ToSet(keys[leaf]) /\ RemoveVal(m, leaf, InsertionIndex(keys[leaf], k))
    BY <1>3 DEF remove_key_value, IsAt
<1>5. PICK n \in Nat : keys[leaf] \in Seq(Keys) /\ Len(keys[leaf]) = n
    BY <1>2, <1>3, LeafData
<1>6. InsertionIndex(keys[leaf], k) \in 0 .. n - 1
    <2>1. k \in Int
        BY KeysAssumption
    <2>2. QED
        BY <1>4, <1>5, <2>1, IndexBounds
<1>7. PICK idx \in 0 .. n - 1 : idx = InsertionIndex(keys[leaf], k)
    BY <1>6
<1>8. RemoveVal(m, leaf, idx)
    BY <1>4, <1>7
<1>9. QED
    BY <1>1, <1>2, <1>3, <1>5, <1>7, <1>8, RemoveValOrder

LEMMA PopOrder ==
    ASSUME IInv, Ordered, NEW m \in Maps, pop_first(m) \/ pop_last(m)
    PROVE  Ordered'
<1>1. PICK owner, lo, hi : OrderState(owner, lo, hi)
    BY OrderFound
<1>2. /\ Local /\ Wiring(owner) /\ RootsOwned(owner) /\ op = Idle /\ root[m] # NULL
    BY <1>1 DEF OrderState, pop_first, pop_last, Found
<1>3. PICK leaf \in live : /\ level[leaf] = 0 /\ owner[leaf] = m
                           /\ leaf = root[m] \/ parent[leaf] # NULL
                           /\ RemoveVal(m, leaf, 0) \/ RemoveVal(m, leaf, Len(keys[leaf]) - 1)
    <2>1. CASE pop_first(m)
        BY <1>2, <2>1, FirstLeafEnds DEF pop_first
    <2>2. CASE pop_last(m)
        BY <1>2, <2>2, LastLeafEnds DEF pop_last
    <2>3. QED
        BY <2>1, <2>2
<1>4. PICK n \in Nat : n >= 1 /\ Len(keys[leaf]) = n
    BY <1>2, <1>3, LeafData
<1>5. PICK idx \in 0 .. n - 1 : RemoveVal(m, leaf, idx)
    <2>1. 0 \in 0 .. n - 1 /\ Len(keys[leaf]) - 1 \in 0 .. n - 1
        BY <1>4
    <2>2. QED
        BY <1>3, <2>1
<1>6. QED
    BY <1>1, <1>2, <1>3, <1>4, <1>5, RemoveValOrder

LEMMA CallOrder ==
    ASSUME IInv, Ordered, Call
    PROVE  Ordered'
<1>1. PICK m \in Maps :
        \/ \E k \in Keys, v \in Values :
              \/ insert(m, k, v)
              \/ get_or_insert(m, k, v)
              \/ \E outcome \in {"some", "none", "panic"} :
                    update_and_return(m, k, v, outcome)
        \/ \E k \in Keys : remove_key_value(m, k)
        \/ pop_first(m)
        \/ pop_last(m)
        \/ clear(m)
        \/ drop_and_new_in(m)
    BY DEF Call, CallOn
<1>2. CASE \E k \in Keys, v \in Values : insert(m, k, v) \/ get_or_insert(m, k, v)
    BY <1>2, InsertOrder
<1>3. CASE \E k \in Keys, v \in Values : \E outcome \in {"some", "none", "panic"} :
              update_and_return(m, k, v, outcome)
    <2>1. PICK k \in Keys, v \in Values, outcome \in {"some", "none", "panic"} :
            update_and_return(m, k, v, outcome)
        BY <1>3
    <2>2. insert(m, k, v) \/ remove_key_value(m, k)
        BY <2>1 DEF update_and_return
    <2>3. QED
        BY <2>2, InsertOrder, RemoveOrder
<1>4. CASE \E k \in Keys : remove_key_value(m, k)
    BY <1>4, RemoveOrder
<1>5. CASE pop_first(m) \/ pop_last(m)
    BY <1>5, PopOrder
<1>6. CASE clear(m) \/ drop_and_new_in(m)
    <2>1. /\ op = Idle /\ DropNodes(m) /\ root' = [root EXCEPT ![m] = NULL]
          /\ length' = [length EXCEPT ![m] = 0] /\ op' = op
        BY <1>6 DEF clear, drop_and_new_in
    <2>2. QED
        BY <2>1, DropNodesOrder
<1>7. QED
    BY <1>1, <1>2, <1>3, <1>4, <1>5, <1>6

LEMMA OverflowStepOrder ==
    ASSUME IInv, Ordered, OverflowStep
    PROVE  Ordered'
    BY GrowRootOrder, AbsorbIntoParentOrder, SplitParentOrder DEF OverflowStep

LEMMA UnderflowStepOrder ==
    ASSUME IInv, Ordered, UnderflowStep
    PROVE  Ordered'
    BY RootLeafUnderflowOrder, RootInternalStaysOrder, ShrinkRootOrder,
       BorrowPrevLeafOrder, BorrowPrevInternalOrder,
       BorrowNextLeafOrder, BorrowNextInternalOrder,
       MergePrevLeafOrder, MergePrevInternalOrder,
       MergeNextLeafOrder, MergeNextInternalOrder
    DEF UnderflowStep

LEMMA NextOrder ==
    ASSUME IInv, Ordered, [Next]_vars
    PROVE  Ordered'
<1>1. CASE Call
    BY <1>1, CallOrder
<1>2. CASE OverflowStep
    BY <1>2, OverflowStepOrder
<1>3. CASE UnderflowStep
    BY <1>3, UnderflowStepOrder
<1>4. CASE UNCHANGED vars
    <2>1. /\ op' = op /\ live' = live /\ level' = level /\ parent' = parent
          /\ keys' = keys /\ edges' = edges /\ prev' = prev /\ next' = next
          /\ root' = root /\ length' = length
        BY <1>4 DEF vars
    <2>2. QED
        BY <2>1, WriteOrder
<1>5. QED
    BY <1>1, <1>2, <1>3, <1>4 DEF Next

\* No nodes, and no entries
LEMMA InitOrder ==
    ASSUME Init
    PROVE  Ordered
<1>1. /\ live = {} /\ op = Idle
      /\ level = [s \in Slots |-> 0] /\ keys = [s \in Slots |-> <<>>]
      /\ prev = [s \in Slots |-> NULL] /\ next = [s \in Slots |-> NULL]
      /\ root = [m \in Maps |-> NULL] /\ length = [m \in Maps |-> 0]
    BY DEF Init
<1>2. NoStrayLinks
    BY <1>1 DEF NoStrayLinks
<1>3. PICK a \in Maps : TRUE
    BY MapsAssumption
<1>4. PICK owner \in [Slots -> Maps], cut \in [Slots -> Cuts] : TRUE
    <2>1. [s \in Slots |-> a] \in [Slots -> Maps]
        OBVIOUS
    <2>2. [s \in Slots |-> {}] \in [Slots -> Cuts]
        BY DEF Cuts
    <2>3. QED
        BY <2>1, <2>2
<1>5. OwnedBy(owner)
    BY <1>1 DEF OwnedBy, Idle
<1>6. NodesOrdered(cut, cut) /\ HalvesOrdered(cut, cut) /\ LinksOrdered(owner, cut, cut)
    BY <1>1 DEF NodesOrdered, HalvesOrdered, LinksOrdered, Idle
<1>7. EntriesCounted(owner)
    <2>1. \A s \in Slots : LeafKeys(s) = {}
        BY <1>1 DEF LeafKeys, ToSet
    <2>2. \A m \in Maps : KeysOf(owner, m) = {}
        BY <2>1 DEF KeysOf
    <2>3. \A m \in Maps : length[m] + Uncounted(m) = 0
        BY <1>1 DEF Uncounted, Idle
    <2>4. QED
        BY <2>2, <2>3, FS_EmptySet DEF EntriesCounted
<1>8. QED
    BY <1>2, <1>5, <1>6, <1>7 DEF Ordered, OrderedBy

-----------------------------------------------------------------------------
(***************************************************************************)
(* What a step on the map `a` leaves as it was: the other maps, and every  *)
(* node that is not in the tree of `a`.                                    *)
(***************************************************************************)
LeavesOthers(owner, a) ==
    /\ \A s \in live : owner[s] # a => NodeAt(s)' = NodeAt(s)
    /\ \A m \in Maps : m # a => /\ root'[m] = root[m] /\ height'[m] = height[m]
                                /\ length'[m] = length[m]

\* A node of another map is neither x nor a child of x.
LEMMA Outside ==
    ASSUME NEW owner, Wiring(owner), NEW s \in live, NEW x \in Slots, owner[s] # owner[x]
    PROVE  /\ s \in Slots /\ s # x
           /\ s \notin ToSet(edges[x])
           /\ \A i : s \notin EdgesFrom(edges[x], i)
           /\ \A i \in DOMAIN edges[x] : s # edges[x][i]
<1>1. s \in Slots /\ s # x
    BY DEF Wiring, Forest
<1>2. \A i \in DOMAIN edges[x] : s # edges[x][i]
    BY ForestChild DEF Wiring
<1>3. QED
    BY <1>1, <1>2 DEF ToSet, EdgesFrom

\* The variables of the nodes are functions on the slots.
LEMMA Domains ==
    ASSUME Local, NEW owner, Wiring(owner)
    PROVE  /\ DOMAIN level = Slots /\ DOMAIN parent = Slots /\ DOMAIN parent_idx = Slots
           /\ DOMAIN keys = Slots /\ DOMAIN vals = Slots /\ DOMAIN edges = Slots
           /\ DOMAIN prev = Slots /\ DOMAIN next = Slots
<1>1. /\ DOMAIN level = Slots /\ DOMAIN parent = Slots /\ DOMAIN parent_idx = Slots
      /\ DOMAIN edges = Slots
    BY DEF Wiring, Forest
<1>2. DOMAIN keys = Slots /\ DOMAIN vals = Slots /\ DOMAIN prev = Slots /\ DOMAIN next = Slots
    BY DEF Local, DataTypes
<1>3. QED
    BY <1>1, <1>2

\* A leaf that a leaf is linked with is in the same map.
LEMMA LinkedKin ==
    ASSUME NEW owner, NEW lo, NEW hi, OrderState(owner, lo, hi), NEW s \in live, level[s] = 0
    PROVE  /\ next[s] \in Slots => owner[next[s]] = owner[s]
           /\ prev[s] \in Slots => owner[prev[s]] = owner[s]
<1>1. LinksOrdered(owner, lo, hi)
    BY DEF OrderState
<1>2. next[s] # NULL => owner[next[s]] = owner[s]
    BY <1>1 DEF LinksOrdered
<1>3. ASSUME prev[s] # NULL
      PROVE  owner[prev[s]] = owner[s]
    <2>1. prev[s] \in live /\ level[prev[s]] = 0 /\ next[prev[s]] = s
        BY <1>1, <1>3 DEF LinksOrdered
    <2>2. s # NULL
        BY SlotsAssumption DEF OrderState, Wiring, Forest
    <2>3. QED
        BY <1>1, <2>1, <2>2 DEF LinksOrdered
<1>4. QED
    BY <1>2, <1>3, SlotsAssumption

-----------------------------------------------------------------------------
(***************************************************************************)
(* The loop of insert_before.                                              *)
(***************************************************************************)

LEMMA GrowRootFrame ==
    ASSUME NEW owner, NEW lo, NEW hi, OrderState(owner, lo, hi), GrowRoot
    PROVE  LeavesOthers(owner, op.map)
<1>1. /\ Local /\ Wiring(owner) /\ OpOwned(owner)
    BY DEF OrderState
<1>2. /\ op.pc = "overflow" /\ CanAlloc
      /\ level' = [level EXCEPT ![Fresh] = height[op.map] + 1]
      /\ keys' = [keys EXCEPT ![Fresh] = <<op.key>>]
      /\ edges' = [edges EXCEPT ![Fresh] = <<op.node, op.right>>]
      /\ parent' = [parent EXCEPT ![op.node] = Fresh, ![op.right] = Fresh]
      /\ parent_idx' = [parent_idx EXCEPT ![op.node] = 0, ![op.right] = 1]
      /\ root' = [root EXCEPT ![op.map] = Fresh]
      /\ height' = [height EXCEPT ![op.map] = @ + 1]
      /\ length' = [length EXCEPT ![op.map] = @ + 1]
      /\ vals' = vals /\ prev' = prev /\ next' = next
    BY DEF GrowRoot
<1>3. /\ op.node \in Slots /\ op.right \in Slots
      /\ owner[op.node] = op.map /\ owner[op.right] = op.map
    BY <1>1, <1>2, OverflowData
<1>4. Fresh \notin live
    BY <1>1, <1>2, FreshData
<1>5. ASSUME NEW s \in live, owner[s] # op.map
      PROVE  NodeAt(s)' = NodeAt(s)
    <2>1. s \in Slots /\ s # op.node /\ s # op.right /\ s # Fresh
        BY <1>1, <1>3, <1>4, <1>5 DEF Wiring, Forest
    <2>2. level'[s] = level[s] /\ keys'[s] = keys[s] /\ edges'[s] = edges[s]
        BY <1>1, <1>2, <2>1, Domains
    <2>3. parent'[s] = parent[s] /\ parent_idx'[s] = parent_idx[s]
        BY <1>1, <1>2, <2>1, Domains
    <2>4. QED
        BY <1>2, <2>2, <2>3 DEF NodeAt
<1>6. \A m \in Maps : m # op.map =>
          root'[m] = root[m] /\ height'[m] = height[m] /\ length'[m] = length[m]
    BY <1>2
<1>7. QED
    BY <1>5, <1>6 DEF LeavesOthers

\* The slots that the loop of insert_before is at
LEMMA OverflowKin ==
    ASSUME NEW owner, NEW lo, NEW hi, OrderState(owner, lo, hi),
           op.pc = "overflow", parent[op.node] # NULL
    PROVE  /\ op.node \in Slots /\ op.right \in Slots /\ parent[op.node] \in Slots
           /\ owner[op.node] = op.map /\ owner[op.right] = op.map
           /\ owner[parent[op.node]] = op.map
<1>1. /\ Local /\ Wiring(owner) /\ OpOwned(owner)
    BY DEF OrderState
<1>2. /\ op.node \in Slots /\ op.right \in Slots
      /\ owner[op.node] = op.map /\ owner[op.right] = op.map
    BY <1>1, OverflowData
<1>3. QED
    BY <1>1, <1>2, ForestParent DEF Wiring

LEMMA AbsorbIntoParentFrame ==
    ASSUME NEW owner, NEW lo, NEW hi, OrderState(owner, lo, hi), AbsorbIntoParent
    PROVE  LeavesOthers(owner, op.map)
<1>1. Wiring(owner)
    BY DEF OrderState
<1>2. PICK p, idx : p = parent[op.node] /\ idx = parent_idx[op.node]
    OBVIOUS
<1>3. /\ op.pc = "overflow" /\ p # NULL
      /\ keys' = [keys EXCEPT ![p] = InsertAt(@, idx + 1, op.key)]
      /\ edges' = [edges EXCEPT ![p] = InsertAt(@, idx + 2, op.right)]
      /\ parent' = [parent EXCEPT ![op.right] = p]
      /\ parent_idx' = [Shifted(parent_idx, EdgesFrom(edges[p], idx + 1), 1)
                           EXCEPT ![op.right] = idx + 1]
      /\ length' = [length EXCEPT ![op.map] = @ + 1]
      /\ level' = level /\ vals' = vals /\ prev' = prev /\ next' = next
      /\ root' = root /\ height' = height
    BY <1>2 DEF AbsorbIntoParent
<1>4. /\ op.right \in Slots /\ p \in Slots /\ owner[op.right] = op.map /\ owner[p] = op.map
    BY <1>2, <1>3, OverflowKin
<1>5. DOMAIN parent_idx = Slots
    BY <1>1 DEF Wiring, Forest
<1>6. ASSUME NEW s \in live, owner[s] # op.map
      PROVE  NodeAt(s)' = NodeAt(s)
    <2>1. s \in Slots /\ s # op.right /\ s # p /\ s \notin EdgesFrom(edges[p], idx + 1)
        BY <1>1, <1>4, <1>6, Outside
    <2>2. parent_idx'[s] = parent_idx[s]
        BY <1>3, <1>5, <2>1 DEF Shifted
    <2>3. keys'[s] = keys[s] /\ edges'[s] = edges[s] /\ parent'[s] = parent[s]
        BY <1>3, <2>1
    <2>4. QED
        BY <1>3, <2>2, <2>3 DEF NodeAt
<1>7. \A m \in Maps : m # op.map =>
          root'[m] = root[m] /\ height'[m] = height[m] /\ length'[m] = length[m]
    BY <1>3
<1>8. QED
    BY <1>6, <1>7 DEF LeavesOthers

LEMMA SplitParentFrame ==
    ASSUME NEW owner, NEW lo, NEW hi, OrderState(owner, lo, hi), SplitParent
    PROVE  LeavesOthers(owner, op.map)
<1>1. Local /\ Wiring(owner)
    BY DEF OrderState
<1>2. PICK p, idx, es, ks, shifted :
          /\ p = parent[op.node] /\ idx = parent_idx[op.node]
          /\ es = InsertAt(edges[p], idx + 2, op.right)
          /\ ks = InsertAt(keys[p], idx + 1, op.key)
          /\ shifted = [Shifted(parent_idx, EdgesFrom(edges[p], idx + 1), 1)
                           EXCEPT ![op.right] = idx + 1]
    OBVIOUS
<1>3. /\ op.pc = "overflow" /\ p # NULL /\ CanAlloc
      /\ level' = [level EXCEPT ![Fresh] = level[p]]
      /\ keys' = [keys EXCEPT ![p] = InternalLeft(ks), ![Fresh] = InternalRight(ks)]
      /\ edges' = [edges EXCEPT ![p] = EdgesLeft(es), ![Fresh] = EdgesRight(es)]
      /\ parent' = [c \in Slots |-> IF c \in ToSet(EdgesRight(es)) THEN Fresh
                                    ELSE IF c = op.right THEN p ELSE parent[c]]
      /\ parent_idx' = Shifted(shifted, ToSet(EdgesRight(es)), -(Len(EdgesLeft(es))))
      /\ vals' = vals /\ prev' = prev /\ next' = next
      /\ root' = root /\ height' = height /\ length' = length
    BY <1>2 DEF SplitParent
<1>4. /\ op.right \in Slots /\ p \in Slots /\ owner[op.right] = op.map /\ owner[p] = op.map
    BY <1>2, <1>3, OverflowKin
<1>5. DOMAIN parent_idx = Slots /\ edges[p] \in Seq(Slots)
    BY <1>1, <1>4 DEF Wiring, Forest
<1>6. Fresh \notin live
    BY <1>1, <1>3, FreshData
<1>7. \A c \in ToSet(EdgesRight(es)) : c = op.right \/ c \in ToSet(edges[p])
    <2>1. PICK q : q = edges[p] /\ q \in Seq(Slots)
        BY <1>5
    <2>2. PICK n \in Nat, i \in Nat : Len(q) = n /\ i \in 1 .. n /\ idx = i - 1
        BY <1>1, <1>2, <1>3, <2>1, ForestParent, OverflowKin DEF Wiring
    <2>3. /\ es = [j \in 1 .. n + 1 |-> IF j < i + 1 THEN q[j]
                         ELSE IF j = i + 1 THEN op.right ELSE q[j - 1]]
          /\ es \in Seq(Slots) /\ Len(es) = n + 1
        <3>1. PICK x \in 1 .. n + 1 : x = i + 1 /\ x = idx + 2
            BY <2>2
        <3>2. es = InsertAt(q, x, op.right)
            BY <1>2, <2>1, <3>1
        <3>3. q \in Seq(Slots) /\ op.right \in Slots /\ Len(q) = n
            BY <1>4, <2>1, <2>2
        <3>4. es \in Seq(Slots) /\ Len(es) = n + 1
            BY <3>2, <3>3, InsertAtSeq
        <3>5. es = [j \in 1 .. n + 1 |-> IF j < x THEN q[j]
                         ELSE IF j = x THEN op.right ELSE q[j - 1]]
            BY <3>2, <3>3, InsertAtDef
        <3>6. QED
            BY <3>1, <3>4, <3>5
    <2>4. \A j \in DOMAIN es : es[j] = op.right \/ \E k \in DOMAIN q : es[j] = q[k]
        <3>1. SUFFICES ASSUME NEW j \in 1 .. n + 1, es[j] # op.right
                       PROVE  \E k \in 1 .. n : es[j] = q[k]
            BY <2>1, <2>2, <2>3
        <3>2. CASE j < i + 1
            <4>1. es[j] = q[j] /\ j \in 1 .. n
                BY <2>2, <2>3, <3>2
            <4>2. QED
                BY <4>1
        <3>3. CASE ~(j < i + 1)
            <4>1. es[j] = q[j - 1] /\ j - 1 \in 1 .. n
                BY <2>2, <2>3, <3>1, <3>3
            <4>2. QED
                BY <4>1
        <3>4. QED
            BY <3>2, <3>3
    <2>5. ASSUME NEW a \in Nat, a >= 1
          PROVE  \A k \in DOMAIN SubSeq(es, a, n + 1) :
                    \E j \in DOMAIN es : SubSeq(es, a, n + 1)[k] = es[j]
        <3>1. SUFFICES ASSUME NEW k \in DOMAIN SubSeq(es, a, n + 1)
                       PROVE  \E j \in DOMAIN es : SubSeq(es, a, n + 1)[k] = es[j]
            OBVIOUS
        <3>2. /\ k \in 1 .. (n + 1) - a + 1
              /\ SubSeq(es, a, n + 1)[k] = es[a + k - 1]
            BY <2>3, <2>5
        <3>3. a + k - 1 \in DOMAIN es
            BY <2>3, <2>5, <3>2
        <3>4. QED
            BY <3>2, <3>3
    <2>6. PICK a \in Nat : a >= 1 /\ EdgesRight(es) = SubSeq(es, a, n + 1)
        <3>1. ((n + 1) - 2) \div 2 + 2 \in Nat /\ ((n + 1) - 2) \div 2 + 2 >= 1
            BY <2>2
        <3>2. EdgesRight(es) = SubSeq(es, ((n + 1) - 2) \div 2 + 2, n + 1)
            BY <2>3 DEF EdgesRight
        <3>3. QED
            BY <3>1, <3>2
    <2>7. QED
        BY <2>1, <2>4, <2>5, <2>6 DEF ToSet
<1>8. ASSUME NEW s \in live, owner[s] # op.map
      PROVE  NodeAt(s)' = NodeAt(s)
    <2>1. /\ s \in Slots /\ s # op.right /\ s # p /\ s # Fresh
          /\ s \notin EdgesFrom(edges[p], idx + 1) /\ s \notin ToSet(EdgesRight(es))
        BY <1>1, <1>4, <1>6, <1>7, <1>8, Outside
    <2>2. parent_idx'[s] = parent_idx[s]
        <3>1. shifted[s] = parent_idx[s] /\ s \in DOMAIN shifted
            BY <1>2, <1>5, <2>1 DEF Shifted
        <3>2. QED
            BY <1>3, <3>1, <2>1 DEF Shifted
    <2>3. keys'[s] = keys[s] /\ edges'[s] = edges[s] /\ level'[s] = level[s]
        BY <1>1, <1>3, <2>1, Domains
    <2>4. parent'[s] = parent[s]
        BY <1>3, <2>1
    <2>5. QED
        BY <1>3, <2>2, <2>3, <2>4 DEF NodeAt
<1>9. QED
    BY <1>3, <1>8 DEF LeavesOthers
-----------------------------------------------------------------------------
(***************************************************************************)
(* The loop of post_removal.                                               *)
(***************************************************************************)

\* The node that the loop is at, its parent and a sibling are of one map.
LEMMA PrevKin ==
    ASSUME NEW owner, NEW lo, NEW hi, OrderState(owner, lo, hi),
           op.pc = "underflow", ~AtRoot, HasPrev
    PROVE  /\ op.node \in Slots /\ parent[op.node] \in Slots /\ PrevSibling \in Slots
           /\ owner[op.node] = op.map /\ owner[parent[op.node]] = op.map
           /\ owner[PrevSibling] = op.map
           /\ PrevSibling \in live /\ level[PrevSibling] = level[op.node]
           /\ op.is_leaf <=> level[op.node] = 0
<1>1. /\ Local /\ Wiring(owner) /\ OpOwned(owner) /\ parent[op.node] # NULL
    BY DEF OrderState, AtRoot
<1>2. owner[op.node] = op.map /\ (op.is_leaf <=> level[op.node] = 0)
    BY <1>1, UnderflowData
<1>3. QED
    BY <1>1, <1>2, PrevData

LEMMA NextKin ==
    ASSUME NEW owner, NEW lo, NEW hi, OrderState(owner, lo, hi),
           op.pc = "underflow", ~AtRoot, HasNext
    PROVE  /\ op.node \in Slots /\ parent[op.node] \in Slots /\ NextSibling \in Slots
           /\ owner[op.node] = op.map /\ owner[parent[op.node]] = op.map
           /\ owner[NextSibling] = op.map
           /\ NextSibling \in live /\ level[NextSibling] = level[op.node]
           /\ op.is_leaf <=> level[op.node] = 0
<1>1. /\ Local /\ Wiring(owner) /\ OpOwned(owner) /\ parent[op.node] # NULL
    BY DEF OrderState, AtRoot
<1>2. owner[op.node] = op.map /\ (op.is_leaf <=> level[op.node] = 0)
    BY <1>1, UnderflowData
<1>3. QED
    BY <1>1, <1>2, NextData

\* An internal node has an edge at either end.
LEMMA EndEdges ==
    ASSUME NEW owner, NEW lo, NEW hi, OrderState(owner, lo, hi),
           NEW s \in live, level[s] # 0
    PROVE  /\ 1 \in DOMAIN edges[s] /\ Head(edges[s]) = edges[s][1]
           /\ Len(edges[s]) \in DOMAIN edges[s] /\ Last(edges[s]) = edges[s][Len(edges[s])]
<1>1. /\ Local /\ Wiring(owner)
    BY DEF OrderState
<1>2. s \in Slots /\ edges[s] \in Seq(Slots) /\ keys[s] \in Seq(Keys)
    BY <1>1 DEF Wiring, Forest, Local, DataTypes
<1>3. Len(edges[s]) = Len(keys[s]) + 1
    BY <1>1, <1>2 DEF Local, NodeShape
<1>4. Len(keys[s]) \in Nat
    BY <1>2
<1>5. Len(edges[s]) \in Nat /\ Len(edges[s]) >= 1
    BY <1>3, <1>4
<1>6. 1 \in DOMAIN edges[s] /\ Len(edges[s]) \in DOMAIN edges[s]
    BY <1>2, <1>5
<1>7. QED
    BY <1>2, <1>6 DEF Last

LEMMA RootStepFrame ==
    ASSUME NEW owner, NEW lo, NEW hi, OrderState(owner, lo, hi),
           RootLeafUnderflow \/ RootInternalStays
    PROVE  LeavesOthers(owner, op.map)
<1>1. \A s \in live : NodeAt(s)' = NodeAt(s)
    BY DEF RootLeafUnderflow, RootInternalStays, nodeVars, NodeAt
<1>2. height' = height /\ length' = length
    BY DEF RootLeafUnderflow, RootInternalStays, mapVars
<1>3. \A m \in Maps : m # op.map => root'[m] = root[m]
    <2>1. CASE RootLeafUnderflow
        <3>1. root' = [root EXCEPT ![op.map] = NULL] \/ root' = root
            BY <2>1 DEF RootLeafUnderflow
        <3>2. root \in [Maps -> Slots \cup {NULL}]
            BY DEF OrderState, Local, DataTypes
        <3>3. CASE root' = [root EXCEPT ![op.map] = NULL]
            BY <3>2, <3>3
        <3>4. QED
            BY <3>1, <3>3
    <2>2. CASE RootInternalStays
        BY <2>2 DEF RootInternalStays, mapVars
    <2>3. QED
        BY <2>1, <2>2
<1>4. QED
    BY <1>1, <1>2, <1>3 DEF LeavesOthers

LEMMA ShrinkRootFrame ==
    ASSUME NEW owner, NEW lo, NEW hi, OrderState(owner, lo, hi), ShrinkRoot
    PROVE  LeavesOthers(owner, op.map)
<1>1. /\ Local /\ Wiring(owner) /\ OpOwned(owner)
    BY DEF OrderState
<1>2. PICK child : child = edges[op.node][1]
    OBVIOUS
<1>3. /\ op.pc = "underflow" /\ op.is_leaf = FALSE
      /\ height' = [height EXCEPT ![op.map] = @ - 1]
      /\ root' = [root EXCEPT ![op.map] = child]
      /\ level' = [level EXCEPT ![op.node] = 0]
      /\ edges' = [edges EXCEPT ![op.node] = <<>>]
      /\ parent' = [parent EXCEPT ![child] = NULL]
      /\ parent_idx' = [parent_idx EXCEPT ![child] = Uninit]
      /\ keys' = keys /\ vals' = vals /\ prev' = prev /\ next' = next /\ length' = length
    BY <1>2 DEF ShrinkRoot, Underflowing
<1>4. /\ op.node \in Slots /\ op.node \in live /\ owner[op.node] = op.map
      /\ level[op.node] # 0
    BY <1>1, <1>3, UnderflowData
<1>5. 1 \in DOMAIN edges[op.node]
    BY <1>4, EndEdges
<1>6. ASSUME NEW s \in live, owner[s] # op.map
      PROVE  NodeAt(s)' = NodeAt(s)
    <2>1. s \in Slots /\ s # op.node /\ s # child
        BY <1>1, <1>2, <1>4, <1>5, <1>6, Outside
    <2>2. /\ level'[s] = level[s] /\ edges'[s] = edges[s] /\ parent'[s] = parent[s]
          /\ parent_idx'[s] = parent_idx[s]
        BY <1>1, <1>3, <2>1, Domains
    <2>3. QED
        BY <1>3, <2>2 DEF NodeAt
<1>7. \A m \in Maps : m # op.map => root'[m] = root[m] /\ height'[m] = height[m]
    BY <1>3
<1>8. QED
    BY <1>3, <1>6, <1>7 DEF LeavesOthers

LEMMA BorrowPrevLeafFrame ==
    ASSUME NEW owner, NEW lo, NEW hi, OrderState(owner, lo, hi), BorrowPrevLeaf
    PROVE  LeavesOthers(owner, op.map)
<1>1. Local /\ Wiring(owner)
    BY DEF OrderState
<1>2. PICK node, p, idx, from :
          node = op.node /\ p = parent[op.node] /\ idx = parent_idx[op.node] /\ from = PrevSibling
    OBVIOUS
<1>3. /\ op.pc = "underflow" /\ ~AtRoot /\ HasPrev
      /\ keys' = [keys EXCEPT ![from] = Front(@),
                              ![node] = InsertAt(@, 1, Last(keys[from])),
                              ![p][idx] = Last(keys[from])]
      /\ vals' = [vals EXCEPT ![from] = Front(@),
                              ![node] = InsertAt(@, 1, Last(vals[from]))]
      /\ level' = level /\ parent' = parent /\ parent_idx' = parent_idx /\ edges' = edges
      /\ prev' = prev /\ next' = next /\ root' = root /\ height' = height /\ length' = length
    BY <1>2 DEF BorrowPrevLeaf, Underflowing, PrevLends, mapVars
<1>4. /\ node \in Slots /\ p \in Slots /\ from \in Slots
      /\ owner[node] = op.map /\ owner[p] = op.map /\ owner[from] = op.map
    BY <1>2, <1>3, PrevKin
<1>5. ASSUME NEW s \in live, owner[s] # op.map
      PROVE  NodeAt(s)' = NodeAt(s)
    <2>1. s \in Slots /\ s # node /\ s # p /\ s # from
        BY <1>1, <1>4, <1>5, Outside
    <2>2. keys'[s] = keys[s] /\ vals'[s] = vals[s]
        BY <1>1, <1>3, <2>1, Domains
    <2>3. QED
        BY <1>3, <2>2 DEF NodeAt
<1>6. QED
    BY <1>3, <1>5 DEF LeavesOthers

LEMMA BorrowNextLeafFrame ==
    ASSUME NEW owner, NEW lo, NEW hi, OrderState(owner, lo, hi), BorrowNextLeaf
    PROVE  LeavesOthers(owner, op.map)
<1>1. Local /\ Wiring(owner)
    BY DEF OrderState
<1>2. PICK node, p, idx, from :
          node = op.node /\ p = parent[op.node] /\ idx = parent_idx[op.node] /\ from = NextSibling
    OBVIOUS
<1>3. /\ op.pc = "underflow" /\ ~AtRoot /\ HasNext
      /\ keys' = [keys EXCEPT ![p][idx + 1] = keys[from][2],
                              ![from] = Tail(@),
                              ![node] = Append(@, keys[from][1])]
      /\ vals' = [vals EXCEPT ![from] = Tail(@),
                              ![node] = Append(@, vals[from][1])]
      /\ level' = level /\ parent' = parent /\ parent_idx' = parent_idx /\ edges' = edges
      /\ prev' = prev /\ next' = next /\ root' = root /\ height' = height /\ length' = length
    BY <1>2 DEF BorrowNextLeaf, Underflowing, NextLends, mapVars
<1>4. /\ node \in Slots /\ p \in Slots /\ from \in Slots
      /\ owner[node] = op.map /\ owner[p] = op.map /\ owner[from] = op.map
    BY <1>2, <1>3, NextKin
<1>5. ASSUME NEW s \in live, owner[s] # op.map
      PROVE  NodeAt(s)' = NodeAt(s)
    <2>1. s \in Slots /\ s # node /\ s # p /\ s # from
        BY <1>1, <1>4, <1>5, Outside
    <2>2. keys'[s] = keys[s] /\ vals'[s] = vals[s]
        BY <1>1, <1>3, <2>1, Domains
    <2>3. QED
        BY <1>3, <2>2 DEF NodeAt
<1>6. QED
    BY <1>3, <1>5 DEF LeavesOthers

LEMMA BorrowPrevInternalFrame ==
    ASSUME NEW owner, NEW lo, NEW hi, OrderState(owner, lo, hi), BorrowPrevInternal
    PROVE  LeavesOthers(owner, op.map)
<1>1. Local /\ Wiring(owner)
    BY DEF OrderState
<1>2. PICK node, p, idx, from, edge :
          /\ node = op.node /\ p = parent[op.node] /\ idx = parent_idx[op.node]
          /\ from = PrevSibling /\ edge = Last(edges[from])
    OBVIOUS
<1>3. /\ op.pc = "underflow" /\ op.is_leaf = FALSE /\ ~AtRoot /\ HasPrev
      /\ keys' = [keys EXCEPT ![from] = Front(@),
                              ![node] = InsertAt(@, 1, keys[p][idx]),
                              ![p][idx] = Last(keys[from])]
      /\ edges' = [edges EXCEPT ![from] = Front(@), ![node] = InsertAt(@, 1, edge)]
      /\ parent' = [parent EXCEPT ![edge] = node]
      /\ parent_idx' = [Shifted(parent_idx, EdgesFrom(edges[node], 0), 1)
                           EXCEPT ![edge] = 0]
      /\ level' = level /\ vals' = vals
      /\ prev' = prev /\ next' = next /\ root' = root /\ height' = height /\ length' = length
    BY <1>2 DEF BorrowPrevInternal, Underflowing, PrevLends, mapVars
<1>4. /\ node \in Slots /\ p \in Slots /\ from \in Slots
      /\ owner[node] = op.map /\ owner[p] = op.map /\ owner[from] = op.map
      /\ from \in live /\ level[from] # 0
    BY <1>2, <1>3, PrevKin
<1>5. \E i \in DOMAIN edges[from] : edge = edges[from][i]
    BY <1>2, <1>4, EndEdges
<1>6. ASSUME NEW s \in live, owner[s] # op.map
      PROVE  NodeAt(s)' = NodeAt(s)
    <2>1. /\ s \in Slots /\ s # node /\ s # p /\ s # from
          /\ s \notin EdgesFrom(edges[node], 0)
        BY <1>1, <1>4, <1>6, Outside
    <2>2. s # edge
        BY <1>1, <1>4, <1>5, <1>6, Outside
    <2>3. keys'[s] = keys[s]
        BY <1>1, <1>3, <2>1, Domains
    <2>4. edges'[s] = edges[s] /\ parent'[s] = parent[s]
        BY <1>1, <1>3, <2>1, <2>2, Domains
    <2>5. parent_idx'[s] = parent_idx[s]
        BY <1>1, <1>3, <2>1, <2>2, Domains DEF Shifted
    <2>6. QED
        BY <1>3, <2>3, <2>4, <2>5 DEF NodeAt
<1>7. QED
    BY <1>3, <1>6 DEF LeavesOthers

LEMMA BorrowNextInternalFrame ==
    ASSUME NEW owner, NEW lo, NEW hi, OrderState(owner, lo, hi), BorrowNextInternal
    PROVE  LeavesOthers(owner, op.map)
<1>1. Local /\ Wiring(owner)
    BY DEF OrderState
<1>2. PICK node, p, idx, from, edge :
          /\ node = op.node /\ p = parent[op.node] /\ idx = parent_idx[op.node]
          /\ from = NextSibling /\ edge = Head(edges[from])
    OBVIOUS
<1>3. /\ op.pc = "underflow" /\ op.is_leaf = FALSE /\ ~AtRoot /\ HasNext
      /\ keys' = [keys EXCEPT ![p][idx + 1] = Head(keys[from]),
                              ![from] = Tail(@),
                              ![node] = Append(@, keys[p][idx + 1])]
      /\ edges' = [edges EXCEPT ![from] = Tail(@), ![node] = Append(@, edge)]
      /\ parent' = [parent EXCEPT ![edge] = node]
      /\ parent_idx' = [Shifted(parent_idx, EdgesFrom(edges[from], 1), -1)
                           EXCEPT ![edge] = Len(keys[node]) + 1]
      /\ level' = level /\ vals' = vals
      /\ prev' = prev /\ next' = next /\ root' = root /\ height' = height /\ length' = length
    BY <1>2 DEF BorrowNextInternal, Underflowing, NextLends, mapVars
<1>4. /\ node \in Slots /\ p \in Slots /\ from \in Slots
      /\ owner[node] = op.map /\ owner[p] = op.map /\ owner[from] = op.map
      /\ from \in live /\ level[from] # 0
    BY <1>2, <1>3, NextKin
<1>5. \E i \in DOMAIN edges[from] : edge = edges[from][i]
    BY <1>2, <1>4, EndEdges
<1>6. ASSUME NEW s \in live, owner[s] # op.map
      PROVE  NodeAt(s)' = NodeAt(s)
    <2>1. /\ s \in Slots /\ s # node /\ s # p /\ s # from
          /\ s \notin EdgesFrom(edges[from], 1)
        BY <1>1, <1>4, <1>6, Outside
    <2>2. s # edge
        BY <1>1, <1>4, <1>5, <1>6, Outside
    <2>3. keys'[s] = keys[s]
        BY <1>1, <1>3, <2>1, Domains
    <2>4. edges'[s] = edges[s] /\ parent'[s] = parent[s]
        BY <1>1, <1>3, <2>1, <2>2, Domains
    <2>5. parent_idx'[s] = parent_idx[s]
        BY <1>1, <1>3, <2>1, <2>2, Domains DEF Shifted
    <2>6. QED
        BY <1>3, <2>3, <2>4, <2>5 DEF NodeAt
<1>7. QED
    BY <1>3, <1>6 DEF LeavesOthers

LEMMA MergePrevLeafFrame ==
    ASSUME NEW owner, NEW lo, NEW hi, OrderState(owner, lo, hi), MergePrevLeaf
    PROVE  LeavesOthers(owner, op.map)
<1>1. Local /\ Wiring(owner) /\ OpOwned(owner)
    BY DEF OrderState
<1>2. PICK node, p, idx, gone :
          /\ node = op.node /\ p = parent[op.node] /\ idx = parent_idx[op.node]
          /\ gone = PrevSibling
    OBVIOUS
<1>3. /\ op.pc = "underflow" /\ op.is_leaf = TRUE /\ ~AtRoot /\ HasPrev
      /\ keys' = [keys EXCEPT ![node] = keys[gone] \o @, ![gone] = <<>>,
                              ![p] = RemoveAt(@, idx)]
      /\ vals' = [vals EXCEPT ![node] = vals[gone] \o @, ![gone] = <<>>]
      /\ edges' = [edges EXCEPT ![p] = RemoveAt(@, idx)]
      /\ parent' = [parent EXCEPT ![gone] = NULL]
      /\ parent_idx' = [Shifted(parent_idx, EdgesFrom(edges[p], idx), -1)
                           EXCEPT ![gone] = Uninit]
      /\ prev' = [prev EXCEPT ![node] = prev[gone], ![gone] = NULL]
      /\ next' = SetLink([next EXCEPT ![gone] = NULL], prev[gone], node)
      /\ level' = level /\ root' = root /\ height' = height /\ length' = length
    BY <1>2 DEF MergePrevLeaf, Underflowing, mapVars
<1>4. /\ node \in Slots /\ p \in Slots /\ gone \in Slots
      /\ owner[node] = op.map /\ owner[p] = op.map /\ owner[gone] = op.map
      /\ gone \in live /\ level[gone] = 0
    BY <1>2, <1>3, PrevKin
<1>5. prev[gone] \in Slots => owner[prev[gone]] = op.map
    BY <1>4, LinkedKin
<1>6. ASSUME NEW s \in live, owner[s] # op.map
      PROVE  NodeAt(s)' = NodeAt(s)
    <2>1. /\ s \in Slots /\ s # node /\ s # p /\ s # gone
          /\ s \notin EdgesFrom(edges[p], idx)
        BY <1>1, <1>4, <1>6, Outside
    <2>2. s # prev[gone]
        BY <1>5, <1>6, <2>1
    <2>3. keys'[s] = keys[s] /\ vals'[s] = vals[s]
        BY <1>1, <1>3, <2>1, Domains
    <2>4. edges'[s] = edges[s] /\ parent'[s] = parent[s] /\ prev'[s] = prev[s]
        BY <1>1, <1>3, <2>1, Domains
    <2>5. parent_idx'[s] = parent_idx[s]
        BY <1>1, <1>3, <2>1, Domains DEF Shifted
    <2>6. next'[s] = next[s]
        BY <1>1, <1>3, <2>1, <2>2, Domains DEF SetLink
    <2>7. QED
        BY <1>3, <2>3, <2>4, <2>5, <2>6 DEF NodeAt
<1>7. QED
    BY <1>3, <1>6 DEF LeavesOthers

LEMMA MergeNextLeafFrame ==
    ASSUME NEW owner, NEW lo, NEW hi, OrderState(owner, lo, hi), MergeNextLeaf
    PROVE  LeavesOthers(owner, op.map)
<1>1. Local /\ Wiring(owner) /\ OpOwned(owner)
    BY DEF OrderState
<1>2. PICK node, p, idx, gone :
          /\ node = op.node /\ p = parent[op.node] /\ idx = parent_idx[op.node]
          /\ gone = NextSibling
    OBVIOUS
<1>3. /\ op.pc = "underflow" /\ op.is_leaf = TRUE /\ ~AtRoot /\ ~HasPrev
      /\ keys' = [keys EXCEPT ![node] = @ \o keys[gone], ![gone] = <<>>,
                              ![p] = RemoveAt(@, 1)]
      /\ vals' = [vals EXCEPT ![node] = @ \o vals[gone], ![gone] = <<>>]
      /\ edges' = [edges EXCEPT ![p] = RemoveAt(@, 2)]
      /\ parent' = [parent EXCEPT ![gone] = NULL]
      /\ parent_idx' = [Shifted(parent_idx, EdgesFrom(edges[p], 2), -1)
                           EXCEPT ![gone] = Uninit]
      /\ next' = [next EXCEPT ![node] = next[gone], ![gone] = NULL]
      /\ prev' = SetLink([prev EXCEPT ![gone] = NULL], next[gone], node)
      /\ level' = level /\ root' = root /\ height' = height /\ length' = length
    BY <1>2 DEF MergeNextLeaf, Underflowing, mapVars
<1>4. /\ node \in Slots /\ p \in Slots /\ gone \in Slots
      /\ owner[node] = op.map /\ owner[p] = op.map /\ owner[gone] = op.map
      /\ gone \in live /\ level[gone] = 0
    <2>1. HasNext
        BY <1>1, <1>3, FirstHasNext DEF AtRoot
    <2>2. QED
        BY <1>2, <1>3, <2>1, NextKin
<1>5. next[gone] \in Slots => owner[next[gone]] = op.map
    BY <1>4, LinkedKin
<1>6. ASSUME NEW s \in live, owner[s] # op.map
      PROVE  NodeAt(s)' = NodeAt(s)
    <2>1. /\ s \in Slots /\ s # node /\ s # p /\ s # gone
          /\ s \notin EdgesFrom(edges[p], 2)
        BY <1>1, <1>4, <1>6, Outside
    <2>2. s # next[gone]
        BY <1>5, <1>6, <2>1
    <2>3. keys'[s] = keys[s] /\ vals'[s] = vals[s]
        BY <1>1, <1>3, <2>1, Domains
    <2>4. edges'[s] = edges[s] /\ parent'[s] = parent[s] /\ next'[s] = next[s]
        BY <1>1, <1>3, <2>1, Domains
    <2>5. parent_idx'[s] = parent_idx[s]
        BY <1>1, <1>3, <2>1, Domains DEF Shifted
    <2>6. prev'[s] = prev[s]
        BY <1>1, <1>3, <2>1, <2>2, Domains DEF SetLink
    <2>7. QED
        BY <1>3, <2>3, <2>4, <2>5, <2>6 DEF NodeAt
<1>7. QED
    BY <1>3, <1>6 DEF LeavesOthers

LEMMA MergePrevInternalFrame ==
    ASSUME NEW owner, NEW lo, NEW hi, OrderState(owner, lo, hi), MergePrevInternal
    PROVE  LeavesOthers(owner, op.map)
<1>1. Local /\ Wiring(owner) /\ OpOwned(owner)
    BY DEF OrderState
<1>2. PICK node, p, idx, gone, inner, shifted :
          /\ node = op.node /\ p = parent[op.node] /\ idx = parent_idx[op.node]
          /\ gone = PrevSibling
          /\ inner = Shifted(parent_idx, ToSet(edges[node]), Len(keys[gone]) + 1)
          /\ shifted = Shifted(inner, EdgesFrom(edges[p], idx), -1)
    OBVIOUS
<1>3. /\ op.pc = "underflow" /\ op.is_leaf = FALSE /\ ~AtRoot /\ HasPrev
      /\ keys' = [keys EXCEPT ![node] = Append(keys[gone], keys[p][idx]) \o @,
                              ![gone] = <<>>, ![p] = RemoveAt(@, idx)]
      /\ edges' = [edges EXCEPT ![node] = edges[gone] \o @, ![gone] = <<>>,
                                ![p] = RemoveAt(@, idx)]
      /\ parent' = [c \in Slots |-> IF c \in ToSet(edges[gone]) THEN node
                                    ELSE IF c = gone THEN NULL ELSE parent[c]]
      /\ parent_idx' = [shifted EXCEPT ![gone] = Uninit]
      /\ level' = [level EXCEPT ![gone] = 0]
      /\ vals' = vals /\ prev' = prev /\ next' = next
      /\ root' = root /\ height' = height /\ length' = length
    BY <1>2 DEF MergePrevInternal, Underflowing, mapVars
<1>4. /\ node \in Slots /\ p \in Slots /\ gone \in Slots
      /\ owner[node] = op.map /\ owner[p] = op.map /\ owner[gone] = op.map
    BY <1>2, <1>3, PrevKin
<1>5. ASSUME NEW s \in live, owner[s] # op.map
      PROVE  NodeAt(s)' = NodeAt(s)
    <2>1. /\ s \in Slots /\ s # node /\ s # p /\ s # gone
          /\ s \notin EdgesFrom(edges[p], idx)
          /\ s \notin ToSet(edges[gone]) /\ s \notin ToSet(edges[node])
        BY <1>1, <1>4, <1>5, Outside
    <2>2. keys'[s] = keys[s] /\ edges'[s] = edges[s] /\ level'[s] = level[s]
        BY <1>1, <1>3, <2>1, Domains
    <2>3. parent'[s] = parent[s]
        BY <1>3, <2>1
    <2>4. parent_idx'[s] = parent_idx[s]
        <3>1. s \in DOMAIN inner /\ inner[s] = parent_idx[s]
            BY <1>1, <1>2, <2>1, Domains DEF Shifted
        <3>2. s \in DOMAIN shifted /\ shifted[s] = inner[s]
            BY <1>2, <2>1, <3>1 DEF Shifted
        <3>3. QED
            BY <1>3, <2>1, <3>1, <3>2
    <2>5. QED
        BY <1>3, <2>2, <2>3, <2>4 DEF NodeAt
<1>6. QED
    BY <1>3, <1>5 DEF LeavesOthers

LEMMA MergeNextInternalFrame ==
    ASSUME NEW owner, NEW lo, NEW hi, OrderState(owner, lo, hi), MergeNextInternal
    PROVE  LeavesOthers(owner, op.map)
<1>1. Local /\ Wiring(owner) /\ OpOwned(owner)
    BY DEF OrderState
<1>2. PICK node, p, idx, gone, inner, shifted :
          /\ node = op.node /\ p = parent[op.node] /\ idx = parent_idx[op.node]
          /\ gone = NextSibling
          /\ inner = Shifted(parent_idx, ToSet(edges[gone]), Len(keys[node]) + 1)
          /\ shifted = Shifted(inner, EdgesFrom(edges[p], 2), -1)
    OBVIOUS
<1>3. /\ op.pc = "underflow" /\ op.is_leaf = FALSE /\ ~AtRoot /\ ~HasPrev
      /\ keys' = [keys EXCEPT ![node] = Append(@, keys[p][1]) \o keys[gone],
                              ![gone] = <<>>, ![p] = RemoveAt(@, 1)]
      /\ edges' = [edges EXCEPT ![node] = @ \o edges[gone], ![gone] = <<>>,
                                ![p] = RemoveAt(@, 2)]
      /\ parent' = [c \in Slots |-> IF c \in ToSet(edges[gone]) THEN node
                                    ELSE IF c = gone THEN NULL ELSE parent[c]]
      /\ parent_idx' = [shifted EXCEPT ![gone] = Uninit]
      /\ level' = [level EXCEPT ![gone] = 0]
      /\ vals' = vals /\ prev' = prev /\ next' = next
      /\ root' = root /\ height' = height /\ length' = length
    BY <1>2 DEF MergeNextInternal, Underflowing, mapVars
<1>4. /\ node \in Slots /\ p \in Slots /\ gone \in Slots
      /\ owner[node] = op.map /\ owner[p] = op.map /\ owner[gone] = op.map
    <2>1. HasNext
        BY <1>1, <1>3, FirstHasNext DEF AtRoot
    <2>2. QED
        BY <1>2, <1>3, <2>1, NextKin
<1>5. ASSUME NEW s \in live, owner[s] # op.map
      PROVE  NodeAt(s)' = NodeAt(s)
    <2>1. /\ s \in Slots /\ s # node /\ s # p /\ s # gone
          /\ s \notin EdgesFrom(edges[p], 2)
          /\ s \notin ToSet(edges[gone]) /\ s \notin ToSet(edges[node])
        BY <1>1, <1>4, <1>5, Outside
    <2>2. keys'[s] = keys[s] /\ edges'[s] = edges[s] /\ level'[s] = level[s]
        BY <1>1, <1>3, <2>1, Domains
    <2>3. parent'[s] = parent[s]
        BY <1>3, <2>1
    <2>4. parent_idx'[s] = parent_idx[s]
        <3>1. s \in DOMAIN inner /\ inner[s] = parent_idx[s]
            BY <1>1, <1>2, <2>1, Domains DEF Shifted
        <3>2. s \in DOMAIN shifted /\ shifted[s] = inner[s]
            BY <1>2, <2>1, <3>1 DEF Shifted
        <3>3. QED
            BY <1>3, <2>1, <3>1, <3>2
    <2>5. QED
        BY <1>3, <2>2, <2>3, <2>4 DEF NodeAt
<1>6. QED
    BY <1>3, <1>5 DEF LeavesOthers

LEMMA LoopFrame ==
    ASSUME NEW owner, NEW lo, NEW hi, OrderState(owner, lo, hi), OverflowStep \/ UnderflowStep
    PROVE  LeavesOthers(owner, op.map)
<1>1. CASE OverflowStep
    BY <1>1, GrowRootFrame, AbsorbIntoParentFrame, SplitParentFrame DEF OverflowStep
<1>2. CASE UnderflowStep
    BY <1>2, RootStepFrame, ShrinkRootFrame, BorrowPrevLeafFrame, BorrowPrevInternalFrame,
       BorrowNextLeafFrame, BorrowNextInternalFrame, MergePrevLeafFrame,
       MergePrevInternalFrame, MergeNextLeafFrame, MergeNextInternalFrame
       DEF UnderflowStep
<1>3. QED
    BY <1>1, <1>2

-----------------------------------------------------------------------------
(***************************************************************************)
(* The calls.                                                              *)
(***************************************************************************)

LEMMA InsertRootFrame ==
    ASSUME NEW owner, NEW lo, NEW hi, OrderState(owner, lo, hi),
           NEW a \in Maps, NEW k, NEW v, insert_root(a, k, v)
    PROVE  LeavesOthers(owner, a)
<1>1. Local /\ Wiring(owner)
    BY DEF OrderState
<1>2. /\ CanAlloc
      /\ keys' = [keys EXCEPT ![Fresh] = <<k>>]
      /\ vals' = [vals EXCEPT ![Fresh] = <<v>>]
      /\ root' = [root EXCEPT ![a] = Fresh]
      /\ length' = [length EXCEPT ![a] = @ + 1]
      /\ level' = level /\ parent' = parent /\ parent_idx' = parent_idx /\ edges' = edges
      /\ prev' = prev /\ next' = next /\ height' = height
    BY DEF insert_root
<1>3. Fresh \notin live
    BY <1>1, <1>2, FreshData
<1>4. ASSUME NEW s \in live
      PROVE  NodeAt(s)' = NodeAt(s)
    <2>1. keys'[s] = keys[s] /\ vals'[s] = vals[s]
        BY <1>2, <1>3
    <2>2. QED
        BY <1>2, <2>1 DEF NodeAt
<1>5. \A m \in Maps : m # a => root'[m] = root[m] /\ length'[m] = length[m]
    BY <1>2
<1>6. QED
    BY <1>2, <1>4, <1>5 DEF LeavesOthers

\* A change of the entries of one leaf
LEMMA LeafFrame ==
    ASSUME NEW owner, NEW lo, NEW hi, OrderState(owner, lo, hi),
           NEW a \in Maps, NEW leaf \in live, owner[leaf] = a,
           \A s \in live : s # leaf => keys'[s] = keys[s] /\ vals'[s] = vals[s],
           \A m \in Maps : m # a => length'[m] = length[m],
           level' = level, parent' = parent, parent_idx' = parent_idx, edges' = edges,
           prev' = prev, next' = next, root' = root, height' = height
    PROVE  LeavesOthers(owner, a)
BY DEF LeavesOthers, NodeAt

LEMMA WriteFrame ==
    ASSUME NEW owner, NEW lo, NEW hi, OrderState(owner, lo, hi),
           NEW a \in Maps, NEW leaf \in live, owner[leaf] = a, NEW k, NEW v,
           \/ InsertIntoLeaf(a, leaf, k, v) \/ WriteVal(leaf, k, v)
           \/ RemoveVal(a, leaf, k)
    PROVE  LeavesOthers(owner, a)
<1>1. Local /\ Wiring(owner)
    BY DEF OrderState
<1>2. DOMAIN keys = Slots /\ DOMAIN vals = Slots /\ live \subseteq Slots
    BY <1>1, Domains DEF Wiring, Forest
<1>3. length \in [Maps -> Int]
    BY <1>1 DEF Local, DataTypes
<1>4. CASE InsertIntoLeaf(a, leaf, k, v)
    <2>1. PICK ks, vs : /\ keys' = [keys EXCEPT ![leaf] = ks]
                        /\ vals' = [vals EXCEPT ![leaf] = vs]
        BY <1>4 DEF InsertIntoLeaf
    <2>2. \A s \in live : s # leaf => keys'[s] = keys[s] /\ vals'[s] = vals[s]
        BY <1>2, <2>1
    <2>3. \A m \in Maps : m # a => length'[m] = length[m]
        BY <1>3, <1>4 DEF InsertIntoLeaf
    <2>4. QED
        BY <1>4, <2>2, <2>3, LeafFrame DEF InsertIntoLeaf
<1>5. CASE WriteVal(leaf, k, v)
    <2>1. PICK vs : vals' = [vals EXCEPT ![leaf] = vs]
        BY <1>5 DEF WriteVal
    <2>2. \A s \in live : s # leaf => keys'[s] = keys[s] /\ vals'[s] = vals[s]
        BY <1>2, <1>5, <2>1 DEF WriteVal
    <2>3. QED
        BY <1>5, <2>2, LeafFrame DEF WriteVal
<1>6. CASE RemoveVal(a, leaf, k)
    <2>1. PICK ks, vs : /\ keys' = [keys EXCEPT ![leaf] = ks]
                        /\ vals' = [vals EXCEPT ![leaf] = vs]
        BY <1>6 DEF RemoveVal
    <2>2. \A s \in live : s # leaf => keys'[s] = keys[s] /\ vals'[s] = vals[s]
        BY <1>2, <2>1
    <2>3. \A m \in Maps : m # a => length'[m] = length[m]
        BY <1>3, <1>6 DEF RemoveVal
    <2>4. QED
        BY <1>6, <2>2, <2>3, LeafFrame DEF RemoveVal
<1>7. QED
    BY <1>4, <1>5, <1>6

LEMMA SplitLeafFrame ==
    ASSUME NEW owner, NEW lo, NEW hi, OrderState(owner, lo, hi),
           NEW a \in Maps, NEW leaf \in live, owner[leaf] = a, level[leaf] = 0,
           NEW k, NEW v, SplitLeaf(a, leaf, k, v), CanAlloc
    PROVE  LeavesOthers(owner, a)
<1>1. Local /\ Wiring(owner)
    BY DEF OrderState
<1>2. PICK ks, vs : /\ ks = InsertAt(keys[leaf], InsertionIndex(keys[leaf], k) + 1, k)
                    /\ vs = InsertAt(vals[leaf], InsertionIndex(keys[leaf], k) + 1, v)
    OBVIOUS
<1>3. /\ keys' = [keys EXCEPT ![leaf] = LeafLeft(ks), ![Fresh] = LeafRight(ks)]
      /\ vals' = [vals EXCEPT ![leaf] = LeafLeft(vs), ![Fresh] = LeafRight(vs)]
      /\ next' = [next EXCEPT ![leaf] = Fresh, ![Fresh] = next[leaf]]
      /\ prev' = SetLink([prev EXCEPT ![Fresh] = leaf], next[leaf], Fresh)
      /\ level' = level /\ parent' = parent /\ parent_idx' = parent_idx /\ edges' = edges
      /\ root' = root /\ height' = height /\ length' = length
    BY <1>2 DEF SplitLeaf
<1>4. Fresh \notin live
    BY <1>1, FreshData
<1>5. next[leaf] \in Slots => owner[next[leaf]] = a
    BY LinkedKin
<1>6. ASSUME NEW s \in live, owner[s] # a
      PROVE  NodeAt(s)' = NodeAt(s)
    <2>1. s \in Slots /\ s # leaf /\ s # Fresh /\ s # next[leaf]
        BY <1>1, <1>4, <1>5, <1>6 DEF Wiring, Forest
    <2>2. keys'[s] = keys[s] /\ vals'[s] = vals[s] /\ next'[s] = next[s]
        BY <1>1, <1>3, <2>1, Domains
    <2>3. prev'[s] = prev[s]
        BY <1>1, <1>3, <2>1, Domains DEF SetLink
    <2>4. QED
        BY <1>3, <2>2, <2>3 DEF NodeAt
<1>7. QED
    BY <1>3, <1>6 DEF LeavesOthers

LEMMA DropNodesFrame ==
    ASSUME NEW owner, NEW lo, NEW hi, OrderState(owner, lo, hi),
           NEW a \in Maps, clear(a) \/ drop_and_new_in(a)
    PROVE  LeavesOthers(owner, a)
<1>1. Local /\ Wiring(owner) /\ RootsOwned(owner)
    BY DEF OrderState
<1>2. \A s \in TreeOf(a) : owner[s] = a
    <2>1. CASE root[a] = NULL
        BY <2>1 DEF TreeOf
    <2>2. CASE root[a] # NULL
        BY <1>1, <2>2, TreeData
    <2>3. QED
        BY <2>1, <2>2
<1>3. GiveBack(TreeOf(a))
    BY DEF clear, drop_and_new_in, DropNodes
<1>4. ASSUME NEW s \in live, owner[s] # a
      PROVE  NodeAt(s)' = NodeAt(s)
    <2>1. s \in Slots /\ s \notin TreeOf(a)
        BY <1>1, <1>2, <1>4 DEF Wiring, Forest
    <2>2. /\ level'[s] = level[s] /\ parent'[s] = parent[s] /\ parent_idx'[s] = parent_idx[s]
          /\ keys'[s] = keys[s]
        BY <1>3, <2>1 DEF GiveBack, Wiped
    <2>3. /\ vals'[s] = vals[s] /\ edges'[s] = edges[s]
          /\ prev'[s] = prev[s] /\ next'[s] = next[s]
        BY <1>3, <2>1 DEF GiveBack, Wiped
    <2>4. QED
        BY <2>2, <2>3 DEF NodeAt
<1>5. /\ root \in [Maps -> Slots \cup {NULL}] /\ height \in [Maps -> Nat]
      /\ length \in [Maps -> Int]
    BY <1>1 DEF Local, DataTypes
<1>6. /\ root' = [root EXCEPT ![a] = NULL] /\ length' = [length EXCEPT ![a] = 0]
      /\ height' = height \/ height' = [height EXCEPT ![a] = 0]
    BY DEF clear, drop_and_new_in
<1>7. \A m \in Maps : m # a =>
          root'[m] = root[m] /\ height'[m] = height[m] /\ length'[m] = length[m]
    BY <1>5, <1>6
<1>8. QED
    BY <1>4, <1>7 DEF LeavesOthers

LEMMA CallFrame ==
    ASSUME NEW owner, NEW lo, NEW hi, OrderState(owner, lo, hi), NEW a \in Maps, CallOn(a)
    PROVE  LeavesOthers(owner, a)
<1>1. Local /\ Wiring(owner) /\ RootsOwned(owner)
    BY DEF OrderState
<1>2. ASSUME NEW k \in Keys, root[a] # NULL
      PROVE  FindLeaf(a, k) \in live /\ level[FindLeaf(a, k)] = 0 /\ owner[FindLeaf(a, k)] = a
    BY <1>1, <1>2, FindLeafEnds
<1>3. ASSUME NEW k \in Keys, NEW v \in Values, insert_before(a, FindLeaf(a, k), k, v), Found(a)
      PROVE  LeavesOthers(owner, a)
    <2>1. CASE InsertIntoLeaf(a, FindLeaf(a, k), k, v)
        BY <1>2, <1>3, <2>1, WriteFrame DEF Found
    <2>2. CASE SplitLeaf(a, FindLeaf(a, k), k, v)
        <3>1. FindLeaf(a, k) \in live /\ level[FindLeaf(a, k)] = 0 /\ owner[FindLeaf(a, k)] = a
            BY <1>2, <1>3 DEF Found
        <3>2. CanAlloc
            BY <1>1, <1>3, <2>2, <3>1, RoomForRight DEF SplitLeaf, CanAlloc, Found
        <3>3. QED
            BY <2>2, <3>1, <3>2, SplitLeafFrame
    <2>3. QED
        BY <1>3, <2>1, <2>2 DEF insert_before
<1>4. ASSUME NEW k \in Keys, NEW v \in Values, insert(a, k, v)
      PROVE  LeavesOthers(owner, a)
    <2>1. CASE insert_root(a, k, v)
        BY <2>1, InsertRootFrame
    <2>2. CASE Found(a) /\ insert_before(a, FindLeaf(a, k), k, v)
        BY <1>3, <2>2
    <2>3. CASE Found(a) /\ WriteVal(FindLeaf(a, k), k, v)
        BY <1>2, <2>3, WriteFrame DEF Found
    <2>4. QED
        BY <1>4, <2>1, <2>2, <2>3 DEF insert
<1>5. ASSUME NEW k \in Keys, remove_key_value(a, k)
      PROVE  LeavesOthers(owner, a)
    BY <1>2, <1>5, WriteFrame DEF remove_key_value, Found
<1>6. CASE pop_first(a)
    BY <1>1, <1>6, FirstLeafEnds, WriteFrame DEF pop_first, Found
<1>7. CASE pop_last(a)
    BY <1>1, <1>7, LastLeafEnds, WriteFrame DEF pop_last, Found
<1>8. CASE clear(a) \/ drop_and_new_in(a)
    BY <1>8, DropNodesFrame
<1>9. ASSUME NEW k \in Keys, NEW v \in Values, get_or_insert(a, k, v)
      PROVE  LeavesOthers(owner, a)
    <2>1. CASE insert_root(a, k, v)
        BY <2>1, InsertRootFrame
    <2>2. CASE Found(a) /\ insert_before(a, FindLeaf(a, k), k, v)
        BY <1>3, <2>2
    <2>3. QED
        BY <1>9, <2>1, <2>2 DEF get_or_insert
<1>10. ASSUME NEW k \in Keys, NEW v \in Values, NEW outcome, update_and_return(a, k, v, outcome)
       PROVE  LeavesOthers(owner, a)
    BY <1>4, <1>5, <1>10 DEF update_and_return
<1>11. QED
    BY <1>4, <1>5, <1>6, <1>7, <1>8, <1>9, <1>10 DEF CallOn

-----------------------------------------------------------------------------
\* Such a step leaves what the other maps see as it was.
LEMMA OthersViews ==
    ASSUME NEW owner, NEW lo, NEW hi, OrderState(owner, lo, hi),
           NEW a, LeavesOthers(owner, a), NEW m \in Maps, m # a
    PROVE  TreeOf(m)' = TreeOf(m) /\ View(m)' = View(m)
<1>1. Local /\ Wiring(owner) /\ RootsOwned(owner)
    BY DEF OrderState
<1>2. root'[m] = root[m] /\ height'[m] = height[m] /\ length'[m] = length[m]
    BY DEF LeavesOthers
<1>3. height[m] \in Nat
    BY <1>1 DEF Local, DataTypes
<1>4. \A s \in TreeOf(m) : NodeAt(s)' = NodeAt(s)
    <2>1. CASE root[m] = NULL
        BY <2>1 DEF TreeOf
    <2>2. CASE root[m] # NULL
        BY <1>1, <2>2, TreeData DEF LeavesOthers
    <2>3. QED
        BY <2>1, <2>2
<1>5. \A s \in TreeOf(m) : edges'[s] = edges[s]
    BY <1>4 DEF NodeAt
<1>6. TreeOf(m)' = TreeOf(m)
    <2>1. CASE root[m] = NULL
        BY <1>2, <2>1 DEF TreeOf
    <2>2. CASE root[m] # NULL
        <3>1. PICK D, E, h :
                  /\ D = Repeat([S \in SUBSET Slots |-> Children(S)], {root[m]})
                  /\ E = Repeat([S \in SUBSET Slots |-> Children(S)'], {root[m]})
                  /\ h = height[m]
            OBVIOUS
        <3>2. TreeOf(m) = UNION {D[n] : n \in 0 .. h}
            BY <2>2, <3>1 DEF TreeOf, Subtree
        <3>3. TreeOf(m)' = UNION {E[n] : n \in 0 .. h}
            BY <1>2, <2>2, <3>1 DEF TreeOf, Subtree
        <3>4. \A n \in 0 .. h : D[n] \subseteq TreeOf(m)
            BY <3>2
        <3>5. TreeOf(m) \subseteq Slots
            BY <1>1, <2>2, TreeData DEF Wiring, Forest
        <3>6. \A n \in 0 .. h : E[n] \in {D[n]}
            <4> DEFINE G == [n \in Nat |-> {D[n]}]
            <4>1. {root[m]} \in G[0]
                BY <3>1, RepeatDef
            <4>2. ASSUME NEW n \in Nat, n < h
                  PROVE  Children(D[n])' \in G[n + 1]
                <5>1. D[n] \subseteq TreeOf(m) /\ D[n] \in SUBSET Slots
                    <6>1. n \in 0 .. h
                        BY <1>3, <3>1, <4>2
                    <6>2. QED
                        BY <3>4, <3>5, <6>1
                <5>2. D[n + 1] = Children(D[n])
                    <6>1. PICK down : down = [S \in SUBSET Slots |-> Children(S)]
                        OBVIOUS
                    <6>2. D = Repeat(down, {root[m]})
                        BY <3>1, <6>1
                    <6>3. D[n + 1] = down[D[n]]
                        BY <6>2, RepeatDef
                    <6>4. QED
                        BY <5>1, <6>1, <6>3
                <5>3. Children(D[n])' = Children(D[n])
                    BY <1>5, <5>1 DEF Children
                <5>4. QED
                    BY <5>2, <5>3
            <4>3. PICK step : step = [S \in SUBSET Slots |-> Children(S)']
                OBVIOUS
            <4>4. ASSUME NEW n \in Nat, n < h, NEW y \in G[n]
                  PROVE  step[y] \in G[n + 1]
                <5>1. y = D[n]
                    BY <4>4
                <5>2. D[n] \in SUBSET Slots
                    <6>1. n \in 0 .. h
                        BY <1>3, <3>1, <4>4
                    <6>2. QED
                        BY <3>4, <3>5, <6>1
                <5>3. step[D[n]] = Children(D[n])'
                    BY <4>3, <5>2
                <5>4. QED
                    BY <4>2, <4>4, <5>1, <5>3
            <4>5. \A n \in 0 .. h : E[n] \in G[n]
                <5> HIDE DEF G
                <5>1. E = Repeat(step, {root[m]})
                    BY <3>1, <4>3
                <5>2. h \in Nat
                    BY <1>3, <3>1
                <5>3. QED
                    BY <4>1, <4>4, <5>1, <5>2, WalkStays
            <4>6. ASSUME NEW n \in 0 .. h
                  PROVE  E[n] \in {D[n]}
                <5>1. n \in Nat
                    BY <1>3, <3>1
                <5>2. QED
                    BY <4>5, <5>1
            <4>7. QED
                BY <4>6
        <3>7. QED
            BY <3>2, <3>3, <3>6
    <2>3. QED
        BY <2>1, <2>2
<1>7. View(m)' = View(m)
    <2>1. [s \in TreeOf(m) |-> NodeAt(s)]' = [s \in TreeOf(m) |-> NodeAt(s)]
        BY <1>4, <1>6
    <2>2. QED
        BY <1>2, <2>1 DEF View
<1>8. QED
    BY <1>6, <1>7

\* Every call waits for the loop of another to end.
LEMMA CallWaits ==
    ASSUME NEW a, CallOn(a)
    PROVE  op = Idle
BY DEF CallOn, insert, insert_before, Found, get_or_insert, update_and_return,
       remove_key_value, pop_first, pop_last, clear, drop_and_new_in

LEMMA LoopUnderWay ==
    ASSUME OverflowStep \/ UnderflowStep
    PROVE  op.pc = "overflow" \/ op.pc = "underflow"
<1>1. CASE OverflowStep
    BY <1>1 DEF OverflowStep, GrowRoot, AbsorbIntoParent, SplitParent
<1>2. CASE UnderflowStep
    BY <1>2 DEF UnderflowStep, Underflowing, RootLeafUnderflow, RootInternalStays, ShrinkRoot,
       BorrowPrevLeaf, BorrowPrevInternal, BorrowNextLeaf, BorrowNextInternal,
       MergePrevLeaf, MergePrevInternal, MergeNextLeaf, MergeNextInternal
<1>3. QED
    BY <1>1, <1>2

LEMMA LoopMap ==
    ASSUME NEW owner, NEW lo, NEW hi, OrderState(owner, lo, hi),
           OverflowStep \/ UnderflowStep
    PROVE  op.map \in Maps
BY LoopUnderWay, OverflowData, UnderflowData DEF OrderState

\* A call leaves every map but its own as it was, and so does each iteration
\* of its loop.
LEMMA NextFrame ==
    ASSUME IInv, Ordered, Next
    PROVE  \E a \in Maps : /\ op # Idle => a = op.map
                           /\ \A m \in Maps : m # a => View(m)' = View(m)
<1>1. PICK owner, lo, hi : OrderState(owner, lo, hi)
    BY OrderFound
<1>2. CASE Call
    <2>1. PICK a \in Maps : CallOn(a)
        BY <1>2 DEF Call
    <2>2. op = Idle
        BY <2>1, CallWaits
    <2>3. LeavesOthers(owner, a)
        BY <1>1, <2>1, CallFrame
    <2>4. \A m \in Maps : m # a => View(m)' = View(m)
        BY <1>1, <2>3, OthersViews
    <2>5. QED
        BY <2>2, <2>4
<1>3. CASE OverflowStep \/ UnderflowStep
    <2>1. LeavesOthers(owner, op.map)
        BY <1>1, <1>3, LoopFrame
    <2>2. op.map \in Maps
        BY <1>1, <1>3, LoopMap
    <2>3. \A m \in Maps : m # op.map => View(m)' = View(m)
        BY <1>1, <2>1, OthersViews
    <2>4. QED
        BY <2>2, <2>3
<1>4. QED
    BY <1>2, <1>3 DEF Next
=============================================================================
