---------------------------- MODULE BTreeForest ----------------------------
(***************************************************************************)
(* The nodes of all maps as a forest, and the six ways the operations of   *)
(* the map rewire it: attach an edge, detach one, take a new node, give    *)
(* nodes back, split the edges of a node, join those of two siblings.      *)
(* Every rebalancing step is a composition of these.  Before them, facts   *)
(* about the operators of BTreeNode and the sequences it is built from.    *)
(***************************************************************************)
EXTENDS BTreeMapInv, SequenceTheorems, FiniteSetTheorems, WellFoundedInduction,
        TLAPS

-----------------------------------------------------------------------------
(***************************************************************************)
(* Induction.                                                              *)
(***************************************************************************)

\* A set of natural numbers that is not empty has a least element: the form
\* of induction the proofs use (a least counterexample).
LEMMA LeastNat ==
    ASSUME NEW T \in SUBSET Nat, T # {}
    PROVE  \E n \in T : \A i \in T : n <= i
<1>1. \E x \in T : \A y \in T : ~(<<y, x>> \in OpToRel(<, Nat))
    BY NatLessThanWellFounded, WFMin
<1>2. ASSUME NEW x \in Nat, NEW y \in Nat, y < x
      PROVE  <<y, x>> \in OpToRel(<, Nat)
    BY <1>2, Zenon DEF OpToRel
<1>3. PICK n \in T : \A y \in T : ~(<<y, n>> \in OpToRel(<, Nat))
    BY <1>1
<1>4. ASSUME NEW i \in T PROVE n <= i
    <2>1. ~(i < n)
        BY <1>2, <1>3, Zenon
    <2>2. QED
        BY <2>1
<1>5. QED
    BY <1>4

-----------------------------------------------------------------------------
(***************************************************************************)
(* Repeat.                                                                 *)
(***************************************************************************)

\* The first n steps of a walk
IsWalk(w, n, step, x) ==
    /\ w = [i \in 0 .. n |-> w[i]]
    /\ w[0] = x
    /\ \A i \in 1 .. n : w[i] = step[w[i - 1]]

\* Walks of every length exist.
LEMMA WalkExists ==
    ASSUME NEW step, NEW x, NEW n \in Nat
    PROVE  \E w : IsWalk(w, n, step, x)
<1> DEFINE Bad == {i \in Nat : ~ \E w : IsWalk(w, i, step, x)}
<1>1. SUFFICES ASSUME Bad # {} PROVE FALSE
    OBVIOUS
<1>2. PICK b \in Bad : \A i \in Bad : b <= i
    BY <1>1, LeastNat
<1>3. CASE b = 0
    <2>1. IsWalk([i \in 0 .. 0 |-> x], 0, step, x)
        BY DEF IsWalk
    <2>2. QED
        BY <2>1, <1>2, <1>3
<1>4. CASE b # 0
    <2>1. b - 1 \in Nat /\ b - 1 \notin Bad
        BY <1>2, <1>4
    <2>2. PICK w : IsWalk(w, b - 1, step, x)
        BY <2>1
    <2> DEFINE u == [i \in 0 .. b |-> IF i = b THEN step[w[b - 1]] ELSE w[i]]
    <2>3. IsWalk(u, b, step, x)
        <3>1. u = [i \in 0 .. b |-> u[i]]
            OBVIOUS
        <3>2. u[0] = x
            BY <2>1, <2>2 DEF IsWalk
        <3>3. ASSUME NEW i \in 1 .. b PROVE u[i] = step[u[i - 1]]
            <4>1. u[i - 1] = w[i - 1]
                BY <2>1
            <4>2. CASE i = b
                BY <4>1, <4>2
            <4>3. CASE i # b
                <5>1. i \in 1 .. b - 1
                    BY <4>3, <2>1
                <5>2. u[i] = w[i]
                    BY <5>1
                <5>3. w[i] = step[w[i - 1]]
                    BY <5>1, <2>2 DEF IsWalk
                <5>4. QED
                    BY <4>1, <5>2, <5>3
            <4>4. QED
                BY <4>2, <4>3
        <3>4. QED
            BY <3>1, <3>2, <3>3 DEF IsWalk
    <2>4. QED
        BY <2>3, <1>2
<1>5. QED
    BY <1>3, <1>4

\* Two walks with the same start and step agree as far as both go.
LEMMA WalkUnique ==
    ASSUME NEW step, NEW x, NEW n \in Nat, NEW m \in Nat, n <= m,
           NEW v, IsWalk(v, n, step, x), NEW w, IsWalk(w, m, step, x)
    PROVE  \A i \in 0 .. n : v[i] = w[i]
<1> DEFINE Bad == {i \in 0 .. n : v[i] # w[i]}
<1>1. SUFFICES ASSUME Bad # {} PROVE FALSE
    OBVIOUS
<1>0. Bad \in SUBSET Nat
    OBVIOUS
<1> HIDE DEF Bad
<1>2. PICK b \in Bad : \A i \in Bad : b <= i
    BY <1>0, <1>1, LeastNat
<1> USE DEF Bad
<1>3. b # 0
    BY <1>2 DEF IsWalk
<1>4. b - 1 \in 0 .. n /\ b - 1 \notin Bad
    BY <1>2, <1>3
<1>5. b \in 1 .. n /\ b \in 1 .. m
    BY <1>2, <1>3
<1>7. v[b] = step[v[b - 1]] /\ w[b] = step[w[b - 1]]
    BY <1>5 DEF IsWalk
<1>6. QED
    BY <1>2, <1>4, <1>7

\* The recursion that defines Repeat has the solution it is meant to have.
LEMMA RepeatDef ==
    ASSUME NEW step, NEW x
    PROVE  /\ Repeat(step, x)[0] = x
           /\ \A n \in Nat : Repeat(step, x)[n + 1] = step[Repeat(step, x)[n]]
<1> DEFINE W(n) == CHOOSE w : IsWalk(w, n, step, x)
           f == [n \in Nat |-> W(n)[n]]
<1>1. \A n \in Nat : IsWalk(W(n), n, step, x)
    BY WalkExists
<1>2. ASSUME NEW n \in Nat PROVE f[n] = IF n = 0 THEN x ELSE step[f[n - 1]]
    <2>1. CASE n = 0
        BY <1>1, <2>1 DEF IsWalk
    <2>2. CASE n # 0
        <3>1. n - 1 \in Nat /\ n - 1 <= n /\ n - 1 \in 0 .. n - 1 /\ n \in 1 .. n
            BY <2>2
        <3> HIDE DEF W
        <3>2. W(n - 1)[n - 1] = W(n)[n - 1]
            <4>1. IsWalk(W(n - 1), n - 1, step, x) /\ IsWalk(W(n), n, step, x)
                BY <1>1, <3>1
            <4>2. \A i \in 0 .. n - 1 : W(n - 1)[i] = W(n)[i]
                BY <4>1, <3>1, WalkUnique
            <4>3. QED
                BY <4>2, <3>1
        <3>3. W(n)[n] = step[W(n)[n - 1]]
            BY <1>1, <3>1 DEF IsWalk
        <3>4. f[n] = W(n)[n] /\ f[n - 1] = W(n - 1)[n - 1]
            BY <3>1
        <3>5. QED
            BY <2>2, <3>2, <3>3, <3>4
    <2>3. QED
        BY <2>1, <2>2
<1>3. f = [n \in Nat |-> f[n]]
    OBVIOUS
<1> HIDE DEF f
<1> DEFINE g == CHOOSE h : h = [n \in Nat |-> IF n = 0 THEN x ELSE step[h[n - 1]]]
<1>4. g = [n \in Nat |-> IF n = 0 THEN x ELSE step[g[n - 1]]]
    <2>1. f = [n \in Nat |-> IF n = 0 THEN x ELSE step[f[n - 1]]]
        BY <1>2, <1>3
    <2>2. QED
        BY <2>1
<1>5. Repeat(step, x) = g
    BY DEF Repeat
<1> HIDE DEF g
<1>6. g[0] = x
    BY <1>4
<1>7. ASSUME NEW n \in Nat PROVE g[n + 1] = step[g[n]]
    <2>1. n + 1 \in Nat /\ n + 1 # 0 /\ (n + 1) - 1 = n
        OBVIOUS
    <2>2. g[n + 1] = step[g[(n + 1) - 1]]
        BY <1>4, <2>1
    <2>3. QED
        BY <2>1, <2>2
<1>8. QED
    BY <1>5, <1>6, <1>7

-----------------------------------------------------------------------------
(***************************************************************************)
(* Occupancy.                                                              *)
(***************************************************************************)

\* A walk that stays in G[n] from its n-th step to the next is in G[n] after n.
LEMMA WalkStays ==
    ASSUME NEW step, NEW x, NEW h \in Nat, NEW G, x \in G[0],
           \A n \in Nat : n < h => \A y \in G[n] : step[y] \in G[n + 1]
    PROVE  \A n \in 0 .. h : Repeat(step, x)[n] \in G[n]
<1> DEFINE W == Repeat(step, x)
           Bad == {n \in 0 .. h : W[n] \notin G[n]}
<1>1. W[0] = x /\ \A n \in Nat : W[n + 1] = step[W[n]]
    BY RepeatDef
<1> HIDE DEF W
<1>2. SUFFICES ASSUME Bad # {} PROVE FALSE
    BY DEF W
<1>3. PICK n \in Bad : \A i \in Bad : n <= i
    <2>1. Bad \in SUBSET Nat
        OBVIOUS
    <2> HIDE DEF Bad
    <2>2. QED
        BY <1>2, <2>1, LeastNat
<1>4. n # 0
    BY <1>1
<1>5. PICK k \in Nat : n = k + 1
    BY <1>4
<1>6. k \in 0 .. h /\ k < h
    BY <1>5
<1>7. W[k] \in G[k]
    BY <1>3, <1>5, <1>6
<1>8. W[n] \in G[n]
    BY <1>1, <1>5, <1>6, <1>7
<1>9. QED
    BY <1>8

\* M is twice the least occupancy.
LEMMA HalfOfM == M \div 2 \in Nat /\ M \div 2 >= 1 /\ M = (M \div 2) + (M \div 2)
BY MAssumption

-----------------------------------------------------------------------------
(***************************************************************************)
(* Sequences, as functions on the positions.  The length is a parameter of *)
(* each lemma: arithmetic over a variable is within the SMT solver's       *)
(* reach, over Len(s) it is not.                                           *)
(***************************************************************************)

\* insert_val and insert_edge: everything from position i on moves up.
LEMMA InsertAtSeq ==
    ASSUME NEW S, NEW s \in Seq(S), NEW e \in S, NEW n \in Nat, Len(s) = n,
           NEW i \in 1 .. n + 1
    PROVE  /\ InsertAt(s, i, e) \in Seq(S)
           /\ Len(InsertAt(s, i, e)) = n + 1
BY DEF InsertAt

\* The same as a function on the positions
LEMMA InsertAtDef ==
    ASSUME NEW S, NEW s \in Seq(S), NEW e \in S, NEW n \in Nat, Len(s) = n,
           NEW i \in 1 .. n + 1
    PROVE  InsertAt(s, i, e) = [j \in 1 .. n + 1 |-> IF j < i THEN s[j]
                                   ELSE IF j = i THEN e ELSE s[j - 1]]
BY DEF InsertAt

\* The edges of a new root
LEMMA PairByInsertion ==
    ASSUME NEW S, NEW a \in S, NEW b \in S
    PROVE  InsertAt(InsertAt(<<>>, 1, a), 2, b) = <<a, b>>
<1> DEFINE q == InsertAt(<<>>, 1, a)
<1>1. q \in Seq(S) /\ Len(q) = 1 /\ q[1] = a
    BY DEF InsertAt
<1> HIDE DEF q
<1> DEFINE r == InsertAt(q, 2, b)
<1>2. r \in Seq(S) /\ Len(r) = 2 /\ r[1] = a /\ r[2] = b
    BY <1>1 DEF InsertAt
<1> HIDE DEF r
<1>3. r = <<a, b>>
    BY <1>2
<1>4. QED
    BY <1>3 DEF r, q

\* remove_val and remove_edge: everything after position i moves down.
LEMMA RemoveAtSeq ==
    ASSUME NEW S, NEW s \in Seq(S), NEW n \in Nat, Len(s) = n, NEW i \in 1 .. n
    PROVE  /\ RemoveAt(s, i) \in Seq(S)
           /\ Len(RemoveAt(s, i)) = n - 1
BY DEF RemoveAt

\* The same as a function on the positions
LEMMA RemoveAtDef ==
    ASSUME NEW S, NEW s \in Seq(S), NEW n \in Nat, Len(s) = n, NEW i \in 1 .. n
    PROVE  RemoveAt(s, i) = [j \in 1 .. n - 1 |-> IF j < i THEN s[j] ELSE s[j + 1]]
BY DEF RemoveAt

\* The last element and what is before it
LEMMA FrontSeq ==
    ASSUME NEW S, NEW s \in Seq(S), NEW n \in Nat \ {0}, Len(s) = n
    PROVE  /\ Front(s) \in Seq(S)
           /\ Len(Front(s)) = n - 1
           /\ Last(s) \in S
           /\ Last(s) = s[n]
BY DEF Front, Last

\* The same as a function on the positions
LEMMA FrontDef ==
    ASSUME NEW S, NEW s \in Seq(S), NEW n \in Nat \ {0}, Len(s) = n
    PROVE  Front(s) = [j \in 1 .. n - 1 |-> s[j]]
BY DEF Front, Last

\* The first element and what is after it
LEMMA TailSeq ==
    ASSUME NEW S, NEW s \in Seq(S), NEW n \in Nat \ {0}, Len(s) = n
    PROVE  /\ Tail(s) \in Seq(S)
           /\ Len(Tail(s)) = n - 1
           /\ Head(s) \in S
           /\ Head(s) = s[1]
OBVIOUS

\* The same as a function on the positions
LEMMA TailDef ==
    ASSUME NEW S, NEW s \in Seq(S), NEW n \in Nat \ {0}, Len(s) = n
    PROVE  Tail(s) = [j \in 1 .. n - 1 |-> s[j + 1]]
<1> DEFINE t == Tail(s)
<1>1. /\ t \in Seq(S)
      /\ Len(t) = n - 1
      /\ \A j \in 1 .. n - 1 : t[j] = s[j + 1]
      /\ Head(s) \in S
      /\ Head(s) = s[1]
    OBVIOUS
<1> HIDE DEF t
<1>2. t = [j \in 1 .. n - 1 |-> s[j + 1]]
    BY <1>1
<1>3. QED
    BY <1>2 DEF t

\* merge_prev_leaf, merge_next_leaf and their internal counterparts
LEMMA ConcatSeq ==
    ASSUME NEW S, NEW s \in Seq(S), NEW n \in Nat, Len(s) = n,
           NEW u \in Seq(S), NEW k \in Nat, Len(u) = k
    PROVE  /\ s \o u \in Seq(S)
           /\ Len(s \o u) = n + k
OBVIOUS

\* The same as a function on the positions
LEMMA ConcatDef ==
    ASSUME NEW S, NEW s \in Seq(S), NEW n \in Nat, Len(s) = n,
           NEW u \in Seq(S), NEW k \in Nat, Len(u) = k
    PROVE  s \o u = [j \in 1 .. n + k |-> IF j <= n THEN s[j] ELSE u[j - n]]
<1> DEFINE t == s \o u
<1>1. /\ t \in Seq(S)
      /\ Len(t) = n + k
      /\ \A j \in 1 .. n + k : t[j] = IF j <= n THEN s[j] ELSE u[j - n]
    OBVIOUS
<1> HIDE DEF t
<1>2. t = [j \in 1 .. n + k |-> IF j <= n THEN s[j] ELSE u[j - n]]
    BY <1>1
<1>3. QED
    BY <1>2 DEF t

\* One more element at the end
LEMMA AppendSeq ==
    ASSUME NEW S, NEW s \in Seq(S), NEW n \in Nat, Len(s) = n, NEW e \in S
    PROVE  /\ Append(s, e) \in Seq(S)
           /\ Len(Append(s, e)) = n + 1
OBVIOUS

\* The same as a function on the positions
LEMMA AppendDef ==
    ASSUME NEW S, NEW s \in Seq(S), NEW n \in Nat, Len(s) = n, NEW e \in S
    PROVE  Append(s, e) = [j \in 1 .. n + 1 |-> IF j <= n THEN s[j] ELSE e]
<1> DEFINE t == Append(s, e)
<1>1. /\ t \in Seq(S)
      /\ Len(t) = n + 1
      /\ \A j \in 1 .. n + 1 : t[j] = IF j <= n THEN s[j] ELSE e
    OBVIOUS
<1> HIDE DEF t
<1>2. t = [j \in 1 .. n + 1 |-> IF j <= n THEN s[j] ELSE e]
    BY <1>1
<1>3. QED
    BY <1>2 DEF t

\* A segment of a sequence
LEMMA SegmentSeq ==
    ASSUME NEW S, NEW s \in Seq(S), NEW n \in Nat, Len(s) = n,
           NEW a \in 1 .. n + 1, NEW b \in 0 .. n, a <= b + 1
    PROVE  /\ SubSeq(s, a, b) \in Seq(S)
           /\ Len(SubSeq(s, a, b)) = b - a + 1
OBVIOUS

\* The same as a function on the positions
LEMMA SegmentDef ==
    ASSUME NEW S, NEW s \in Seq(S), NEW n \in Nat, Len(s) = n,
           NEW a \in 1 .. n + 1, NEW b \in 0 .. n, a <= b + 1
    PROVE  SubSeq(s, a, b) = [j \in 1 .. b - a + 1 |-> s[a + j - 1]]
OBVIOUS

\* Taking the last edge, taking the first, adding one at the end: remove_edge
\* and insert_edge at the ends of the array
LEMMA FrontIsRemoval ==
    ASSUME NEW S, NEW s \in Seq(S), NEW n \in Nat \ {0}, Len(s) = n
    PROVE  Front(s) = RemoveAt(s, n)
<1>1. Front(s) = [j \in 1 .. n - 1 |-> s[j]]
    BY FrontDef
<1>2. n \in Nat /\ n \in 1 .. n
    OBVIOUS
<1>3. RemoveAt(s, n) = [j \in 1 .. n - 1 |-> IF j < n THEN s[j] ELSE s[j + 1]]
    BY <1>2, RemoveAtDef
<1>4. \A j \in 1 .. n - 1 : s[j] = IF j < n THEN s[j] ELSE s[j + 1]
    OBVIOUS
<1>5. QED
    BY <1>1, <1>3, <1>4

\* Taking off the first element removes position 1.
LEMMA TailIsRemoval ==
    ASSUME NEW S, NEW s \in Seq(S), NEW n \in Nat \ {0}, Len(s) = n
    PROVE  Tail(s) = RemoveAt(s, 1)
<1>1. Tail(s) = [j \in 1 .. n - 1 |-> s[j + 1]]
    BY TailDef
<1>2. n \in Nat /\ 1 \in 1 .. n
    OBVIOUS
<1>3. RemoveAt(s, 1) = [j \in 1 .. n - 1 |-> IF j < 1 THEN s[j] ELSE s[j + 1]]
    BY <1>2, RemoveAtDef
<1>4. \A j \in 1 .. n - 1 : s[j + 1] = IF j < 1 THEN s[j] ELSE s[j + 1]
    OBVIOUS
<1>5. QED
    BY <1>1, <1>3, <1>4

\* Appending inserts after the last position.
LEMMA AppendIsInsertion ==
    ASSUME NEW S, NEW s \in Seq(S), NEW n \in Nat, Len(s) = n, NEW e \in S
    PROVE  Append(s, e) = InsertAt(s, n + 1, e)
<1>1. Append(s, e) = [j \in 1 .. n + 1 |-> IF j <= n THEN s[j] ELSE e]
    BY AppendDef
<1>2. n + 1 \in 1 .. n + 1
    OBVIOUS
<1>3. InsertAt(s, n + 1, e) = [j \in 1 .. n + 1 |-> IF j < n + 1 THEN s[j]
                                   ELSE IF j = n + 1 THEN e ELSE s[j - 1]]
    BY <1>2, InsertAtDef
<1>4. \A j \in 1 .. n + 1 : (IF j <= n THEN s[j] ELSE e) =
                            IF j < n + 1 THEN s[j] ELSE IF j = n + 1 THEN e ELSE s[j - 1]
    OBVIOUS
<1>5. QED
    BY <1>1, <1>3, <1>4

\* Changing one element
LEMMA ExceptProperties ==
    ASSUME NEW S, NEW s \in Seq(S), NEW i, NEW e \in S
    PROVE  /\ [s EXCEPT ![i] = e] \in Seq(S)
           /\ Len([s EXCEPT ![i] = e]) = Len(s)
<1>1. PICK n \in Nat : Len(s) = n
    OBVIOUS
<1>2. s \in [1 .. n -> S]
    BY <1>1
<1>3. [s EXCEPT ![i] = e] \in [1 .. n -> S]
    BY <1>2
<1>4. QED
    BY <1>1, <1>3

-----------------------------------------------------------------------------
(***************************************************************************)
(* Positions.                                                              *)
(***************************************************************************)

\* What the binary search answers is a position in the array or its end; it
\* is before the end when the key is there.
LEMMA IndexBounds ==
    ASSUME NEW S, NEW ks \in Seq(S), NEW k, NEW n \in Nat, Len(ks) = n
    PROVE  /\ EdgeIndex(ks, k) \in 0 .. n
           /\ InsertionIndex(ks, k) \in 0 .. n
           /\ k \in Int /\ k \in ToSet(ks) => InsertionIndex(ks, k) \in 0 .. n - 1
<1>1. /\ IsFiniteSet(1 .. n) /\ Cardinality(1 .. n) = n
      /\ DOMAIN ks = 1 .. n
    BY FS_Interval
<1>2. ASSUME NEW T \in SUBSET (1 .. n)
      PROVE  /\ Cardinality(T) \in 0 .. n
             /\ T # 1 .. n => Cardinality(T) \in 0 .. n - 1
    <2>1. IsFiniteSet(T) /\ Cardinality(T) <= n /\ (T # 1 .. n => Cardinality(T) < n)
        <3>1. IsFiniteSet(T) /\ Cardinality(T) <= Cardinality(1 .. n)
              /\ (Cardinality(1 .. n) = Cardinality(T) => T = 1 .. n)
            BY <1>1, FS_Subset
        <3>2. Cardinality(T) \in Nat
            BY <3>1, FS_CardinalityType
        <3>3. QED
            BY <1>1, <3>1, <3>2
    <2>2. Cardinality(T) \in Nat
        BY <2>1, FS_CardinalityType
    <2>3. QED
        BY <2>1, <2>2
<1>3. EdgeIndex(ks, k) \in 0 .. n /\ InsertionIndex(ks, k) \in 0 .. n
    <2>1. {i \in DOMAIN ks : ks[i] <= k} \in SUBSET (1 .. n)
        BY <1>1
    <2>2. {i \in DOMAIN ks : ks[i] < k} \in SUBSET (1 .. n)
        BY <1>1
    <2>3. QED
        BY <1>2, <2>1, <2>2 DEF EdgeIndex, InsertionIndex
<1>4. ASSUME k \in Int, k \in ToSet(ks)
      PROVE  InsertionIndex(ks, k) \in 0 .. n - 1
    <2> DEFINE T == {i \in DOMAIN ks : ks[i] < k}
    <2>1. PICK j \in 1 .. n : ks[j] = k
        BY <1>1, <1>4 DEF ToSet
    <2>2. j \notin T
        BY <1>4, <2>1
    <2>3. T \in SUBSET (1 .. n) /\ T # 1 .. n
        BY <1>1, <2>1, <2>2
    <2> HIDE DEF T
    <2>4. Cardinality(T) \in 0 .. n - 1
        BY <1>2, <2>3
    <2>5. QED
        BY <2>4 DEF T, InsertionIndex
<1>5. QED
    BY <1>3, <1>4

-----------------------------------------------------------------------------
(***************************************************************************)
(* Splitting.  M is even (MAssumption), so both halves of a split have the *)
(* least occupancy at least.                                               *)
(***************************************************************************)

\* The edges from position k on, as a set
LEMMA SuffixSet ==
    ASSUME NEW S, NEW s \in Seq(S), NEW n \in Nat, Len(s) = n, NEW k \in 0 .. n
    PROVE  ToSet(SubSeq(s, k + 1, n)) = EdgesFrom(s, k)
<1>1. SubSeq(s, k + 1, n) = [j \in 1 .. n - k |-> s[k + j]]
    OBVIOUS
<1>2. DOMAIN s = 1 .. n
    OBVIOUS
<1>3. ASSUME NEW j \in 1 .. n - k
      PROVE  s[k + j] \in EdgesFrom(s, k)
    BY <1>2 DEF EdgesFrom
<1>4. ASSUME NEW i \in 1 .. n, i > k
      PROVE  \E j \in 1 .. n - k : s[i] = s[k + j]
    <2>1. i - k \in 1 .. n - k /\ k + (i - k) = i
        BY <1>4
    <2>2. QED
        BY <2>1
<1>5. ToSet(SubSeq(s, k + 1, n)) = {s[k + j] : j \in 1 .. n - k}
    <2>1. PICK q : q = SubSeq(s, k + 1, n)
        OBVIOUS
    <2>2. DOMAIN q = 1 .. n - k /\ \A j \in 1 .. n - k : q[j] = s[k + j]
        BY <1>1, <2>1
    <2>3. ToSet(q) = {s[k + j] : j \in 1 .. n - k}
        BY ONLY <2>2 DEF ToSet
    <2>4. QED
        BY <2>1, <2>3
<1>6. EdgesFrom(s, k) = {s[i] : i \in {j \in 1 .. n : j > k}}
    BY <1>2 DEF EdgesFrom
<1>7. EdgesFrom(s, k) \subseteq {s[k + j] : j \in 1 .. n - k}
    <2>1. SUFFICES ASSUME NEW x \in EdgesFrom(s, k)
                   PROVE  \E j \in 1 .. n - k : x = s[k + j]
        OBVIOUS
    <2>2. PICK i \in 1 .. n : i > k /\ x = s[i]
        BY <1>6
    <2>3. QED
        BY <1>4, <2>2
<1>8. {s[k + j] : j \in 1 .. n - k} \subseteq EdgesFrom(s, k)
    BY <1>3
<1>9. QED
    BY <1>5, <1>7, <1>8

\* split_leaf leaves M / 2 entries to the left and M / 2 + 1 to the right.
LEMMA LeafHalves ==
    ASSUME NEW S, NEW s \in Seq(S), NEW h \in Nat, h >= 1, M = h + h, Len(s) = M + 1
    PROVE  /\ LeafLeft(s) \in Seq(S) /\ Len(LeafLeft(s)) = h
           /\ LeafRight(s) \in Seq(S) /\ Len(LeafRight(s)) = h + 1
           /\ LeafSplitKey(s) \in S
<1>1. Median(s) = h
    BY DEF Median
<1>2. PICK n \in Nat : n = h + h + 1 /\ Len(s) = n
    OBVIOUS
<1>3. LeafLeft(s) \in Seq(S) /\ Len(LeafLeft(s)) = h
    BY <1>1, <1>2 DEF LeafLeft
<1>4. LeafRight(s) \in Seq(S) /\ Len(LeafRight(s)) = h + 1
    BY <1>1, <1>2 DEF LeafRight
<1>5. LeafSplitKey(s) \in S
    BY <1>1, <1>2 DEF LeafSplitKey
<1>6. QED
    BY <1>3, <1>4, <1>5

\* split_internal leaves M / 2 keys on both sides, the split key in neither.
LEMMA InternalHalves ==
    ASSUME NEW S, NEW s \in Seq(S), NEW h \in Nat, h >= 1, M = h + h, Len(s) = M + 1
    PROVE  /\ InternalLeft(s) \in Seq(S) /\ Len(InternalLeft(s)) = h
           /\ InternalRight(s) \in Seq(S) /\ Len(InternalRight(s)) = h
           /\ InternalSplitKey(s) \in S
<1>1. Median(s) = h
    BY DEF Median
<1>2. PICK n \in Nat : n = h + h + 1 /\ Len(s) = n
    OBVIOUS
<1>3. InternalLeft(s) \in Seq(S) /\ Len(InternalLeft(s)) = h
    BY <1>1, <1>2 DEF InternalLeft
<1>4. InternalRight(s) \in Seq(S) /\ Len(InternalRight(s)) = h
    BY <1>1, <1>2 DEF InternalRight
<1>5. InternalSplitKey(s) \in S
    BY <1>1, <1>2 DEF InternalSplitKey
<1>6. QED
    BY <1>3, <1>4, <1>5

\* Its edges go in two equal parts.
LEMMA EdgeHalves ==
    ASSUME NEW S, NEW s \in Seq(S), NEW h \in Nat, h >= 1, M = h + h,
           NEW n \in Nat, n = M + 2, Len(s) = n, NEW k \in Nat, k = h + 1
    PROVE  /\ EdgesLeft(s) = SubSeq(s, 1, k) /\ Len(EdgesLeft(s)) = k
           /\ EdgesRight(s) = SubSeq(s, k + 1, n) /\ n - k = k /\ k \in 0 .. n
<1>1. (Len(s) - 2) \div 2 = h
    OBVIOUS
<1>2. ((Len(s) - 2) \div 2) + 1 = k /\ ((Len(s) - 2) \div 2) + 2 = k + 1
    BY <1>1
<1>3. EdgesLeft(s) = SubSeq(s, 1, k) /\ EdgesRight(s) = SubSeq(s, k + 1, n)
    BY <1>2 DEF EdgesLeft, EdgesRight
<1>4. k \in 0 .. n /\ n - k = k
    OBVIOUS
<1>5. Len(SubSeq(s, 1, k)) = k
    BY <1>4
<1>6. QED
    BY <1>3, <1>4, <1>5

-----------------------------------------------------------------------------
(***************************************************************************)
(* The forest.  The arguments are the variables of BTreeMap, as live,      *)
(* level, parent, parent_idx and edges, and the map each node belongs to.  *)
(***************************************************************************)

\* ParentAgrees, OwnedBy of the nodes and FreeBlank of the wiring
Forest(L, lv, par, pix, es, ow) ==
    /\ L \subseteq Slots
    /\ lv \in [Slots -> Nat]
    /\ par \in [Slots -> Slots \cup {NULL}]
    /\ pix \in [Slots -> Nat \cup {-1}]
    /\ es \in [Slots -> Seq(Slots)]
    /\ ow \in [Slots -> Maps]
    /\ \A s \in L : \A i \in DOMAIN es[s] :
          /\ es[s][i] \in L
          /\ par[es[s][i]] = s
          /\ pix[es[s][i]] = i - 1
          /\ lv[es[s][i]] = lv[s] - 1
    /\ \A s \in L : par[s] # NULL =>
          /\ par[s] \in L
          /\ pix[s] + 1 \in DOMAIN es[par[s]]
          /\ es[par[s]][pix[s] + 1] = s
          /\ ow[s] = ow[par[s]]
    /\ \A s \in Slots \ L : par[s] = NULL /\ es[s] = <<>> /\ lv[s] = 0

\* A child is a live node whose parent names it at its place.
LEMMA ForestChild ==
    ASSUME NEW L, NEW lv, NEW par, NEW pix, NEW es, NEW ow,
           Forest(L, lv, par, pix, es, ow),
           NEW p \in Slots, NEW i \in DOMAIN es[p]
    PROVE  /\ p \in L /\ es[p][i] \in L /\ es[p][i] \in Slots
           /\ es[p][i] # p
           /\ par[es[p][i]] = p
           /\ pix[es[p][i]] = i - 1
           /\ lv[es[p][i]] = lv[p] - 1 /\ lv[es[p][i]] \in Nat /\ lv[p] \in Nat
           /\ ow[es[p][i]] = ow[p]
<1>1. p \in L
    BY DEF Forest
<1>2. /\ es[p][i] \in L /\ es[p][i] \in Slots
      /\ par[es[p][i]] = p
      /\ pix[es[p][i]] = i - 1
      /\ lv[es[p][i]] = lv[p] - 1
      /\ lv[es[p][i]] \in Nat /\ lv[p] \in Nat
    BY <1>1 DEF Forest
<1>3. p # NULL
    BY SlotsAssumption
<1>4. ow[es[p][i]] = ow[p]
    BY <1>2, <1>3 DEF Forest
<1>5. QED
    BY <1>1, <1>2, <1>4

\* A node with a parent is one of its edges.
LEMMA ForestParent ==
    ASSUME NEW L, NEW lv, NEW par, NEW pix, NEW es, NEW ow,
           Forest(L, lv, par, pix, es, ow),
           NEW s \in Slots, par[s] # NULL
    PROVE  \E n \in Nat, i \in Nat :
              /\ i \in 1 .. n
              /\ s \in L /\ par[s] \in L /\ par[s] \in Slots /\ par[s] # s
              /\ Len(es[par[s]]) = n /\ DOMAIN es[par[s]] = 1 .. n
              /\ es[par[s]][i] = s
              /\ pix[s] = i - 1
              /\ lv[s] = lv[par[s]] - 1
              /\ lv[s] \in Nat /\ lv[par[s]] \in Nat
              /\ ow[s] = ow[par[s]]
<1>1. /\ s \in L /\ par[s] \in L /\ par[s] \in Slots
      /\ pix[s] + 1 \in DOMAIN es[par[s]]
      /\ es[par[s]][pix[s] + 1] = s
      /\ ow[s] = ow[par[s]]
    BY DEF Forest
<1>2. es[par[s]] \in Seq(Slots) /\ pix[s] \in Nat \cup {-1}
    BY <1>1 DEF Forest
<1>3. PICK n \in Nat : Len(es[par[s]]) = n /\ DOMAIN es[par[s]] = 1 .. n
    BY <1>2
<1>4. PICK i \in 1 .. n : pix[s] + 1 = i
    BY <1>1, <1>3
<1>5. es[par[s]][i] = s /\ pix[s] = i - 1
    BY <1>1, <1>2, <1>4
<1>6. i \in DOMAIN es[par[s]]
    BY <1>3
<1>7. /\ lv[s] = lv[par[s]] - 1 /\ lv[s] \in Nat /\ lv[par[s]] \in Nat
      /\ par[s] # s
    BY <1>1, <1>5, <1>6, ForestChild
<1>8. QED
    BY <1>1, <1>3, <1>5, <1>7

-----------------------------------------------------------------------------
(***************************************************************************)
(* insert_edge: e becomes edge i of p.                                     *)
(***************************************************************************)
AttachPar(par, p, e) == [c \in Slots |-> IF c = e THEN p ELSE par[c]]
AttachPix(par, pix, p, e, i) ==
    [c \in Slots |-> IF c = e THEN i - 1
                     ELSE IF par[c] = p /\ pix[c] >= i - 1 THEN pix[c] + 1 ELSE pix[c]]
AttachEs(es, p, e, i) == [s \in Slots |-> IF s = p THEN InsertAt(es[p], i, e) ELSE es[s]]

\* insert_edge: e becomes child i of p, counted from 1, and those after it
\* move up by one.
LEMMA Attach ==
    ASSUME NEW L, NEW lv, NEW par, NEW pix, NEW es, NEW ow,
           Forest(L, lv, par, pix, es, ow),
           NEW p \in L, NEW e \in L, par[e] = NULL,
           lv[e] = lv[p] - 1, ow[e] = ow[p],
           NEW n \in Nat, Len(es[p]) = n, NEW i \in 1 .. n + 1
    PROVE  /\ Forest(L, lv, AttachPar(par, p, e), AttachPix(par, pix, p, e, i),
                     AttachEs(es, p, e, i), ow)
           /\ Len(AttachEs(es, p, e, i)[p]) = n + 1
<1> DEFINE par2 == AttachPar(par, p, e)
           pix2 == AttachPix(par, pix, p, e, i)
           es2 == AttachEs(es, p, e, i)
<1>1. /\ L \subseteq Slots /\ p \in Slots /\ e \in Slots /\ p # NULL /\ es[p] \in Seq(Slots)
      /\ DOMAIN es[p] = 1 .. n
    BY SlotsAssumption DEF Forest
<1>20. InsertAt(es[p], i, e) = [j \in 1 .. n + 1 |-> IF j < i THEN es[p][j]
                                   ELSE IF j = i THEN e ELSE es[p][j - 1]]
    <2>1. PICK q \in Seq(Slots) : q = es[p]
        BY <1>1
    <2>2. q \in Seq(Slots) /\ Len(q) = n /\ e \in Slots /\ n \in Nat /\ i \in 1 .. n + 1
        BY <1>1, <2>1
    <2>3. InsertAt(q, i, e) = [j \in 1 .. n + 1 |-> IF j < i THEN q[j]
                                   ELSE IF j = i THEN e ELSE q[j - 1]]
        BY ONLY <2>2, InsertAtDef
    <2>4. QED
        BY <2>1, <2>3
<1>2. InsertAt(es[p], i, e) \in Seq(Slots) /\ Len(InsertAt(es[p], i, e)) = n + 1
    <2>1. PICK q \in Seq(Slots) : q = es[p]
        BY <1>1
    <2>2. q \in Seq(Slots) /\ Len(q) = n /\ e \in Slots /\ n \in Nat /\ i \in 1 .. n + 1
        BY <1>1, <2>1
    <2>3. InsertAt(q, i, e) \in Seq(Slots) /\ Len(InsertAt(q, i, e)) = n + 1
        BY ONLY <2>2, InsertAtSeq
    <2>4. QED
        BY <2>1, <2>3
<1>3. /\ par2 \in [Slots -> Slots \cup {NULL}]
      /\ es2 \in [Slots -> Seq(Slots)]
    BY <1>1, <1>2 DEF AttachPar, AttachEs, Forest
<1>4. pix2 \in [Slots -> Nat \cup {-1}]
    BY <1>1 DEF AttachPix, Forest
<1>5. /\ \A c \in Slots : par2[c] = IF c = e THEN p ELSE par[c]
      /\ \A c \in Slots : pix2[c] =
            IF c = e THEN i - 1
            ELSE IF par[c] = p /\ pix[c] >= i - 1 THEN pix[c] + 1 ELSE pix[c]
      /\ \A s \in Slots \ {p} : es2[s] = es[s]
      /\ es2[p] = [j \in 1 .. n + 1 |-> IF j < i THEN es[p][j]
                                        ELSE IF j = i THEN e ELSE es[p][j - 1]]
    BY <1>1, <1>20 DEF AttachPar, AttachPix, AttachEs
<1>51. Len(es2[p]) = n + 1
    BY <1>1, <1>2 DEF AttachEs
<1> HIDE DEF par2, pix2, es2
<1>6. ASSUME NEW s \in L, NEW j \in DOMAIN es2[s]
      PROVE  /\ es2[s][j] \in L
             /\ par2[es2[s][j]] = s
             /\ pix2[es2[s][j]] = j - 1
             /\ lv[es2[s][j]] = lv[s] - 1
    <2>1. CASE s # p
        <3>1. es2[s] = es[s] /\ j \in DOMAIN es[s] /\ s \in Slots
            BY <1>1, <1>5, <1>6, <2>1
        <3>2. PICK c \in L : /\ c = es[s][j] /\ c \in Slots
                             /\ par[c] = s /\ pix[c] = j - 1 /\ lv[c] = lv[s] - 1
            BY <3>1, ForestChild
        <3>3. c # e
            BY <1>1, <3>1, <3>2, SlotsAssumption
        <3>4. QED
            BY <1>5, <2>1, <3>1, <3>2, <3>3
    <2>2. CASE s = p /\ j = i
        BY <1>1, <1>5, <2>2
    <2>3. CASE s = p /\ j # i
        <3>1. j \in 1 .. n + 1
            BY <1>5, <1>6, <2>3
        <3>2. PICK q \in 1 .. n : /\ es2[p][j] = es[p][q]
                                  /\ j = IF q < i THEN q ELSE q + 1
            <4>1. CASE j < i
                BY <1>5, <3>1, <4>1
            <4>2. CASE j > i
                <5>1. j - 1 \in 1 .. n /\ ~(j - 1 < i) /\ j = (j - 1) + 1
                    BY <3>1, <4>2
                <5>2. es2[p][j] = es[p][j - 1]
                    BY <1>5, <3>1, <4>2
                <5>3. QED
                    BY <5>1, <5>2
            <4>3. QED
                BY <2>3, <3>1, <4>1, <4>2
        <3>3. PICK c \in L : /\ c = es[p][q] /\ c \in Slots
                             /\ par[c] = p /\ pix[c] = q - 1 /\ lv[c] = lv[p] - 1
            BY <1>1, ForestChild
        <3>4. c # e
            BY <1>1, <3>3
        <3>5. pix2[c] = j - 1
            BY <1>5, <3>2, <3>3, <3>4
        <3>6. QED
            BY <1>5, <2>3, <3>2, <3>3, <3>4, <3>5
    <2>4. QED
        BY <2>1, <2>2, <2>3
<1>7. ASSUME NEW s \in L, par2[s] # NULL
      PROVE  /\ par2[s] \in L
             /\ pix2[s] + 1 \in DOMAIN es2[par2[s]]
             /\ es2[par2[s]][pix2[s] + 1] = s
             /\ ow[s] = ow[par2[s]]
    <2>1. CASE s = e
        <3>1. par2[s] = p /\ pix2[s] = i - 1 /\ (i - 1) + 1 = i /\ es2[p][i] = e /\ i \in DOMAIN es2[p]
            BY <1>1, <1>5, <2>1
        <3>2. QED
            BY <2>1, <3>1
    <2>2. CASE s # e
        <3>1. s \in Slots /\ par2[s] = par[s] /\ par[s] # NULL
            BY <1>1, <1>5, <1>7, <2>2
        <3>2. PICK m \in Nat, q \in Nat :
                /\ q \in 1 .. m
                /\ par[s] \in L /\ par[s] \in Slots
                /\ Len(es[par[s]]) = m /\ DOMAIN es[par[s]] = 1 .. m
                /\ es[par[s]][q] = s /\ pix[s] = q - 1
                /\ ow[s] = ow[par[s]]
            BY <3>1, ForestParent
        <3>3. CASE par[s] # p
            <4>1. pix2[s] = q - 1 /\ es2[par[s]] = es[par[s]] /\ (q - 1) + 1 = q
                BY <1>5, <2>2, <3>1, <3>2, <3>3
            <4>2. QED
                BY <3>1, <3>2, <4>1
        <3>4. CASE par[s] = p
            <4>1. m = n
                BY <3>2, <3>4
            <4>2. PICK j \in 1 .. n + 1 : j = IF q < i THEN q ELSE q + 1
                BY <3>2, <4>1
            <4>3. pix2[s] = j - 1 /\ (j - 1) + 1 = j
                BY <1>5, <2>2, <3>1, <3>2, <3>4, <4>2
            <4>4. es2[p][j] = es[p][q]
                <5>1. CASE q < i
                    BY <1>5, <4>2, <5>1
                <5>2. CASE ~(q < i)
                    <6>1. ~(j < i) /\ j # i /\ j - 1 = q
                        BY <4>2, <5>2
                    <6>2. QED
                        BY <1>5, <6>1
                <5>3. QED
                    BY <5>1, <5>2
            <4>5. j \in DOMAIN es2[p]
                BY <1>5
            <4>6. QED
                BY <3>1, <3>2, <3>4, <4>3, <4>4, <4>5
        <3>5. QED
            BY <3>3, <3>4
    <2>3. QED
        BY <2>1, <2>2
<1>8. ASSUME NEW s \in Slots \ L
      PROVE  par2[s] = NULL /\ es2[s] = <<>> /\ lv[s] = 0
    BY <1>5 DEF Forest
<1>9. QED
    BY <1>3, <1>4, <1>51, <1>6, <1>7, <1>8 DEF Forest, par2, pix2, es2

-----------------------------------------------------------------------------
(***************************************************************************)
(* remove_edge: edge i of p is taken out; it has no parent afterwards.     *)
(***************************************************************************)
DetachPar(par, e) == [c \in Slots |-> IF c = e THEN NULL ELSE par[c]]
DetachPix(par, pix, p, e, i) ==
    [c \in Slots |-> IF c = e THEN -1
                     ELSE IF par[c] = p /\ pix[c] >= i THEN pix[c] - 1 ELSE pix[c]]
DetachEs(es, p, i) == [s \in Slots |-> IF s = p THEN RemoveAt(es[p], i) ELSE es[s]]

\* remove_edge: child i of p becomes a node without a parent.
LEMMA Detach ==
    ASSUME NEW L, NEW lv, NEW par, NEW pix, NEW es, NEW ow,
           Forest(L, lv, par, pix, es, ow),
           NEW p \in L, NEW n \in Nat, Len(es[p]) = n, NEW i \in 1 .. n,
           NEW e, e = es[p][i]
    PROVE  /\ e \in L
           /\ Forest(L, lv, DetachPar(par, e), DetachPix(par, pix, p, e, i),
                     DetachEs(es, p, i), ow)
           /\ Len(DetachEs(es, p, i)[p]) = n - 1
<1> DEFINE par2 == DetachPar(par, e)
           pix2 == DetachPix(par, pix, p, e, i)
           es2 == DetachEs(es, p, i)
<1>1. /\ L \subseteq Slots /\ p \in Slots /\ p # NULL /\ es[p] \in Seq(Slots)
      /\ DOMAIN es[p] = 1 .. n
    BY SlotsAssumption DEF Forest
<1>2. e \in L /\ e \in Slots /\ par[e] = p /\ pix[e] = i - 1
    BY <1>1, ForestChild
<1>20. /\ RemoveAt(es[p], i) = [j \in 1 .. n - 1 |-> IF j < i THEN es[p][j] ELSE es[p][j + 1]]
       /\ RemoveAt(es[p], i) \in Seq(Slots) /\ Len(RemoveAt(es[p], i)) = n - 1
    <2>1. PICK q \in Seq(Slots) : q = es[p]
        BY <1>1
    <2>2. q \in Seq(Slots) /\ Len(q) = n /\ n \in Nat /\ i \in 1 .. n
        BY <1>1, <2>1
    <2>3. RemoveAt(q, i) = [j \in 1 .. n - 1 |-> IF j < i THEN q[j] ELSE q[j + 1]]
        BY ONLY <2>2, RemoveAtDef
    <2>4. RemoveAt(q, i) \in Seq(Slots) /\ Len(RemoveAt(q, i)) = n - 1
        BY ONLY <2>2, RemoveAtSeq
    <2>5. QED
        BY <2>1, <2>3, <2>4
<1>3. /\ par2 \in [Slots -> Slots \cup {NULL}]
      /\ es2 \in [Slots -> Seq(Slots)]
    BY <1>1, <1>20 DEF DetachPar, DetachEs, Forest
<1>4. pix2 \in [Slots -> Nat \cup {-1}]
    BY <1>1, SMTT(30) DEF DetachPix, Forest
<1>5. /\ \A c \in Slots : par2[c] = IF c = e THEN NULL ELSE par[c]
      /\ \A c \in Slots : pix2[c] =
            IF c = e THEN -1
            ELSE IF par[c] = p /\ pix[c] >= i THEN pix[c] - 1 ELSE pix[c]
      /\ \A s \in Slots \ {p} : es2[s] = es[s]
      /\ es2[p] = [j \in 1 .. n - 1 |-> IF j < i THEN es[p][j] ELSE es[p][j + 1]]
    BY <1>1, <1>20 DEF DetachPar, DetachPix, DetachEs
<1>51. Len(es2[p]) = n - 1
    BY <1>1, <1>20 DEF DetachEs
<1> HIDE DEF par2, pix2, es2
<1>6. ASSUME NEW s \in L, NEW j \in DOMAIN es2[s]
      PROVE  /\ es2[s][j] \in L
             /\ par2[es2[s][j]] = s
             /\ pix2[es2[s][j]] = j - 1
             /\ lv[es2[s][j]] = lv[s] - 1
    <2>1. CASE s # p
        <3>1. es2[s] = es[s] /\ j \in DOMAIN es[s] /\ s \in Slots
            BY <1>1, <1>5, <1>6, <2>1
        <3>2. PICK c \in L : /\ c = es[s][j] /\ c \in Slots
                             /\ par[c] = s /\ pix[c] = j - 1 /\ lv[c] = lv[s] - 1
            BY <3>1, ForestChild
        <3>3. c # e
            BY <1>2, <2>1, <3>2
        <3>4. QED
            BY <1>5, <2>1, <3>1, <3>2, <3>3
    <2>2. CASE s = p
        <3>1. j \in 1 .. n - 1
            BY <1>5, <1>6, <2>2
        <3>2. PICK q \in 1 .. n : es2[p][j] = es[p][q] /\ q = IF j < i THEN j ELSE j + 1
            BY <1>5, <3>1
        <3>3. PICK c \in L : /\ c = es[p][q] /\ c \in Slots
                             /\ par[c] = p /\ pix[c] = q - 1 /\ lv[c] = lv[p] - 1
            BY <1>1, ForestChild
        <3>4. c # e
            BY <1>2, <3>1, <3>2, <3>3
        <3>5. pix2[c] = j - 1
            BY <1>5, <3>1, <3>2, <3>3, <3>4
        <3>6. es2[s][j] = c /\ par2[c] = p
            BY <1>5, <2>2, <3>2, <3>3, <3>4
        <3>7. QED
            BY <2>2, <3>3, <3>5, <3>6
    <2>3. QED
        BY <2>1, <2>2
<1>7. ASSUME NEW s \in L, par2[s] # NULL
      PROVE  /\ par2[s] \in L
             /\ pix2[s] + 1 \in DOMAIN es2[par2[s]]
             /\ es2[par2[s]][pix2[s] + 1] = s
             /\ ow[s] = ow[par2[s]]
    <2>1. s \in Slots /\ s # e /\ par2[s] = par[s] /\ par[s] # NULL
        BY <1>1, <1>2, <1>5, <1>7
    <2>2. PICK m \in Nat, q \in Nat :
            /\ q \in 1 .. m
            /\ par[s] \in L /\ par[s] \in Slots
            /\ Len(es[par[s]]) = m /\ DOMAIN es[par[s]] = 1 .. m
            /\ es[par[s]][q] = s /\ pix[s] = q - 1
            /\ ow[s] = ow[par[s]]
        BY <2>1, ForestParent
    <2>3. CASE par[s] # p
        <3>1. pix2[s] = q - 1 /\ es2[par[s]] = es[par[s]] /\ (q - 1) + 1 = q
            BY <1>5, <2>1, <2>2, <2>3
        <3>2. QED
            BY <2>1, <2>2, <3>1
    <2>4. CASE par[s] = p
        <3>1. m = n /\ q # i
            BY <2>1, <2>2, <2>4
        <3>2. PICK j \in 1 .. n - 1 : j = IF q < i THEN q ELSE q - 1
            BY <2>2, <3>1
        <3>3. pix2[s] = j - 1 /\ (j - 1) + 1 = j
            BY <1>5, <2>1, <2>2, <2>4, <3>1, <3>2
        <3>4. es2[p][j] = es[p][q]
            BY <1>5, <2>2, <3>1, <3>2
        <3>5. j \in DOMAIN es2[p]
            BY <1>5
        <3>6. QED
            BY <2>1, <2>2, <2>4, <3>3, <3>4, <3>5
    <2>5. QED
        BY <2>3, <2>4
<1>8. ASSUME NEW s \in Slots \ L
      PROVE  par2[s] = NULL /\ es2[s] = <<>> /\ lv[s] = 0
    BY <1>5 DEF Forest
<1>9. QED
    BY <1>2, <1>3, <1>4, <1>51, <1>6, <1>7, <1>8 DEF Forest, par2, pix2, es2

-----------------------------------------------------------------------------
(***************************************************************************)
(* store.alloc: a node without edges and without a parent.                 *)
(***************************************************************************)
LEMMA AddNode ==
    ASSUME NEW L, NEW lv, NEW par, NEW pix, NEW es, NEW ow,
           Forest(L, lv, par, pix, es, ow),
           NEW new \in Slots \ L, NEW h \in Nat, NEW m \in Maps
    PROVE  Forest(L \cup {new}, [lv EXCEPT ![new] = h], par, pix, es, [ow EXCEPT ![new] = m])
<1> DEFINE L2 == L \cup {new}
           lv2 == [lv EXCEPT ![new] = h]
           ow2 == [ow EXCEPT ![new] = m]
<1>1. lv2 \in [Slots -> Nat] /\ ow2 \in [Slots -> Maps] /\ L2 \subseteq Slots
    BY DEF Forest
<1>2. /\ \A s \in Slots : lv2[s] = IF s = new THEN h ELSE lv[s]
      /\ \A s \in Slots : ow2[s] = IF s = new THEN m ELSE ow[s]
      /\ \A s \in L : s \in Slots /\ s # new
      /\ par[new] = NULL /\ es[new] = <<>>
    BY DEF Forest
<1> HIDE DEF lv2, ow2
<1>3. ASSUME NEW s \in L2, NEW j \in DOMAIN es[s]
      PROVE  /\ es[s][j] \in L2
             /\ par[es[s][j]] = s
             /\ pix[es[s][j]] = j - 1
             /\ lv2[es[s][j]] = lv2[s] - 1
    <2>1. s # new
        BY <1>2, <1>3
    <2>2. QED
        BY <1>2, <2>1, ForestChild
<1>4. ASSUME NEW s \in L2, par[s] # NULL
      PROVE  /\ par[s] \in L2
             /\ pix[s] + 1 \in DOMAIN es[par[s]]
             /\ es[par[s]][pix[s] + 1] = s
             /\ ow2[s] = ow2[par[s]]
    <2>1. s \in L
        BY <1>2, <1>4
    <2>2. /\ par[s] \in L
          /\ pix[s] + 1 \in DOMAIN es[par[s]]
          /\ es[par[s]][pix[s] + 1] = s
          /\ ow[s] = ow[par[s]]
        BY <1>4, <2>1 DEF Forest
    <2>3. QED
        BY <1>2, <2>1, <2>2
<1>5. ASSUME NEW s \in Slots \ L2
      PROVE  par[s] = NULL /\ es[s] = <<>> /\ lv2[s] = 0
    BY <1>2 DEF Forest
<1>6. QED
    BY <1>1, <1>3, <1>4, <1>5 DEF Forest, lv2, ow2

(***************************************************************************)
(* store.discard: nodes that are linked with none of the others.           *)
(***************************************************************************)
LEMMA Discard ==
    ASSUME NEW L, NEW lv, NEW par, NEW pix, NEW es, NEW ow,
           Forest(L, lv, par, pix, es, ow),
           NEW gone \in SUBSET Slots,
           \A s \in L : par[s] # NULL => (s \in gone <=> par[s] \in gone),
           NEW pix2 \in [Slots -> Nat \cup {-1}],
           \A s \in Slots \ gone : pix2[s] = pix[s]
    PROVE  Forest(L \ gone, Wiped(lv, gone, 0), Wiped(par, gone, NULL), pix2,
                  Wiped(es, gone, <<>>), ow)
<1> DEFINE L2 == L \ gone
           lv2 == Wiped(lv, gone, 0)
           par2 == Wiped(par, gone, NULL)
           es2 == Wiped(es, gone, <<>>)
<1>1. /\ L2 \subseteq Slots /\ lv2 \in [Slots -> Nat] /\ ow \in [Slots -> Maps]
      /\ par2 \in [Slots -> Slots \cup {NULL}]
    BY DEF Forest, Wiped
<1>10. es2 \in [Slots -> Seq(Slots)]
    <2>1. <<>> \in Seq(Slots)
        OBVIOUS
    <2>2. \A s \in Slots : es[s] \in Seq(Slots)
        BY DEF Forest
    <2>3. QED
        BY <2>1, <2>2 DEF Wiped
<1>2. /\ \A s \in Slots \ gone : lv2[s] = lv[s] /\ par2[s] = par[s] /\ es2[s] = es[s]
      /\ \A s \in gone : lv2[s] = 0 /\ par2[s] = NULL /\ es2[s] = <<>>
      /\ L \subseteq Slots
    BY DEF Forest, Wiped
<1> HIDE DEF lv2, par2, es2
<1>3. ASSUME NEW s \in L2, NEW j \in DOMAIN es2[s]
      PROVE  /\ es2[s][j] \in L2
             /\ par2[es2[s][j]] = s
             /\ pix2[es2[s][j]] = j - 1
             /\ lv2[es2[s][j]] = lv2[s] - 1
    <2>1. s \in L /\ s \in Slots \ gone /\ es2[s] = es[s] /\ j \in DOMAIN es[s] /\ s # NULL
        BY <1>2, <1>3, SlotsAssumption
    <2>2. PICK c \in L : /\ c = es[s][j] /\ c \in Slots
                         /\ par[c] = s /\ pix[c] = j - 1 /\ lv[c] = lv[s] - 1
        BY <2>1, ForestChild
    <2>3. c \notin gone
        BY <2>1, <2>2
    <2>4. QED
        BY <1>2, <2>1, <2>2, <2>3
<1>4. ASSUME NEW s \in L2, par2[s] # NULL
      PROVE  /\ par2[s] \in L2
             /\ pix2[s] + 1 \in DOMAIN es2[par2[s]]
             /\ es2[par2[s]][pix2[s] + 1] = s
             /\ ow[s] = ow[par2[s]]
    <2>1. s \in L /\ s \in Slots \ gone /\ par2[s] = par[s] /\ pix2[s] = pix[s]
        BY <1>2, <1>4
    <2>2. /\ par[s] \in L
          /\ pix[s] + 1 \in DOMAIN es[par[s]]
          /\ es[par[s]][pix[s] + 1] = s
          /\ ow[s] = ow[par[s]]
        BY <1>4, <2>1 DEF Forest
    <2>3. par[s] \in Slots \ gone
        BY <1>2, <1>4, <2>1, <2>2
    <2>4. QED
        BY <1>2, <2>1, <2>2, <2>3
<1>5. ASSUME NEW s \in Slots \ L2
      PROVE  par2[s] = NULL /\ es2[s] = <<>> /\ lv2[s] = 0
    <2>1. CASE s \in gone
        BY <1>2, <2>1
    <2>2. CASE s \in Slots \ L /\ s \notin gone
        BY <1>2, <2>2 DEF Forest
    <2>3. QED
        BY <2>1, <2>2
<1>6. QED
    BY <1>1, <1>10, <1>3, <1>4, <1>5 DEF Forest, lv2, par2, es2

-----------------------------------------------------------------------------
(***************************************************************************)
(* split_internal: the edges of p from the k-th on (0-based) go to new.    *)
(***************************************************************************)
SplitPar(par, pix, p, new, k) ==
    [c \in Slots |-> IF par[c] = p /\ pix[c] >= k THEN new ELSE par[c]]
SplitPix(par, pix, p, k) ==
    [c \in Slots |-> IF par[c] = p /\ pix[c] >= k THEN pix[c] - k ELSE pix[c]]
SplitEs(es, p, new, k, n) ==
    [s \in Slots |-> IF s = p THEN SubSeq(es[p], 1, k)
                     ELSE IF s = new THEN SubSeq(es[p], k + 1, n) ELSE es[s]]

\* split_internal: the edges of p after the k-th become those of a new node.
LEMMA Split ==
    ASSUME NEW L, NEW lv, NEW par, NEW pix, NEW es, NEW ow,
           Forest(L, lv, par, pix, es, ow),
           NEW p \in L, NEW new \in L, p # new, es[new] = <<>>,
           lv[new] = lv[p], ow[new] = ow[p],
           NEW n \in Nat, Len(es[p]) = n, NEW k \in 0 .. n
    PROVE  /\ Forest(L, lv, SplitPar(par, pix, p, new, k), SplitPix(par, pix, p, k),
                     SplitEs(es, p, new, k, n), ow)
           /\ Len(SplitEs(es, p, new, k, n)[p]) = k
           /\ Len(SplitEs(es, p, new, k, n)[new]) = n - k
<1> DEFINE par2 == SplitPar(par, pix, p, new, k)
           pix2 == SplitPix(par, pix, p, k)
           es2 == SplitEs(es, p, new, k, n)
<1>1. /\ L \subseteq Slots /\ p \in Slots /\ new \in Slots /\ p # NULL /\ new # NULL
      /\ es[p] \in Seq(Slots) /\ DOMAIN es[p] = 1 .. n
    BY SlotsAssumption DEF Forest
<1>20. PICK q \in Seq(Slots) : q = es[p] /\ Len(q) = n
    BY <1>1
<1>21. 1 \in 1 .. n + 1 /\ k \in 0 .. n /\ 1 <= k + 1 /\ k - 1 + 1 = k
       /\ k + 1 \in 1 .. n + 1 /\ n \in 0 .. n /\ k + 1 <= n + 1 /\ n - (k + 1) + 1 = n - k
    OBVIOUS
<1>22. SubSeq(q, 1, k) = [j \in 1 .. k |-> q[j]]
    OBVIOUS
<1>23. SubSeq(q, k + 1, n) = [j \in 1 .. n - k |-> q[k + j]]
    BY <1>20
<1>24. SubSeq(q, 1, k) \in Seq(Slots) /\ SubSeq(q, k + 1, n) \in Seq(Slots)
    BY <1>20, <1>21, SegmentSeq
<1>3. /\ par2 \in [Slots -> Slots \cup {NULL}]
      /\ es2 \in [Slots -> Seq(Slots)]
    BY <1>1, <1>20, <1>24 DEF SplitPar, SplitEs, Forest
<1>4. pix2 \in [Slots -> Nat \cup {-1}]
    <2>1. \A c \in Slots : pix[c] \in Nat \cup {-1}
        BY DEF Forest
    <2>2. \A c \in Slots : (IF par[c] = p /\ pix[c] >= k THEN pix[c] - k ELSE pix[c])
                           \in Nat \cup {-1}
        BY <2>1
    <2>3. QED
        BY <2>2 DEF SplitPix
<1>5. /\ \A c \in Slots : par2[c] = IF par[c] = p /\ pix[c] >= k THEN new ELSE par[c]
      /\ \A c \in Slots : pix2[c] = IF par[c] = p /\ pix[c] >= k THEN pix[c] - k ELSE pix[c]
      /\ \A s \in Slots \ {p, new} : es2[s] = es[s]
      /\ es2[p] = [j \in 1 .. k |-> es[p][j]]
      /\ es2[new] = [j \in 1 .. n - k |-> es[p][k + j]]
    BY <1>1, <1>20, <1>22, <1>23 DEF SplitPar, SplitPix, SplitEs
<1>51. Len(es2[p]) = k /\ Len(es2[new]) = n - k
    <2>1. Len(SubSeq(q, 1, k)) = k /\ Len(SubSeq(q, k + 1, n)) = n - k
        BY <1>20, <1>21, SegmentSeq
    <2>2. es2[p] = SubSeq(q, 1, k) /\ es2[new] = SubSeq(q, k + 1, n)
        BY <1>1, <1>20 DEF SplitEs
    <2>3. QED
        BY <2>1, <2>2
<1> HIDE DEF par2, pix2, es2
<1>50. ASSUME NEW i \in 1 .. n
       PROVE  /\ es[p][i] \in L /\ es[p][i] \in Slots
              /\ par[es[p][i]] = p /\ pix[es[p][i]] = i - 1
              /\ lv[es[p][i]] = lv[p] - 1
    BY <1>1, ForestChild
<1>6. ASSUME NEW s \in L, NEW j \in DOMAIN es2[s]
      PROVE  /\ es2[s][j] \in L
             /\ par2[es2[s][j]] = s
             /\ pix2[es2[s][j]] = j - 1
             /\ lv[es2[s][j]] = lv[s] - 1
    <2>1. CASE s # p /\ s # new
        <3>1. es2[s] = es[s] /\ j \in DOMAIN es[s] /\ s \in Slots
            BY <1>1, <1>5, <1>6, <2>1
        <3>2. PICK c \in L : /\ c = es[s][j] /\ c \in Slots
                             /\ par[c] = s /\ pix[c] = j - 1 /\ lv[c] = lv[s] - 1
            BY <3>1, ForestChild
        <3>3. QED
            BY <1>5, <2>1, <3>1, <3>2
    <2>2. CASE s = p
        <3>1. j \in 1 .. k /\ j \in 1 .. n
            BY <1>5, <1>6, <2>2
        <3>2. PICK c \in L : /\ c = es[p][j] /\ c \in Slots
                             /\ par[c] = p /\ pix[c] = j - 1 /\ lv[c] = lv[p] - 1
            BY <1>50, <3>1
        <3>3. es2[s][j] = c /\ par2[c] = p /\ pix2[c] = j - 1
            BY <1>5, <2>2, <3>1, <3>2
        <3>4. QED
            BY <2>2, <3>2, <3>3
    <2>3. CASE s = new
        <3>1. j \in 1 .. n - k /\ k + j \in 1 .. n
            BY <1>5, <1>6, <2>3
        <3>2. PICK c \in L : /\ c = es[p][k + j] /\ c \in Slots
                             /\ par[c] = p /\ pix[c] = (k + j) - 1 /\ lv[c] = lv[p] - 1
            BY <1>50, <3>1
        <3>3. es2[s][j] = c
            BY <1>5, <2>3, <3>1, <3>2
        <3>5. pix[c] = (k + j) - 1 /\ pix[c] >= k /\ pix[c] - k = j - 1
            BY <3>1, <3>2
        <3>6. par2[c] = new /\ pix2[c] = j - 1
            BY <1>5, <3>2, <3>5
        <3>4. QED
            BY <2>3, <3>2, <3>3, <3>6
    <2>4. QED
        BY <2>1, <2>2, <2>3
<1>7. ASSUME NEW s \in L, par2[s] # NULL
      PROVE  /\ par2[s] \in L
             /\ pix2[s] + 1 \in DOMAIN es2[par2[s]]
             /\ es2[par2[s]][pix2[s] + 1] = s
             /\ ow[s] = ow[par2[s]]
    <2>1. s \in Slots /\ par[s] # NULL
        BY <1>1, <1>5, <1>7
    <2>2. PICK m \in Nat, r \in Nat :
            /\ r \in 1 .. m
            /\ par[s] \in L /\ par[s] \in Slots
            /\ Len(es[par[s]]) = m /\ DOMAIN es[par[s]] = 1 .. m
            /\ es[par[s]][r] = s /\ pix[s] = r - 1
            /\ ow[s] = ow[par[s]]
        BY <2>1, ForestParent
    <2>3. CASE par[s] # p
        <3>1. par[s] # new
            BY <2>2
        <3>2. par2[s] = par[s] /\ pix2[s] = r - 1 /\ es2[par[s]] = es[par[s]] /\ (r - 1) + 1 = r
            BY <1>5, <2>1, <2>2, <2>3, <3>1
        <3>3. QED
            BY <2>1, <2>2, <3>2
    <2>4. CASE par[s] = p /\ r <= k
        <3>1. par2[s] = p /\ pix2[s] = r - 1 /\ (r - 1) + 1 = r /\ r \in 1 .. k
            BY <1>5, <2>1, <2>2, <2>4
        <3>2. r \in DOMAIN es2[p] /\ es2[p][r] = s
            BY <1>5, <2>2, <2>4, <3>1
        <3>3. QED
            BY <2>2, <2>4, <3>1, <3>2
    <2>5. CASE par[s] = p /\ r > k
        <3>1. m = n
            BY <2>2, <2>5
        <3>2. PICK j \in 1 .. n - k : r = k + j
            <4>1. r - k \in 1 .. n - k /\ r = k + (r - k)
                BY <2>2, <2>5, <3>1
            <4>2. QED
                BY <4>1
        <3>3. par2[s] = new /\ pix2[s] = j - 1 /\ (j - 1) + 1 = j
            BY <1>5, <2>1, <2>2, <2>5, <3>2
        <3>4. j \in DOMAIN es2[new] /\ es2[new][j] = s
            BY <1>5, <2>2, <2>5, <3>2
        <3>5. QED
            BY <2>2, <2>5, <3>3, <3>4
    <2>6. QED
        BY <2>2, <2>3, <2>4, <2>5
<1>8. ASSUME NEW s \in Slots \ L
      PROVE  par2[s] = NULL /\ es2[s] = <<>> /\ lv[s] = 0
    BY <1>1, <1>5 DEF Forest
<1>9. QED
    BY <1>3, <1>4, <1>51, <1>6, <1>7, <1>8 DEF Forest, par2, pix2, es2

-----------------------------------------------------------------------------
(***************************************************************************)
(* merge_prev_internal, merge_next_internal: the edges of a and then those *)
(* of b, which are gone and keep in one order or the other, in keep.       *)
(***************************************************************************)
JoinPar(par, keep, gone) == [c \in Slots |-> IF par[c] = gone THEN keep ELSE par[c]]
JoinPix(par, pix, b, n) == [c \in Slots |-> IF par[c] = b THEN pix[c] + n ELSE pix[c]]
JoinEs(es, keep, gone, a, b) ==
    [s \in Slots |-> IF s = keep THEN es[a] \o es[b] ELSE IF s = gone THEN <<>> ELSE es[s]]

\* merge_prev_internal, merge_next_internal: the edges of two nodes in one.
LEMMA Join ==
    ASSUME NEW L, NEW lv, NEW par, NEW pix, NEW es, NEW ow,
           Forest(L, lv, par, pix, es, ow),
           NEW keep \in L, NEW gone \in L, keep # gone,
           lv[keep] = lv[gone], ow[keep] = ow[gone], par[gone] # keep, par[keep] # gone,
           NEW a, NEW b, (a = keep /\ b = gone) \/ (a = gone /\ b = keep),
           NEW n \in Nat, Len(es[a]) = n, NEW k \in Nat, Len(es[b]) = k
    PROVE  /\ Forest(L, lv, JoinPar(par, keep, gone), JoinPix(par, pix, b, n),
                     JoinEs(es, keep, gone, a, b), ow)
           /\ Len(JoinEs(es, keep, gone, a, b)[keep]) = n + k
<1> DEFINE par2 == JoinPar(par, keep, gone)
           pix2 == JoinPix(par, pix, b, n)
           es2 == JoinEs(es, keep, gone, a, b)
<1>1. /\ L \subseteq Slots /\ a \in L /\ b \in L /\ a # b
      /\ keep # NULL /\ gone # NULL
      /\ es[a] \in Seq(Slots) /\ DOMAIN es[a] = 1 .. n
      /\ es[b] \in Seq(Slots) /\ DOMAIN es[b] = 1 .. k
    BY SlotsAssumption DEF Forest
<1>20. PICK q \in Seq(Slots), r \in Seq(Slots) : q = es[a] /\ Len(q) = n /\ r = es[b] /\ Len(r) = k
    BY <1>1
<1>21. q \o r = [j \in 1 .. n + k |-> IF j <= n THEN q[j] ELSE r[j - n]]
    <2>1. Len(q) = n
        BY <1>20
    <2>2. Len(r) = k
        BY <1>20
    <2>3. QED
        BY <2>1, <2>2, ConcatDef
<1>22. q \o r \in Seq(Slots) /\ Len(q \o r) = n + k
    <2>1. Len(q) = n
        BY <1>20
    <2>2. Len(r) = k
        BY <1>20
    <2>3. QED
        BY <2>1, <2>2, ConcatSeq
<1>3. par2 \in [Slots -> Slots \cup {NULL}]
    BY <1>1 DEF JoinPar, Forest
<1>31. es2 \in [Slots -> Seq(Slots)]
    <2>1. <<>> \in Seq(Slots)
        OBVIOUS
    <2>2. \A s \in Slots : es[s] \in Seq(Slots)
        BY DEF Forest
    <2>3. QED
        BY <1>20, <1>22, <2>1, <2>2 DEF JoinEs
<1>4. pix2 \in [Slots -> Nat \cup {-1}]
    <2>1. ASSUME NEW c \in Slots, par[c] = b PROVE pix[c] \in Nat
        <3>1. par[c] # NULL
            BY <1>1, <2>1, SlotsAssumption
        <3>2. /\ c \in L /\ par[c] \in L
              /\ pix[c] + 1 \in DOMAIN es[par[c]]
              /\ pix[c] \in Nat \cup {-1}
            BY <3>1 DEF Forest
        <3>3. pix[c] + 1 \in 1 .. k
            BY <1>1, <2>1, <3>2
        <3>4. QED
            BY <3>2, <3>3
    <2>2. \A c \in Slots : pix[c] \in Nat \cup {-1}
        BY DEF Forest
    <2>3. \A c \in Slots : (IF par[c] = b THEN pix[c] + n ELSE pix[c]) \in Nat \cup {-1}
        BY <2>1, <2>2
    <2>4. QED
        BY <2>3 DEF JoinPix
<1>5. /\ \A c \in Slots : par2[c] = IF par[c] = gone THEN keep ELSE par[c]
      /\ \A c \in Slots : pix2[c] = IF par[c] = b THEN pix[c] + n ELSE pix[c]
      /\ \A s \in Slots \ {keep, gone} : es2[s] = es[s]
      /\ es2[keep] = [j \in 1 .. n + k |-> IF j <= n THEN es[a][j] ELSE es[b][j - n]]
      /\ es2[gone] = <<>>
    BY <1>1, <1>20, <1>21 DEF JoinPar, JoinPix, JoinEs
<1>51. Len(es2[keep]) = n + k
    BY <1>1, <1>20, <1>22 DEF JoinEs
<1> HIDE DEF par2, pix2, es2
<1>6. ASSUME NEW s \in L, NEW j \in DOMAIN es2[s]
      PROVE  /\ es2[s][j] \in L
             /\ par2[es2[s][j]] = s
             /\ pix2[es2[s][j]] = j - 1
             /\ lv[es2[s][j]] = lv[s] - 1
    <2>1. CASE s # keep /\ s # gone
        <3>1. es2[s] = es[s] /\ j \in DOMAIN es[s] /\ s \in Slots /\ s # a /\ s # b
            BY <1>1, <1>5, <1>6, <2>1
        <3>2. PICK c \in L : /\ c = es[s][j] /\ c \in Slots
                             /\ par[c] = s /\ pix[c] = j - 1 /\ lv[c] = lv[s] - 1
            BY <3>1, ForestChild
        <3>3. QED
            BY <1>5, <2>1, <3>1, <3>2
    <2>2. CASE s = gone
        BY <1>5, <1>6, <2>2
    <2>3. CASE s = keep /\ j <= n
        <3>1. j \in 1 .. n /\ es2[keep][j] = es[a][j]
            BY <1>5, <1>6, <2>3
        <3>2. PICK c \in L : /\ c = es[a][j] /\ c \in Slots
                             /\ par[c] = a /\ pix[c] = j - 1 /\ lv[c] = lv[a] - 1
            BY <1>1, <3>1, ForestChild
        <3>3. par2[c] = keep /\ pix2[c] = j - 1
            BY <1>1, <1>5, <3>2
        <3>4. QED
            BY <2>3, <3>1, <3>2, <3>3
    <2>4. CASE s = keep /\ j > n
        <3>1. j - n \in 1 .. k /\ es2[keep][j] = es[b][j - n]
            BY <1>5, <1>6, <2>4
        <3>2. PICK c \in L : /\ c = es[b][j - n] /\ c \in Slots
                             /\ par[c] = b /\ pix[c] = (j - n) - 1 /\ lv[c] = lv[b] - 1
            BY <1>1, <3>1, ForestChild
        <3>3. par2[c] = keep /\ pix2[c] = j - 1
            <4>1. j \in Int /\ pix[c] + n = j - 1
                BY <1>5, <1>6, <2>4, <3>2
            <4>2. c \in Slots /\ par[c] = b /\ (b = gone \/ b = keep)
                BY <1>1, <3>2
            <4>3. QED
                BY <1>5, <4>1, <4>2
        <3>4. QED
            BY <2>4, <3>1, <3>2, <3>3
    <2>5. QED
        BY <1>5, <1>6, <2>1, <2>2, <2>3, <2>4
<1>7. ASSUME NEW s \in L, par2[s] # NULL
      PROVE  /\ par2[s] \in L
             /\ pix2[s] + 1 \in DOMAIN es2[par2[s]]
             /\ es2[par2[s]][pix2[s] + 1] = s
             /\ ow[s] = ow[par2[s]]
    <2>1. s \in Slots /\ par[s] # NULL
        BY <1>1, <1>5, <1>7
    <2>2. PICK m \in Nat, i \in Nat :
            /\ i \in 1 .. m
            /\ par[s] \in L /\ par[s] \in Slots
            /\ Len(es[par[s]]) = m /\ DOMAIN es[par[s]] = 1 .. m
            /\ es[par[s]][i] = s /\ pix[s] = i - 1
            /\ ow[s] = ow[par[s]]
        BY <2>1, ForestParent
    <2>3. CASE par[s] # a /\ par[s] # b
        <3>1. /\ par2[s] = par[s] /\ pix2[s] = i - 1 /\ (i - 1) + 1 = i
              /\ es2[par[s]] = es[par[s]]
            BY <1>5, <2>1, <2>2, <2>3
        <3>2. QED
            BY <2>1, <2>2, <3>1
    <2>4. CASE par[s] = a
        <3>1. m = n
            BY <2>2, <2>4
        <3>2. par2[s] = keep /\ pix2[s] = i - 1 /\ (i - 1) + 1 = i
            BY <1>1, <1>5, <2>1, <2>2, <2>4
        <3>3. i \in DOMAIN es2[keep] /\ es2[keep][i] = s
            BY <1>5, <2>2, <2>4, <3>1
        <3>4. ow[s] = ow[keep]
            BY <2>2, <2>4
        <3>5. QED
            BY <3>2, <3>3, <3>4
    <2>5. CASE par[s] = b
        <3>1. m = k
            BY <2>2, <2>5
        <3>2. PICK j \in 1 .. n + k : j = i + n
            BY <2>2, <3>1
        <3>3. par2[s] = keep /\ pix2[s] = j - 1 /\ (j - 1) + 1 = j
            BY <1>1, <1>5, <2>1, <2>2, <2>5, <3>2
        <3>4. j \in DOMAIN es2[keep] /\ ~(j <= n) /\ j - n = i
            BY <1>5, <2>2, <3>2
        <3>5. es2[keep][j] = s
            BY <1>5, <2>2, <2>5, <3>4
        <3>6. ow[s] = ow[keep]
            BY <2>2, <2>5
        <3>7. QED
            BY <3>3, <3>4, <3>5, <3>6
    <2>6. QED
        BY <2>3, <2>4, <2>5
<1>8. ASSUME NEW s \in Slots \ L
      PROVE  par2[s] = NULL /\ es2[s] = <<>> /\ lv[s] = 0
    BY <1>1, <1>5 DEF Forest
<1>9. QED
    BY <1>3, <1>31, <1>4, <1>51, <1>6, <1>7, <1>8 DEF Forest, par2, pix2, es2

-----------------------------------------------------------------------------
(***************************************************************************)
(* The two rewirings of post_removal that take more than one of the above. *)
(***************************************************************************)

\* Borrowing between internal nodes: edge q of `from`, e, becomes edge r of `to`.
MovePar(par, to, e) == [c \in Slots |-> IF c = e THEN to ELSE par[c]]
MovePix(par, pix, from, q, to, r, e) ==
    [c \in Slots |-> IF c = e THEN r - 1
                     ELSE IF par[c] = from /\ pix[c] >= q THEN pix[c] - 1
                     ELSE IF par[c] = to /\ pix[c] >= r - 1 THEN pix[c] + 1
                     ELSE pix[c]]
MoveEs(es, from, q, to, r, e) ==
    [s \in Slots |-> IF s = from THEN RemoveAt(es[from], q)
                     ELSE IF s = to THEN InsertAt(es[to], r, e) ELSE es[s]]

\* It is a Detach and an Attach.
LEMMA MoveEdge ==
    ASSUME NEW L, NEW lv, NEW par, NEW pix, NEW es, NEW ow,
           Forest(L, lv, par, pix, es, ow),
           NEW from \in L, NEW to \in L, from # to, lv[from] = lv[to], ow[from] = ow[to],
           NEW a \in Nat, Len(es[from]) = a, NEW q \in 1 .. a, NEW e, e = es[from][q],
           NEW b \in Nat, Len(es[to]) = b, NEW r \in 1 .. b + 1
    PROVE  /\ e \in L /\ par[e] = from
           /\ Forest(L, lv, MovePar(par, to, e), MovePix(par, pix, from, q, to, r, e),
                     MoveEs(es, from, q, to, r, e), ow)
           /\ Len(MoveEs(es, from, q, to, r, e)[from]) = a - 1
           /\ Len(MoveEs(es, from, q, to, r, e)[to]) = b + 1
<1>0. PICK par2, pix2, es2 :
        /\ par2 = MovePar(par, to, e)
        /\ pix2 = MovePix(par, pix, from, q, to, r, e)
        /\ es2 = MoveEs(es, from, q, to, r, e)
    OBVIOUS
<1>1. /\ from \in Slots /\ to \in Slots /\ from # NULL /\ to # NULL
      /\ par \in [Slots -> Slots \cup {NULL}]
      /\ pix \in [Slots -> Nat \cup {-1}]
      /\ es \in [Slots -> Seq(Slots)]
      /\ lv \in [Slots -> Nat]
    BY SlotsAssumption DEF Forest
<1>2. /\ e \in L /\ e \in Slots /\ par[e] = from /\ pix[e] = q - 1
      /\ lv[e] = lv[from] - 1 /\ ow[e] = ow[from]
    <2>1. es[from] \in Seq(Slots)
        BY <1>1
    <2>2. DOMAIN es[from] = 1 .. a
        BY <2>1
    <2>3. PICK j \in DOMAIN es[from] : j = q
        BY <2>2
    <2>4. from \in Slots
        BY <1>1
    <2>5. /\ es[from][j] \in L /\ es[from][j] \in Slots
          /\ par[es[from][j]] = from /\ pix[es[from][j]] = j - 1
          /\ lv[es[from][j]] = lv[from] - 1 /\ ow[es[from][j]] = ow[from]
        BY <2>4, ForestChild
    <2>6. QED
        BY <2>3, <2>5
<1>3. PICK par1, pix1, es1 :
        /\ par1 = DetachPar(par, e)
        /\ pix1 = DetachPix(par, pix, from, e, q)
        /\ es1 = DetachEs(es, from, q)
    OBVIOUS
<1>4. Forest(L, lv, par1, pix1, es1, ow) /\ Len(es1[from]) = a - 1
    BY <1>3, Detach
<1>5. par1[e] = NULL /\ es1[to] = es[to]
    BY <1>1, <1>2, <1>3 DEF DetachPar, DetachEs
<1>6. /\ Forest(L, lv, AttachPar(par1, to, e), AttachPix(par1, pix1, to, e, r),
                AttachEs(es1, to, e, r), ow)
      /\ Len(AttachEs(es1, to, e, r)[to]) = b + 1
    BY <1>2, <1>4, <1>5, Attach
<1>7. par2 = AttachPar(par1, to, e)
    BY <1>0, <1>1, <1>2, <1>3 DEF AttachPar, DetachPar, MovePar
<1>8. pix2 = AttachPix(par1, pix1, to, e, r)
    <2>1. \A c \in Slots : pix2[c] = AttachPix(par1, pix1, to, e, r)[c]
        <3>1. SUFFICES ASSUME NEW c \in Slots, c # e
                       PROVE  pix2[c] = AttachPix(par1, pix1, to, e, r)[c]
            BY <1>0 DEF AttachPix, MovePix
        <3>2. par1[c] = par[c]
            BY <1>3, <3>1 DEF DetachPar
        <3>3. pix1[c] = IF par[c] = from /\ pix[c] >= q THEN pix[c] - 1 ELSE pix[c]
            BY <1>3, <3>1 DEF DetachPix
        <3>4. AttachPix(par1, pix1, to, e, r)[c] =
                 IF par1[c] = to /\ pix1[c] >= r - 1 THEN pix1[c] + 1 ELSE pix1[c]
            BY <3>1 DEF AttachPix
        <3>5. pix2[c] = IF par[c] = from /\ pix[c] >= q THEN pix[c] - 1
                        ELSE IF par[c] = to /\ pix[c] >= r - 1 THEN pix[c] + 1
                        ELSE pix[c]
            BY <1>0, <3>1 DEF MovePix
        <3>6. QED
            BY <3>2, <3>3, <3>4, <3>5
    <2>2. /\ AttachPix(par1, pix1, to, e, r) =
                [c \in Slots |-> AttachPix(par1, pix1, to, e, r)[c]]
          /\ pix2 = [c \in Slots |-> pix2[c]]
        BY <1>0 DEF AttachPix, MovePix
    <2>3. QED
        BY <2>1, <2>2
<1>9. es2 = AttachEs(es1, to, e, r)
    BY <1>0, <1>1, <1>3 DEF AttachEs, DetachEs, MoveEs
<1>10. es2[from] = es1[from]
    BY <1>1, <1>9 DEF AttachEs
<1>11. QED
    BY <1>0, <1>2, <1>4, <1>6, <1>7, <1>8, <1>9, <1>10

\* Merging: edge i of p, e, leaves the tree and is discarded; it has no
\* children (any more).
MergeEs(es, p, i, e) ==
    [s \in Slots |-> IF s = e THEN <<>> ELSE IF s = p THEN RemoveAt(es[p], i) ELSE es[s]]

\* It is a Detach and a Discard.
LEMMA RemoveChild ==
    ASSUME NEW L, NEW lv, NEW par, NEW pix, NEW es, NEW ow,
           Forest(L, lv, par, pix, es, ow),
           NEW p \in L, NEW n \in Nat, Len(es[p]) = n, NEW i \in 1 .. n,
           NEW e, e = es[p][i], e # p, \A c \in Slots : par[c] # e,
           NEW gone \in SUBSET Slots, gone = {e}
    PROVE  Forest(L \ gone, Wiped(lv, gone, 0), DetachPar(par, e),
                  DetachPix(par, pix, p, e, i), MergeEs(es, p, i, e), ow)
<1>1. PICK par1, pix1, es1 :
        /\ par1 = DetachPar(par, e)
        /\ pix1 = DetachPix(par, pix, p, e, i)
        /\ es1 = DetachEs(es, p, i)
    OBVIOUS
<1>2. e \in L /\ Forest(L, lv, par1, pix1, es1, ow) /\ Len(es1[p]) = n - 1
    BY <1>1, Detach
<1>3. p \in Slots /\ e \in Slots /\ L \subseteq Slots
    BY <1>2 DEF Forest
<1>5. \A s \in L : par1[s] # NULL => (s \in gone <=> par1[s] \in gone)
    <2>1. par1[e] = NULL /\ \A s \in Slots : s # e => par1[s] = par[s]
        BY <1>1, <1>3 DEF DetachPar
    <2>2. QED
        BY <1>3, <2>1
<1>6. Forest(L \ gone, Wiped(lv, gone, 0), Wiped(par1, gone, NULL), pix1,
             Wiped(es1, gone, <<>>), ow)
    <2>1. pix1 \in [Slots -> Nat \cup {-1}]
        BY <1>2 DEF Forest
    <2>2. QED
        BY <1>2, <1>5, <2>1, Discard
<1>7. Wiped(par1, gone, NULL) = par1
    <2>1. par1 = [s \in Slots |-> par1[s]] /\ par1[e] = NULL
        BY <1>1, <1>3 DEF DetachPar
    <2>2. QED
        BY <2>1 DEF Wiped
<1>8. Wiped(es1, gone, <<>>) = MergeEs(es, p, i, e)
    BY <1>1 DEF Wiped, DetachEs, MergeEs
<1>9. QED
    BY <1>1, <1>6, <1>7, <1>8

-----------------------------------------------------------------------------
(***************************************************************************)
(* The invariant in the form the proofs use it: the wiring of the nodes as *)
(* a forest (BTreeForest), and what it says of the node a rebalancing loop *)
(* is at, its parent and its siblings.                                     *)
(***************************************************************************)

\* The forest of the current state
Wiring(owner) == Forest(live, level, parent, parent_idx, edges, owner)

OpOwned(owner) ==
    /\ op.pc # "idle" => owner[op.node] = op.map
    /\ op.pc = "overflow" => owner[op.right] = op.map

RootsOwned(owner) == \A m \in Maps : root[m] # NULL => owner[root[m]] = m

\* Types of what is not wiring
DataTypes ==
    /\ keys \in [Slots -> Seq(Keys)]
    /\ vals \in [Slots -> Seq(Values)]
    /\ prev \in [Slots -> Slots \cup {NULL}]
    /\ next \in [Slots -> Slots \cup {NULL}]
    /\ root \in [Maps -> Slots \cup {NULL}]
    /\ height \in [Maps -> Nat]
    /\ length \in [Maps -> Int]
    /\ op \in {Idle} \cup OverflowOps \cup UnderflowOps

DataBlank == \A s \in Slots \ live : keys[s] = <<>> /\ vals[s] = <<>>

Local ==
    /\ DataTypes /\ DataBlank /\ NodeShape /\ RootsAgree /\ Occupancy
    /\ PendingOverflow /\ PendingUnderflow /\ Orphans

\* The invariant is the forest and the rest.
LEMMA InvToForest ==
    ASSUME IInv
    PROVE  /\ Local
           /\ \E owner : Wiring(owner) /\ OpOwned(owner) /\ RootsOwned(owner)
<1>0. /\ TypeOK /\ NodeShape /\ ParentAgrees /\ RootsAgree /\ Occupancy
      /\ PendingOverflow /\ PendingUnderflow /\ Orphans /\ Owned /\ FreeBlank
    BY DEF IInv
<1>1. PICK owner \in [Slots -> Maps] : OwnedBy(owner)
    BY <1>0 DEF Owned
<1>2. Wiring(owner)
    <2>1. /\ live \subseteq Slots /\ level \in [Slots -> Nat]
          /\ parent \in [Slots -> Slots \cup {NULL}]
          /\ parent_idx \in [Slots -> Nat \cup {-1}]
          /\ edges \in [Slots -> Seq(Slots)]
        BY <1>0 DEF TypeOK, Uninit
    <2>2. \A s \in live : \A i \in DOMAIN edges[s] :
              /\ edges[s][i] \in live
              /\ parent[edges[s][i]] = s
              /\ parent_idx[edges[s][i]] = i - 1
              /\ level[edges[s][i]] = level[s] - 1
        BY <1>0 DEF ParentAgrees
    <2>3. \A s \in live : parent[s] # NULL =>
              /\ parent[s] \in live
              /\ parent_idx[s] + 1 \in DOMAIN edges[parent[s]]
              /\ edges[parent[s]][parent_idx[s] + 1] = s
              /\ owner[s] = owner[parent[s]]
        BY <1>0, <1>1 DEF ParentAgrees, OwnedBy
    <2>4. \A s \in Slots \ live : parent[s] = NULL /\ edges[s] = <<>> /\ level[s] = 0
        BY <1>0 DEF FreeBlank
    <2>5. QED
        BY <2>1, <2>2, <2>3, <2>4 DEF Wiring, Forest
<1>3. OpOwned(owner) /\ RootsOwned(owner)
    BY <1>1 DEF OwnedBy, OpOwned, RootsOwned
<1>4. DataTypes /\ DataBlank
    BY <1>0 DEF TypeOK, FreeBlank, DataTypes, DataBlank
<1>5. QED
    BY <1>0, <1>2, <1>3, <1>4 DEF Local

\* The forest and the rest are the invariant.
LEMMA ForestToInv ==
    ASSUME Local, NEW owner, Wiring(owner), OpOwned(owner), RootsOwned(owner)
    PROVE  IInv
<1>1. /\ DataTypes /\ DataBlank /\ NodeShape /\ RootsAgree /\ Occupancy
      /\ PendingOverflow /\ PendingUnderflow /\ Orphans
    BY DEF Local
<1>2. /\ live \subseteq Slots /\ level \in [Slots -> Nat]
      /\ parent \in [Slots -> Slots \cup {NULL}]
      /\ parent_idx \in [Slots -> Nat \cup {-1}]
      /\ edges \in [Slots -> Seq(Slots)]
      /\ owner \in [Slots -> Maps]
    BY DEF Wiring, Forest
<1>3. \A s \in live : \A i \in DOMAIN edges[s] :
          /\ edges[s][i] \in live
          /\ parent[edges[s][i]] = s
          /\ parent_idx[edges[s][i]] = i - 1
          /\ level[edges[s][i]] = level[s] - 1
    BY DEF Wiring, Forest
<1>4. \A s \in live : parent[s] # NULL =>
          /\ parent[s] \in live
          /\ parent_idx[s] + 1 \in DOMAIN edges[parent[s]]
          /\ edges[parent[s]][parent_idx[s] + 1] = s
          /\ owner[s] = owner[parent[s]]
    BY DEF Wiring, Forest
<1>5. \A s \in Slots \ live : parent[s] = NULL /\ edges[s] = <<>> /\ level[s] = 0
    BY DEF Wiring, Forest
<1>6. TypeOK
    BY <1>1, <1>2 DEF TypeOK, DataTypes, Uninit
<1>7. ParentAgrees
    BY <1>3, <1>4 DEF ParentAgrees
<1>8. Owned
    <2>1. OwnedBy(owner)
        BY <1>4 DEF OwnedBy, OpOwned, RootsOwned
    <2>2. QED
        BY <1>2, <2>1 DEF Owned
<1>9. FreeBlank
    BY <1>1, <1>5 DEF FreeBlank, DataBlank
<1>10. QED
    BY <1>1, <1>6, <1>7, <1>8, <1>9 DEF IInv

\* The same after a step
LEMMA ForestToInvPrime ==
    ASSUME Local', NEW owner, Wiring(owner)', OpOwned(owner)', RootsOwned(owner)'
    PROVE  IInv'
BY ForestToInv, PTL

-----------------------------------------------------------------------------
(***************************************************************************)
(* Nodes.                                                                  *)
(***************************************************************************)

\* The arrays of one node and their lengths
LEMMA NodeData ==
    ASSUME Local, NEW owner, Wiring(owner), NEW s \in Slots
    PROVE  \E n \in Nat :
              /\ n <= M
              /\ Len(keys[s]) = n
              /\ keys[s] \in Seq(Keys) /\ vals[s] \in Seq(Values) /\ edges[s] \in Seq(Slots)
              /\ level[s] \in Nat /\ owner[s] \in Maps
              /\ level[s] = 0 => edges[s] = <<>> /\ Len(vals[s]) = n
              /\ level[s] # 0 => vals[s] = <<>> /\ Len(edges[s]) = n + 1
                                 /\ DOMAIN edges[s] = 1 .. n + 1
<1>1. keys[s] \in Seq(Keys) /\ vals[s] \in Seq(Values) /\ NodeShape
    BY DEF Local, DataTypes
<1>2. edges[s] \in Seq(Slots) /\ level[s] \in Nat /\ owner[s] \in Maps
    BY DEF Wiring, Forest
<1>3. PICK n \in Nat : Len(keys[s]) = n
    BY <1>1
<1>4. n <= M
    BY <1>1, <1>3 DEF NodeShape
<1>5. level[s] = 0 => edges[s] = <<>> /\ Len(vals[s]) = n
    BY <1>1, <1>3 DEF NodeShape
<1>6. level[s] # 0 => vals[s] = <<>> /\ Len(edges[s]) = n + 1
                      /\ DOMAIN edges[s] = 1 .. n + 1
    BY <1>1, <1>2, <1>3 DEF NodeShape
<1>7. QED
    BY <1>1, <1>2, <1>3, <1>4, <1>5, <1>6

\* The place of a node in its parent
LEMMA ParentData ==
    ASSUME Local, NEW owner, Wiring(owner), NEW s \in Slots, parent[s] # NULL
    PROVE  \E n \in Nat, i \in Nat :
              /\ s \in live /\ parent[s] \in live /\ parent[s] \in Slots
              /\ parent[s] # s
              /\ level[s] \in Nat /\ level[parent[s]] \in Nat /\ level[parent[s]] # 0
              /\ level[s] = level[parent[s]] - 1
              /\ owner[s] = owner[parent[s]]
              /\ n <= M
              /\ Len(keys[parent[s]]) = n
              /\ keys[parent[s]] \in Seq(Keys)
              /\ vals[parent[s]] = <<>>
              /\ edges[parent[s]] \in Seq(Slots)
              /\ Len(edges[parent[s]]) = n + 1
              /\ DOMAIN edges[parent[s]] = 1 .. n + 1
              /\ parent_idx[s] = i
              /\ i <= n
              /\ edges[parent[s]][i + 1] = s
<1>1. PICK m \in Nat, q \in Nat :
        /\ q \in 1 .. m
        /\ s \in live /\ parent[s] \in live /\ parent[s] \in Slots /\ parent[s] # s
        /\ Len(edges[parent[s]]) = m /\ DOMAIN edges[parent[s]] = 1 .. m
        /\ edges[parent[s]][q] = s
        /\ parent_idx[s] = q - 1
        /\ level[s] = level[parent[s]] - 1
        /\ level[s] \in Nat /\ level[parent[s]] \in Nat
        /\ owner[s] = owner[parent[s]]
    BY ForestParent DEF Wiring
<1>2. level[parent[s]] # 0
    BY <1>1
<1>3. PICK n \in Nat :
        /\ n <= M
        /\ Len(keys[parent[s]]) = n
        /\ keys[parent[s]] \in Seq(Keys) /\ edges[parent[s]] \in Seq(Slots)
        /\ vals[parent[s]] = <<>> /\ Len(edges[parent[s]]) = n + 1
        /\ DOMAIN edges[parent[s]] = 1 .. n + 1
    BY <1>1, <1>2, NodeData
<1>4. m = n + 1
    BY <1>1, <1>3
<1>5. PICK i \in Nat : q = i + 1 /\ i <= n
    <2>1. q - 1 \in Nat /\ q = (q - 1) + 1 /\ q - 1 <= n
        BY <1>1, <1>4
    <2>2. QED
        BY <2>1
<1>6. parent_idx[s] = i /\ edges[parent[s]][i + 1] = s
    BY <1>1, <1>5
<1>7. QED
    BY <1>1, <1>2, <1>3, <1>5, <1>6

\* A loop that climbs to an internal node without a parent is at the root of
\* the map it works for.
LEMMA Climb ==
    ASSUME Local, NEW owner, Wiring(owner), RootsOwned(owner),
           NEW s \in live, level[s] # 0, parent[s] = NULL,
           ~(op.pc = "overflow" /\ s = op.right)
    PROVE  root[owner[s]] = s
<1>1. PICK m \in Maps : root[m] = s
    BY DEF Local, Orphans
<1>2. s # NULL
    BY SlotsAssumption DEF Wiring, Forest
<1>3. owner[s] = m
    BY <1>1, <1>2 DEF RootsOwned
<1>4. QED
    BY <1>1, <1>3

-----------------------------------------------------------------------------
(***************************************************************************)
(* Renumbering.                                                            *)
(***************************************************************************)

\* The children whose parent_idx is at least i are those the loops renumber.
LEMMA EdgesFromIs ==
    ASSUME NEW L, NEW lv, NEW par, NEW pix, NEW es, NEW ow,
           Forest(L, lv, par, pix, es, ow),
           NEW p \in Slots, NEW i \in Nat, NEW c \in Slots
    PROVE  c \in EdgesFrom(es[p], i) <=> par[c] = p /\ pix[c] >= i
<1>1. ASSUME c \in EdgesFrom(es[p], i)
      PROVE  par[c] = p /\ pix[c] >= i
    <2>1. PICK j \in DOMAIN es[p] : j > i /\ c = es[p][j]
        BY <1>1 DEF EdgesFrom
    <2>2. par[c] = p /\ pix[c] = j - 1
        BY <2>1, ForestChild
    <2>3. j \in Int
        <3>1. es[p] \in Seq(Slots)
            BY DEF Forest
        <3>2. QED
            BY <3>1
    <2>4. QED
        BY <2>1, <2>2, <2>3
<1>2. ASSUME par[c] = p, pix[c] >= i
      PROVE  c \in EdgesFrom(es[p], i)
    <2>1. par[c] # NULL
        BY <1>2, SlotsAssumption
    <2>2. PICK n \in Nat, j \in Nat :
            /\ j \in 1 .. n /\ DOMAIN es[p] = 1 .. n
            /\ es[p][j] = c /\ pix[c] = j - 1
        BY <1>2, <2>1, ForestParent
    <2>3. j > i
        BY <1>2, <2>2
    <2>4. QED
        BY <2>2, <2>3 DEF EdgesFrom
<1>3. QED
    BY <1>1, <1>2

\* The children of a node
LEMMA EdgesAre ==
    ASSUME NEW L, NEW lv, NEW par, NEW pix, NEW es, NEW ow,
           Forest(L, lv, par, pix, es, ow),
           NEW p \in Slots, NEW c \in Slots
    PROVE  c \in ToSet(es[p]) <=> par[c] = p
<1>1. ASSUME c \in ToSet(es[p]) PROVE par[c] = p
    <2>1. PICK j \in DOMAIN es[p] : c = es[p][j]
        BY <1>1 DEF ToSet
    <2>2. QED
        BY <2>1, ForestChild
<1>2. ASSUME par[c] = p PROVE c \in ToSet(es[p])
    <2>1. par[c] # NULL
        BY <1>2, SlotsAssumption
    <2>2. PICK n \in Nat, j \in Nat :
            j \in 1 .. n /\ DOMAIN es[p] = 1 .. n /\ es[p][j] = c
        BY <1>2, <2>1, ForestParent
    <2>3. QED
        BY <2>2 DEF ToSet
<1>3. QED
    BY <1>1, <1>2

-----------------------------------------------------------------------------
(***************************************************************************)
(* Allocation.                                                             *)
(***************************************************************************)

\* The slot the arena picks is free, and blank.
LEMMA FreshData ==
    ASSUME Local, NEW owner, Wiring(owner), CanAlloc
    PROVE  /\ Fresh \in Slots /\ Fresh \notin live
           /\ keys[Fresh] = <<>> /\ vals[Fresh] = <<>> /\ edges[Fresh] = <<>>
           /\ parent[Fresh] = NULL /\ level[Fresh] = 0
           /\ \A m \in Maps : root[m] # Fresh
           /\ \A s \in Slots : parent[s] # Fresh
<1>1. live \subseteq Slots
    BY DEF Wiring, Forest
<1>2. \E s \in Slots : s \notin live
    BY <1>1 DEF CanAlloc
<1>3. Fresh \in Slots /\ Fresh \notin live
    BY <1>2 DEF Fresh
<1>4. parent[Fresh] = NULL /\ edges[Fresh] = <<>> /\ level[Fresh] = 0
    BY <1>3 DEF Wiring, Forest
<1>5. keys[Fresh] = <<>> /\ vals[Fresh] = <<>>
    BY <1>3 DEF Local, DataBlank
<1>6. \A m \in Maps : root[m] # Fresh
    BY <1>3, SlotsAssumption DEF Local, RootsAgree
<1>7. \A s \in Slots : parent[s] # Fresh
    <2>1. \A s \in Slots : s \in live /\ parent[s] # NULL => parent[s] \in live
        BY DEF Wiring, Forest
    <2>2. \A s \in Slots : s \notin live => parent[s] = NULL
        BY DEF Wiring, Forest
    <2>3. QED
        BY <1>3, <2>1, <2>2, SlotsAssumption
<1>8. QED
    BY <1>3, <1>4, <1>5, <1>6, <1>7
=============================================================================
