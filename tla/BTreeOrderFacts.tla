--------------------------- MODULE BTreeOrderFacts ---------------------------
(***************************************************************************)
(* Facts about one node and its interval of keys: what inserting, removing *)
(* and replacing keys, splitting a node and joining two leave of their     *)
(* order (LeafOrdered and Divides of BTreeOrderInv), and which edge a      *)
(* search takes; and about sequences that are joined end to end.           *)
(***************************************************************************)
EXTENDS BTreeOrderInv, BTreeForest

-----------------------------------------------------------------------------
(***************************************************************************)
(* Cuts.                                                                   *)
(***************************************************************************)

\* What is above a key
LEMMA UpIs ==
    ASSUME NEW k \in Keys, NEW x \in Keys
    PROVE  /\ Up(k) \in Cuts
           /\ x \in Up(k) <=> k <= x
           /\ Above(Up(k), x) <=> k < x
<1>1. Up(k) \in Cuts /\ (x \in Up(k) <=> k <= x)
    BY DEF Up, Cuts
<1>2. Above(Up(k), x) <=> k < x
    BY KeysAssumption DEF Above, Up
<1>3. QED
    BY <1>1, <1>2

\* A cut is a set of keys with every key above one of its own.
LEMMA CutIs ==
    ASSUME NEW C \in Cuts
    PROVE  /\ C \subseteq Keys
           /\ \A x \in C : \A y \in Keys : x <= y => y \in C
<1>1. CASE C = {} \/ C = Keys
    BY <1>1
<1>2. CASE \E k \in Keys : C = Up(k)
    <2>1. PICK k \in Keys : C = Up(k)
        BY <1>2
    <2>2. \A x \in C : x \in Keys /\ k <= x
        BY <2>1 DEF Up
    <2>3. ASSUME NEW x \in C, NEW y \in Keys, x <= y
          PROVE  y \in C
        <3>1. k \in Int /\ x \in Int /\ y \in Int
            BY <2>2, KeysAssumption
        <3>2. k <= y
            BY <2>2, <2>3, <3>1
        <3>3. QED
            BY <2>1, <3>2 DEF Up
    <2>4. QED
        BY <2>2, <2>3
<1>3. QED
    BY <1>1, <1>2 DEF Cuts

\* Room between a cut and a key: the key is above the cut, and stays so as
\* keys grow.
LEMMA AboveIs ==
    ASSUME NEW C \in Cuts, NEW k \in Keys, Above(C, k)
    PROVE  /\ k \in C
           /\ C # {}
           /\ C # Up(k)
           /\ \A y \in Keys : k <= y => Above(C, y)
<1>1. PICK x \in C : x < k
    BY DEF Above
<1>2. x \in Keys /\ x \in Int /\ k \in Int
    BY CutIs, KeysAssumption
<1>3. k \in C
    BY <1>1, <1>2, CutIs
<1>4. x \notin Up(k)
    BY <1>1, <1>2, UpIs
<1>5. \A y \in Keys : k <= y => Above(C, y)
    BY <1>1, <1>2, KeysAssumption DEF Above
<1>6. QED
    BY <1>1, <1>3, <1>4, <1>5

\* Of two cuts one holds the other: the keys in the first but not in the
\* second are below those in the second.
LEMMA CutsNest ==
    ASSUME NEW C \in Cuts, NEW x \in Keys, x \notin C, NEW y \in C
    PROVE  x < y /\ y \in Keys
<1>1. y \in Keys /\ x \in Int /\ y \in Int
    BY CutIs, KeysAssumption
<1>2. ~(y <= x)
    BY CutIs
<1>3. QED
    BY <1>1, <1>2

-----------------------------------------------------------------------------
(***************************************************************************)
(* The keys and edges of an internal node.                                 *)
(***************************************************************************)

\* Two separators in a row rise.
LEMMA SeparatorsRise ==
    ASSUME NEW lo \in [Slots -> Cuts], NEW hi \in [Slots -> Cuts],
           NEW d, NEW e \in Slots, NEW f, NEW k \in Keys, NEW x \in Keys,
           Separates(k, d, e, lo, hi), Separates(x, e, f, lo, hi)
    PROVE  k < x
BY UpIs DEF Separates

\* A node with n keys that divide its interval, and its types
Divided(n, ks, es, L, H, lo, hi) ==
    /\ n \in Nat /\ ks \in Seq(Keys) /\ Len(ks) = n
    /\ es \in Seq(Slots) /\ Len(es) = n + 1
    /\ L \in Cuts /\ H \in Cuts /\ lo \in [Slots -> Cuts] /\ hi \in [Slots -> Cuts]
    /\ Divides(ks, es, L, H, lo, hi)

\* A node is framed by what its edges are.
LEMMA DividesFrame ==
    ASSUME NEW n \in Nat, NEW ks \in Seq(Keys), Len(ks) = n,
           NEW es \in Seq(Slots), Len(es) = n + 1,
           NEW L, NEW H, NEW lo, NEW hi, Divides(ks, es, L, H, lo, hi),
           NEW lo2, NEW hi2, \A i \in 1 .. n + 1 : lo2[es[i]] = lo[es[i]] /\ hi2[es[i]] = hi[es[i]]
    PROVE  Divides(ks, es, L, H, lo2, hi2)
<1>1. /\ lo[es[1]] = L
      /\ hi[es[n + 1]] = H
      /\ \A i \in 1 .. n : Separates(ks[i], es[i], es[i + 1], lo, hi)
    BY DOMAIN ks = 1 .. n DEF Divides
<1>2. lo2[es[1]] = L /\ hi2[es[n + 1]] = H
    BY <1>1
<1>3. ASSUME NEW i \in 1 .. n
      PROVE  Separates(ks[i], es[i], es[i + 1], lo2, hi2)
    <2>1. i \in 1 .. n + 1 /\ i + 1 \in 1 .. n + 1
        OBVIOUS
    <2>2. QED
        BY <1>1, <2>1 DEF Separates
<1>4. QED
    BY <1>2, <1>3, DOMAIN ks = 1 .. n DEF Divides

\* insert_edge(idx, true): the right half of a split node goes in beside the
\* left one, with the key between them.
LEMMA DividesInsert ==
    ASSUME NEW n, NEW ks, NEW es, NEW L, NEW H, NEW lo, NEW far,
           Divided(n, ks, es, L, H, lo, far), NEW hi \in [Slots -> Cuts],
           NEW j \in 1 .. n + 1, NEW right \in Slots, NEW k \in Keys,
           \A i \in 1 .. n + 1 : i # j => hi[es[i]] = far[es[i]],
           hi[right] = far[es[j]],
           Separates(k, es[j], right, lo, hi)
    PROVE  Divides(InsertAt(ks, j, k), InsertAt(es, j + 1, right), L, H, lo, hi)
<1>a. n \in Nat /\ ks \in Seq(Keys) /\ Len(ks) = n /\ es \in Seq(Slots) /\ Len(es) = n + 1
    BY DEF Divided
<1>b. /\ L \in Cuts /\ H \in Cuts /\ lo \in [Slots -> Cuts] /\ far \in [Slots -> Cuts]
      /\ Divides(ks, es, L, H, lo, far)
    BY DEF Divided
<1> USE <1>a, <1>b
<1>1. /\ lo[es[1]] = L
      /\ far[es[n + 1]] = H
      /\ \A i \in 1 .. n : Separates(ks[i], es[i], es[i + 1], lo, far)
    BY DOMAIN ks = 1 .. n DEF Divides
<1> DEFINE k2 == InsertAt(ks, j, k)
           e2 == InsertAt(es, j + 1, right)
<1>2. k2 \in Seq(Keys) /\ Len(k2) = n + 1 /\ DOMAIN k2 = 1 .. n + 1
    BY InsertAtSeq
<1>3. k2 = [i \in 1 .. n + 1 |-> IF i < j THEN ks[i] ELSE IF i = j THEN k ELSE ks[i - 1]]
    BY InsertAtDef
<1>4. e2 = [i \in 1 .. n + 2 |-> IF i < j + 1 THEN es[i]
                                 ELSE IF i = j + 1 THEN right ELSE es[i - 1]]
    <2>1. \A a \in Nat : Len(es) = a => \A b \in 1 .. a + 1 :
            InsertAt(es, b, right) = [i \in 1 .. a + 1 |-> IF i < b THEN es[i]
                                        ELSE IF i = b THEN right ELSE es[i - 1]]
        BY InsertAtDef
    <2>2. n + 1 \in Nat /\ j + 1 \in 1 .. (n + 1) + 1 /\ (n + 1) + 1 = n + 2
        OBVIOUS
    <2>3. QED
        BY <2>1, <2>2
<1>5. \A i \in 1 .. n + 1 : es[i] \in Slots
    OBVIOUS
<1>6. \A i \in 1 .. n : ks[i] \in Keys
    OBVIOUS
<1> HIDE DEF k2, e2
<1>7. lo[e2[1]] = L
    BY <1>1, <1>4
<1>8. hi[e2[n + 2]] = H
    <2>1. CASE j = n + 1
        BY <1>1, <1>4, <2>1
    <2>2. CASE j # n + 1
        BY <1>1, <1>4, <2>2
    <2>3. QED
        BY <2>1, <2>2
<1>9. ASSUME NEW i \in 1 .. n + 1
      PROVE  Separates(k2[i], e2[i], e2[i + 1], lo, hi)
    <2>1. CASE i < j
        <3>1. k2[i] = ks[i] /\ e2[i] = es[i] /\ e2[i + 1] = es[i + 1]
              /\ i \in 1 .. n /\ i + 1 \in 1 .. n + 1 /\ i # j
            BY <1>3, <1>4, <2>1
        <3>2. Separates(ks[i], es[i], es[i + 1], lo, far)
            BY <1>1, <3>1
        <3>3. CASE i + 1 = j
            <4>1. ks[i] < k
                BY <1>5, <1>6, <3>1, <3>2, <3>3, UpIs DEF Separates
            <4>2. ks[i] \notin hi[es[i + 1]]
                <5>1. ks[i] \in Int /\ k \in Int /\ ks[i] \in Keys
                    BY <1>6, <3>1, KeysAssumption
                <5>2. ~(k <= ks[i])
                    BY <4>1, <5>1
                <5>3. hi[es[i + 1]] = Up(k)
                    BY <3>3 DEF Separates
                <5>4. QED
                    BY <5>1, <5>2, <5>3, UpIs
            <4>3. QED
                BY <3>1, <3>2, <4>2 DEF Separates
        <3>4. CASE i + 1 # j
            BY <3>1, <3>2, <3>4 DEF Separates
        <3>5. QED
            BY <3>3, <3>4
    <2>2. CASE i = j
        BY <1>3, <1>4, <2>2
    <2>3. CASE i = j + 1
        <3>1. k2[i] = ks[j] /\ e2[i] = right /\ e2[i + 1] = es[j + 1]
              /\ j \in 1 .. n /\ j + 1 \in 1 .. n + 1
            BY <1>3, <1>4, <2>3
        <3>2. Separates(ks[j], es[j], es[j + 1], lo, far) /\ ks[j] \in Keys
            BY <1>1, <1>6, <3>1
        <3>3. Above(lo[right], ks[j])
            <4>1. k \notin Up(ks[j])
                BY <3>2 DEF Separates
            <4>2. k \in Int /\ ks[j] \in Int
                BY <3>2, KeysAssumption
            <4>3. k < ks[j]
                BY <3>2, <4>1, <4>2, UpIs
            <4>4. lo[right] = Up(k)
                BY DEF Separates
            <4>5. QED
                BY <3>2, <4>3, <4>4, UpIs
        <3>4. hi[right] = Up(ks[j]) /\ lo[es[j + 1]] = Up(ks[j]) /\ hi[es[j + 1]] = far[es[j + 1]]
            BY <3>1, <3>2 DEF Separates
        <3>5. QED
            BY <3>1, <3>2, <3>3, <3>4 DEF Separates
    <2>4. CASE i > j + 1
        <3>1. PICK c \in 1 .. n : i = c + 1
            BY <2>4
        <3>2. k2[i] = ks[c] /\ e2[i] = es[c] /\ e2[i + 1] = es[c + 1]
              /\ c + 1 \in 1 .. n + 1 /\ c \in 1 .. n + 1 /\ c # j /\ c + 1 # j
            BY <1>3, <1>4, <2>4, <3>1
        <3>3. Separates(ks[c], es[c], es[c + 1], lo, far)
            BY <1>1
        <3>4. QED
            BY <3>2, <3>3 DEF Separates
    <2>5. QED
        BY <2>1, <2>2, <2>3, <2>4
<1>10. (n + 1) + 1 = n + 2 /\ n + 1 \in Nat
    OBVIOUS
<1>11. Divides(k2, e2, L, H, lo, hi)
    BY <1>2, <1>7, <1>8, <1>9, <1>10 DEF Divides
<1>12. QED
    BY <1>11 DEF k2, e2

\* The keys of a node are within its interval, and rise.
LEMMA DividesSpan ==
    ASSUME NEW n, NEW ks, NEW es, NEW L, NEW H, NEW lo, NEW hi,
           Divided(n, ks, es, L, H, lo, hi)
    PROVE  /\ \A i \in 1 .. n : Above(L, ks[i]) /\ ks[i] \notin H
           /\ \A i, j \in 1 .. n : i < j => ks[i] < ks[j]
<1>a. n \in Nat /\ ks \in Seq(Keys) /\ Len(ks) = n /\ es \in Seq(Slots) /\ Len(es) = n + 1
    BY DEF Divided
<1>b. /\ L \in Cuts /\ H \in Cuts /\ lo \in [Slots -> Cuts] /\ hi \in [Slots -> Cuts]
      /\ Divides(ks, es, L, H, lo, hi)
    BY DEF Divided
<1> USE <1>a, <1>b
<1>1. /\ lo[es[1]] = L
      /\ hi[es[n + 1]] = H
      /\ \A i \in 1 .. n : Separates(ks[i], es[i], es[i + 1], lo, hi)
    BY DOMAIN ks = 1 .. n DEF Divides
<1>2. /\ \A i \in 1 .. n : ks[i] \in Keys /\ ks[i] \in Int
      /\ \A i \in 1 .. n + 1 : es[i] \in Slots
    <2>1. \A i \in 1 .. n : ks[i] \in Keys
        OBVIOUS
    <2>2. \A i \in 1 .. n + 1 : es[i] \in Slots
        OBVIOUS
    <2>3. QED
        BY <2>1, <2>2, KeysAssumption
<1>3. ASSUME NEW i \in 1 .. n, i + 1 \in 1 .. n
      PROVE  ks[i] < ks[i + 1]
    <2>1. Separates(ks[i], es[i], es[i + 1], lo, hi)
          /\ Separates(ks[i + 1], es[i + 1], es[(i + 1) + 1], lo, hi)
        BY <1>1, <1>3
    <2>2. i + 1 \in 1 .. n + 1
        OBVIOUS
    <2>3. QED
        BY <1>2, <1>3, <2>1, <2>2, SeparatorsRise
<1>4. ASSUME NEW i \in 1 .. n, NEW j \in 1 .. n, i < j
      PROVE  ks[i] < ks[j]
    <2> DEFINE Bad == {d \in Nat : i + d + 1 \in 1 .. n /\ ~(ks[i] < ks[i + d + 1])}
    <2>1. SUFFICES Bad = {}
        <3>1. PICK d \in Nat : j = i + d + 1
            <4>1. j - i - 1 \in Nat /\ j = i + (j - i - 1) + 1
                BY <1>4
            <4>2. QED
                BY <4>1
        <3>2. QED
            BY <3>1
    <2>2. SUFFICES ASSUME Bad # {} PROVE FALSE
        OBVIOUS
    <2>3. PICK d \in Bad : \A x \in Bad : d <= x
        BY <2>2, LeastNat
    <2>4. d # 0
        BY <1>3, <2>3
    <2>5. PICK c \in Nat : d = c + 1 /\ i + c + 1 \in 1 .. n /\ (i + c + 1) + 1 \in 1 .. n
                           /\ i + d + 1 = (i + c + 1) + 1
        <3>1. d - 1 \in Nat /\ d = (d - 1) + 1
            BY <2>4
        <3>2. QED
            BY <2>3, <3>1
    <2>6. ks[i] < ks[i + c + 1]
        <3>1. c \notin Bad
            BY <2>3, <2>5
        <3>2. QED
            BY <2>5, <3>1
    <2>7. ks[i + c + 1] < ks[(i + c + 1) + 1]
        BY <1>3, <2>5
    <2>8. ks[i] < ks[i + d + 1]
        BY <1>2, <2>5, <2>6, <2>7
    <2>9. QED
        BY <2>3, <2>8
<1>5. ASSUME NEW i \in 1 .. n
      PROVE  Above(L, ks[i])
    <2>1. 1 \in 1 .. n /\ 1 \in 1 .. n + 1
        OBVIOUS
    <2>2. Above(L, ks[1])
        BY <1>1, <2>1 DEF Separates
    <2>3. ks[1] <= ks[i]
        BY <1>2, <1>4, <2>1
    <2>4. QED
        BY <1>2, <2>1, <2>2, <2>3, AboveIs
<1>6. ASSUME NEW i \in 1 .. n
      PROVE  ks[i] \notin H
    <2>1. n \in 1 .. n
        OBVIOUS
    <2>2. ks[n] \notin H
        BY <1>1, <2>1 DEF Separates
    <2>3. ks[i] <= ks[n]
        BY <1>2, <1>4, <2>1
    <2>4. QED
        BY <1>2, <2>1, <2>2, <2>3, CutIs
<1>7. QED
    BY <1>4, <1>5, <1>6

\* split_internal: the edges to the left and to the right of a key
LEMMA DividesHalves ==
    ASSUME NEW n, NEW ks, NEW es, NEW L, NEW H, NEW lo, NEW hi,
           Divided(n, ks, es, L, H, lo, hi), NEW j \in 1 .. n
    PROVE  /\ Divides(SubSeq(ks, 1, j - 1), SubSeq(es, 1, j), L, Up(ks[j]), lo, hi)
           /\ Divides(SubSeq(ks, j + 1, n), SubSeq(es, j + 1, n + 1), Up(ks[j]), H, lo, hi)
<1>a. n \in Nat /\ ks \in Seq(Keys) /\ Len(ks) = n /\ es \in Seq(Slots) /\ Len(es) = n + 1
    BY DEF Divided
<1>b. /\ L \in Cuts /\ H \in Cuts /\ lo \in [Slots -> Cuts] /\ hi \in [Slots -> Cuts]
      /\ Divides(ks, es, L, H, lo, hi)
    BY DEF Divided
<1> USE <1>a, <1>b
<1>1. /\ lo[es[1]] = L
      /\ hi[es[n + 1]] = H
      /\ \A i \in 1 .. n : Separates(ks[i], es[i], es[i + 1], lo, hi)
    BY DOMAIN ks = 1 .. n DEF Divides
<1>2. hi[es[j]] = Up(ks[j]) /\ lo[es[j + 1]] = Up(ks[j])
    BY <1>1 DEF Separates
<1>3. Divides(SubSeq(ks, 1, j - 1), SubSeq(es, 1, j), L, Up(ks[j]), lo, hi)
    <2>0. PICK k2, e2 : k2 = SubSeq(ks, 1, j - 1) /\ e2 = SubSeq(es, 1, j)
        OBVIOUS
    <2>1. PICK c \in Nat : j = c + 1
        <3>1. j - 1 \in Nat /\ j = (j - 1) + 1
            OBVIOUS
        <3>2. QED
            BY <3>1
    <2>2. k2 \in Seq(Keys) /\ Len(k2) = c /\ DOMAIN k2 = 1 .. c
        BY <2>0, <2>1
    <2>3. \A i \in 1 .. c : k2[i] = ks[i]
        BY <2>0, <2>1
    <2>4. \A i \in 1 .. c + 1 : e2[i] = es[i]
        BY <2>0, <2>1
    <2>5. \A i \in 1 .. c : Separates(k2[i], e2[i], e2[i + 1], lo, hi)
        <3>1. \A i \in 1 .. c : i \in 1 .. n /\ i \in 1 .. c + 1 /\ i + 1 \in 1 .. c + 1
            BY <2>1
        <3>2. QED
            BY <1>1, <2>3, <2>4, <3>1
    <2>6. lo[e2[1]] = L /\ hi[e2[c + 1]] = Up(ks[j])
        BY <1>1, <1>2, <2>1, <2>4
    <2>7. Divides(k2, e2, L, Up(ks[j]), lo, hi)
        BY ONLY c \in Nat, <2>2, <2>5, <2>6 DEF Divides
    <2>8. QED
        BY <2>0, <2>7
<1>4. Divides(SubSeq(ks, j + 1, n), SubSeq(es, j + 1, n + 1), Up(ks[j]), H, lo, hi)
    <2>0. PICK k2, e2 : k2 = SubSeq(ks, j + 1, n) /\ e2 = SubSeq(es, j + 1, n + 1)
        OBVIOUS
    <2>1. PICK c \in Nat : n = j + c
        <3>1. n - j \in Nat /\ n = j + (n - j)
            OBVIOUS
        <3>2. QED
            BY <3>1
    <2>2. k2 \in Seq(Keys) /\ Len(k2) = c /\ DOMAIN k2 = 1 .. c
        BY <2>0, <2>1
    <2>3. \A i \in 1 .. c : k2[i] = ks[j + i]
        <3>1. ASSUME NEW i \in 1 .. c
              PROVE  k2[i] = ks[j + i]
            <4>1. PICK a \in Nat : a = j
                BY j \in 1 .. n
            <4>2. i \in 1 .. n - (a + 1) + 1 /\ a + 1 + i - 1 = a + i
                BY ONLY <2>1, <4>1, n \in Nat, a \in Nat, c \in Nat, i \in 1 .. c
            <4>3. k2[i] = ks[a + 1 + i - 1]
                BY <2>0, <2>2, <4>1, <4>2
            <4>4. QED
                BY ONLY <4>1, <4>2, <4>3
        <3>2. QED
            BY ONLY <3>1
    <2>4. \A i \in 1 .. c + 1 : e2[i] = es[j + i]
        <3>1. ASSUME NEW i \in 1 .. c + 1
              PROVE  e2[i] = es[j + i]
            <4>1. PICK a \in Nat, b \in Nat : a = j + 1 /\ b = n + 1
                OBVIOUS
            <4>2. i \in 1 .. b - a + 1 /\ a + i - 1 = j + i
                BY <2>1, <4>1
            <4>3. e2 = SubSeq(es, a, b) /\ es \in Seq(Slots) /\ b = Len(es)
                BY <2>0, <4>1
            <4>4. e2[i] = es[a + i - 1]
                BY ONLY <4>2, <4>3, a \in Nat, b \in Nat
            <4>5. QED
                BY ONLY <4>2, <4>4
        <3>2. QED
            BY ONLY <3>1
    <2>5. ASSUME NEW i \in 1 .. c
          PROVE  Separates(k2[i], e2[i], e2[i + 1], lo, hi)
        <3>1. j + i \in 1 .. n /\ i \in 1 .. c + 1 /\ i + 1 \in 1 .. c + 1
              /\ j + (i + 1) = (j + i) + 1
            BY <2>1
        <3>2. k2[i] = ks[j + i] /\ e2[i] = es[j + i] /\ e2[i + 1] = es[(j + i) + 1]
            BY <2>3, <2>4, <3>1
        <3>3. QED
            BY <1>1, <3>1, <3>2
    <2>6. PICK U : U = Up(ks[j]) /\ lo[e2[1]] = U /\ hi[e2[c + 1]] = H
        <3>1. 1 \in 1 .. c + 1 /\ c + 1 \in 1 .. c + 1 /\ j + (c + 1) = n + 1
            BY <2>1
        <3>2. QED
            BY <1>1, <1>2, <2>4, <3>1
    <2>7. Divides(k2, e2, U, H, lo, hi)
        BY ONLY c \in Nat, <2>2, <2>5, <2>6 DEF Divides
    <2>8. QED
        BY <2>0, <2>6, <2>7
<1>5. QED
    BY <1>3, <1>4

\* An edge before the first and an edge after the last: what a node borrows
\* from the sibling before it and from the one after it
LEMMA DividesAddFirst ==
    ASSUME NEW n, NEW ks, NEW es, NEW L, NEW H, NEW lo, NEW hi, NEW k \in Keys,
           Divided(n, ks, es, Up(k), H, lo, hi), NEW e \in Slots,
           hi[e] = Up(k), Above(lo[e], k), k \notin H
    PROVE  Divides(InsertAt(ks, 1, k), InsertAt(es, 1, e), lo[e], H, lo, hi)
<1>a. n \in Nat /\ ks \in Seq(Keys) /\ Len(ks) = n /\ es \in Seq(Slots) /\ Len(es) = n + 1
    BY DEF Divided
<1>b. /\ Up(k) \in Cuts /\ H \in Cuts /\ lo \in [Slots -> Cuts] /\ hi \in [Slots -> Cuts]
      /\ Divides(ks, es, Up(k), H, lo, hi)
    BY DEF Divided
<1> USE <1>a, <1>b
<1>1. PICK k2, e2 : k2 = InsertAt(ks, 1, k) /\ e2 = InsertAt(es, 1, e)
    OBVIOUS
<1>2. /\ lo[es[1]] = Up(k)
      /\ hi[es[n + 1]] = H
      /\ \A i \in 1 .. n : Separates(ks[i], es[i], es[i + 1], lo, hi)
    BY DOMAIN ks = 1 .. n DEF Divides
<1>3. 1 \in 1 .. n + 1
    OBVIOUS
<1>4. k2 \in Seq(Keys) /\ Len(k2) = n + 1 /\ DOMAIN k2 = 1 .. n + 1
    BY <1>1, <1>3, InsertAtSeq
<1>5. k2[1] = k /\ \A i \in 1 .. n : k2[i + 1] = ks[i]
    <2>1. k2 = [i \in 1 .. n + 1 |-> IF i < 1 THEN ks[i] ELSE IF i = 1 THEN k ELSE ks[i - 1]]
        BY <1>1, <1>3, InsertAtDef
    <2>2. QED
        BY <2>1
<1>6. e2[1] = e /\ \A i \in 1 .. n + 1 : e2[i + 1] = es[i]
    <2>1. \A a \in Nat : Len(es) = a => \A b \in 1 .. a + 1 :
            InsertAt(es, b, e) = [i \in 1 .. a + 1 |-> IF i < b THEN es[i]
                                        ELSE IF i = b THEN e ELSE es[i - 1]]
        BY InsertAtDef
    <2>2. n + 1 \in Nat /\ 1 \in 1 .. (n + 1) + 1
        OBVIOUS
    <2>3. e2 = [i \in 1 .. (n + 1) + 1 |-> IF i < 1 THEN es[i]
                                           ELSE IF i = 1 THEN e ELSE es[i - 1]]
        BY <1>1, <2>1, <2>2
    <2>4. QED
        BY <2>3
<1>7. Separates(k, e, es[1], lo, hi)
    <2>1. CASE n = 0
        BY <1>2, <2>1 DEF Separates
    <2>2. CASE n # 0
        <3>1. 1 \in 1 .. n /\ ks[1] \in Keys
            BY <2>2
        <3>2. Separates(ks[1], es[1], es[1 + 1], lo, hi)
            BY <1>2, <3>1
        <3>3. k < ks[1]
            BY <1>2, <3>1, <3>2, UpIs DEF Separates
        <3>4. k \notin Up(ks[1])
            <4>1. ks[1] \in Int /\ k \in Int
                BY <3>1, KeysAssumption
            <4>2. QED
                BY <3>1, <3>3, <4>1, UpIs
        <3>5. QED
            BY <1>2, <3>2, <3>4 DEF Separates
    <2>3. QED
        BY <2>1, <2>2
<1>8. ASSUME NEW i \in 1 .. n + 1
      PROVE  Separates(k2[i], e2[i], e2[i + 1], lo, hi)
    <2>1. CASE i = 1
        <3>1. 1 \in 1 .. n + 1
            OBVIOUS
        <3>2. e2[1 + 1] = es[1]
            BY <1>6, <3>1
        <3>3. QED
            BY <1>5, <1>6, <1>7, <2>1, <3>2
    <2>2. CASE i # 1
        <3>1. PICK c \in 1 .. n : i = c + 1 /\ c \in 1 .. n + 1 /\ c + 1 \in 1 .. n + 1
            <4>1. i - 1 \in 1 .. n /\ i = (i - 1) + 1
                BY <2>2
            <4>2. QED
                BY <4>1
        <3>2. k2[i] = ks[c] /\ e2[i] = es[c] /\ e2[i + 1] = es[c + 1]
            BY <1>5, <1>6, <3>1
        <3>3. QED
            BY <1>2, <3>2
    <2>3. QED
        BY <2>1, <2>2
<1>9. lo[e2[1]] = lo[e] /\ hi[e2[(n + 1) + 1]] = H /\ n + 1 \in Nat
    BY <1>2, <1>6
<1>10. Divides(k2, e2, lo[e], H, lo, hi)
    BY ONLY <1>4, <1>8, <1>9 DEF Divides
<1>11. QED
    BY <1>1, <1>10

\* The same at the end
LEMMA DividesAddLast ==
    ASSUME NEW n, NEW ks, NEW es, NEW L, NEW H, NEW lo, NEW hi, NEW k \in Keys,
           Divided(n, ks, es, L, Up(k), lo, hi), NEW e \in Slots,
           lo[e] = Up(k), k \notin hi[e], Above(L, k)
    PROVE  Divides(Append(ks, k), Append(es, e), L, hi[e], lo, hi)
<1>a. n \in Nat /\ ks \in Seq(Keys) /\ Len(ks) = n /\ es \in Seq(Slots) /\ Len(es) = n + 1
    BY DEF Divided
<1>b. /\ L \in Cuts /\ Up(k) \in Cuts /\ lo \in [Slots -> Cuts] /\ hi \in [Slots -> Cuts]
      /\ Divides(ks, es, L, Up(k), lo, hi)
    BY DEF Divided
<1> USE <1>a, <1>b
<1>1. PICK k2, e2 : k2 = Append(ks, k) /\ e2 = Append(es, e)
    OBVIOUS
<1>2. /\ lo[es[1]] = L
      /\ hi[es[n + 1]] = Up(k)
      /\ \A i \in 1 .. n : Separates(ks[i], es[i], es[i + 1], lo, hi)
    BY DOMAIN ks = 1 .. n DEF Divides
<1>3. k2 \in Seq(Keys) /\ Len(k2) = n + 1 /\ DOMAIN k2 = 1 .. n + 1
    BY <1>1
<1>4. k2[n + 1] = k /\ \A i \in 1 .. n : k2[i] = ks[i]
    BY <1>1
<1>5. e2[n + 2] = e /\ \A i \in 1 .. n + 1 : e2[i] = es[i]
    BY <1>1
<1>6. Separates(k, es[n + 1], e, lo, hi)
    <2>1. CASE n = 0
        BY <1>2, <2>1 DEF Separates
    <2>2. CASE n # 0
        <3>1. n \in 1 .. n /\ ks[n] \in Keys
            BY <2>2
        <3>2. Separates(ks[n], es[n], es[n + 1], lo, hi)
            BY <1>2, <3>1
        <3>3. ks[n] < k
            <4>1. ks[n] \in Int /\ k \in Int
                BY <3>1, KeysAssumption
            <4>2. ks[n] \notin Up(k)
                BY <1>2, <3>2 DEF Separates
            <4>3. QED
                BY <3>1, <4>1, <4>2, UpIs
        <3>4. Above(lo[es[n + 1]], k)
            BY <3>1, <3>2, <3>3, UpIs DEF Separates
        <3>5. QED
            BY <1>2, <3>4 DEF Separates
    <2>3. QED
        BY <2>1, <2>2
<1>7. ASSUME NEW i \in 1 .. n + 1
      PROVE  Separates(k2[i], e2[i], e2[i + 1], lo, hi)
    <2>1. CASE i = n + 1
        <3>1. i + 1 = n + 2
            BY <2>1
        <3>2. QED
            BY <1>4, <1>5, <1>6, <2>1, <3>1
    <2>2. CASE i # n + 1
        <3>1. i \in 1 .. n /\ i + 1 \in 1 .. n + 1
            BY <2>2
        <3>2. QED
            BY <1>2, <1>4, <1>5, <3>1
    <2>3. QED
        BY <2>1, <2>2
<1>8. lo[e2[1]] = L /\ hi[e2[(n + 1) + 1]] = hi[e] /\ n + 1 \in Nat
    <2>1. 1 \in 1 .. n + 1 /\ (n + 1) + 1 = n + 2
        OBVIOUS
    <2>2. QED
        BY <1>2, <1>5, <2>1
<1>9. Divides(k2, e2, L, hi[e], lo, hi)
    BY ONLY <1>3, <1>7, <1>8 DEF Divides
<1>10. QED
    BY <1>1, <1>9

\* merge_prev_internal and merge_next_internal: two siblings are joined, the
\* key between them included.
LEMMA DividesJoin ==
    ASSUME NEW a, NEW ks, NEW es, NEW b, NEW xs, NEW fs, NEW k \in Keys,
           NEW L, NEW H, NEW lo, NEW hi,
           Divided(a, ks, es, L, Up(k), lo, hi), Divided(b, xs, fs, Up(k), H, lo, hi),
           Above(L, k), k \notin H
    PROVE  Divides(Append(ks, k) \o xs, es \o fs, L, H, lo, hi)
<1>a. /\ a \in Nat /\ ks \in Seq(Keys) /\ Len(ks) = a /\ es \in Seq(Slots) /\ Len(es) = a + 1
      /\ b \in Nat /\ xs \in Seq(Keys) /\ Len(xs) = b /\ fs \in Seq(Slots) /\ Len(fs) = b + 1
    BY DEF Divided
<1>b. /\ lo \in [Slots -> Cuts] /\ hi \in [Slots -> Cuts]
      /\ Divides(ks, es, L, Up(k), lo, hi) /\ Divides(xs, fs, Up(k), H, lo, hi)
    BY DEF Divided
<1> USE <1>a, <1>b
<1>1. PICK k2, e2 : k2 = Append(ks, k) \o xs /\ e2 = es \o fs
    OBVIOUS
<1>2. /\ lo[es[1]] = L
      /\ hi[es[a + 1]] = Up(k)
      /\ \A i \in 1 .. a : Separates(ks[i], es[i], es[i + 1], lo, hi)
    BY DOMAIN ks = 1 .. a DEF Divides
<1>3. PICK U : /\ U = Up(k)
               /\ lo[fs[1]] = U
               /\ hi[fs[b + 1]] = H
               /\ \A i \in 1 .. b : Separates(xs[i], fs[i], fs[i + 1], lo, hi)
    BY DOMAIN xs = 1 .. b DEF Divides
<1>4. k2 \in Seq(Keys) /\ Len(k2) = a + b + 1 /\ DOMAIN k2 = 1 .. a + b + 1
    <2>1. PICK y : y = Append(ks, k)
        OBVIOUS
    <2>2. y \in Seq(Keys) /\ Len(y) = Len(ks) + 1
        BY ONLY <2>1, ks \in Seq(Keys), k \in Keys
    <2>3. k2 = y \o xs
        BY <1>1, <2>1
    <2>4. y \in Seq(Keys)
        BY <2>2
    <2>5. /\ y \o xs \in Seq(Keys) /\ Len(y \o xs) = Len(y) + Len(xs)
          /\ DOMAIN (y \o xs) = 1 .. Len(y) + Len(xs)
        BY ONLY <2>4, xs \in Seq(Keys)
    <2>6. Len(y) + Len(xs) = a + b + 1
        BY <2>2
    <2>7. QED
        BY ONLY <2>3, <2>5, <2>6
<1>5. /\ \A i \in 1 .. a : k2[i] = ks[i]
      /\ k2[a + 1] = k
      /\ \A i \in 1 .. b : k2[a + 1 + i] = xs[i]
    <2>1. PICK y : y = Append(ks, k)
        OBVIOUS
    <2>2. /\ y \in Seq(Keys) /\ Len(y) = a + 1
          /\ \A i \in 1 .. a : y[i] = ks[i]
          /\ y[a + 1] = k
        BY <2>1
    <2>3. k2 = y \o xs
        BY <1>1, <2>1
    <2>4. /\ \A i \in 1 .. a + 1 : k2[i] = y[i]
          /\ \A i \in 1 .. b : k2[a + 1 + i] = xs[i]
        <3>1. PICK d \in Nat : d = a + 1
            OBVIOUS
        <3>2. y \in Seq(Keys) /\ Len(y) = d
            BY <2>2, <3>1
        <3>3. k2 = [i \in 1 .. d + b |-> IF i <= d THEN y[i] ELSE xs[i - d]]
            <4>1. b \in Nat /\ Len(xs) = b /\ xs \in Seq(Keys)
                OBVIOUS
            <4>2. y \o xs = [i \in 1 .. d + b |-> IF i <= d THEN y[i] ELSE xs[i - d]]
                BY ONLY <3>2, <4>1, d \in Nat, ConcatDef
            <4>3. QED
                BY ONLY <2>3, <4>2
        <3>4. PICK e \in Nat : e = d + b
            OBVIOUS
        <3>5. \A i \in 1 .. e : k2[i] = IF i <= d THEN y[i] ELSE xs[i - d]
            BY ONLY <3>3, <3>4
        <3>6. \A i \in 1 .. d : k2[i] = y[i]
            BY <3>4, <3>5
        <3>7. ASSUME NEW i \in 1 .. b
              PROVE  k2[d + i] = xs[i]
            <4>1. d + i \in 1 .. e /\ ~(d + i <= d) /\ (d + i) - d = i
                BY <3>4
            <4>2. QED
                BY <3>5, <4>1
        <3>8. QED
            BY <3>1, <3>6, <3>7
    <2>5. QED
        BY <2>2, <2>4
<1>6. /\ \A i \in 1 .. a + 1 : e2[i] = es[i]
      /\ \A i \in 1 .. b + 1 : e2[a + 1 + i] = fs[i]
    BY ONLY <1>1, a \in Nat, b \in Nat, es \in Seq(Slots), Len(es) = a + 1,
            fs \in Seq(Slots), Len(fs) = b + 1
<1>7. Separates(k, es[a + 1], fs[1], lo, hi)
    <2>1. k \notin hi[fs[1]]
        <3>1. CASE b = 0
            BY <1>3, <3>1
        <3>2. CASE b # 0
            <4>1. 1 \in 1 .. b /\ xs[1] \in Keys
                BY <3>2
            <4>2. Separates(xs[1], fs[1], fs[1 + 1], lo, hi)
                BY <1>3, <4>1
            <4>3. k < xs[1]
                BY <1>3, <4>1, <4>2, UpIs DEF Separates
            <4>4. xs[1] \in Int /\ k \in Int
                BY <4>1, KeysAssumption
            <4>5. k \notin Up(xs[1])
                BY <4>1, <4>3, <4>4, UpIs
            <4>6. QED
                BY <4>2, <4>5 DEF Separates
        <3>3. QED
            BY <3>1, <3>2
    <2>2. Above(lo[es[a + 1]], k)
        <3>1. CASE a = 0
            BY <1>2, <3>1
        <3>2. CASE a # 0
            <4>1. a \in 1 .. a /\ ks[a] \in Keys
                BY <3>2
            <4>2. Separates(ks[a], es[a], es[a + 1], lo, hi)
                BY <1>2, <4>1
            <4>3. ks[a] \in Int /\ k \in Int
                BY <4>1, KeysAssumption
            <4>4. ks[a] \notin Up(k)
                BY <1>2, <4>2 DEF Separates
            <4>5. ks[a] < k
                BY <4>1, <4>3, <4>4, UpIs
            <4>6. QED
                BY <4>1, <4>2, <4>5, UpIs DEF Separates
        <3>3. QED
            BY <3>1, <3>2
    <2>3. QED
        BY <1>2, <1>3, <2>1, <2>2 DEF Separates
<1>8. ASSUME NEW i \in 1 .. a + b + 1
      PROVE  Separates(k2[i], e2[i], e2[i + 1], lo, hi)
    <2>1. CASE i <= a
        <3>1. i \in 1 .. a /\ i \in 1 .. a + 1 /\ i + 1 \in 1 .. a + 1
            BY <2>1
        <3>2. QED
            BY <1>2, <1>5, <1>6, <3>1
    <2>2. CASE i = a + 1
        <3>1. a + 1 \in 1 .. a + 1 /\ 1 \in 1 .. b + 1
            OBVIOUS
        <3>2. e2[a + 1] = es[a + 1] /\ e2[a + 1 + 1] = fs[1]
            BY <1>6, <3>1
        <3>3. QED
            BY <1>5, <1>7, <2>2, <3>2
    <2>3. CASE i > a + 1
        <3>1. PICK c \in 1 .. b : /\ i = a + 1 + c /\ i + 1 = a + 1 + (c + 1)
                                  /\ c \in 1 .. b + 1 /\ c + 1 \in 1 .. b + 1
            <4>1. i - (a + 1) \in 1 .. b /\ i = a + 1 + (i - (a + 1))
                BY <2>3
            <4>2. QED
                BY <4>1
        <3>2. k2[i] = xs[c] /\ e2[i] = fs[c] /\ e2[i + 1] = fs[c + 1]
            BY <1>5, <1>6, <3>1
        <3>3. QED
            BY <1>3, <3>2
    <2>4. QED
        BY <2>1, <2>2, <2>3
<1>9. lo[e2[1]] = L /\ hi[e2[(a + b + 1) + 1]] = H /\ a + b + 1 \in Nat
    <2>1. 1 \in 1 .. a + 1 /\ b + 1 \in 1 .. b + 1 /\ (a + b + 1) + 1 = a + 1 + (b + 1)
        OBVIOUS
    <2>2. QED
        BY <1>2, <1>3, <1>6, <2>1
<1>10. Divides(k2, e2, L, H, lo, hi)
    BY ONLY <1>4, <1>8, <1>9 DEF Divides
<1>11. QED
    BY <1>1, <1>10

\* remove_edge after a merge: one edge takes the place of two, from the lower
\* cut of the first to the upper one of the second.
LEMMA DividesMerge ==
    ASSUME NEW n, NEW ks, NEW es, NEW L, NEW H, NEW lo, NEW hi,
           Divided(n, ks, es, L, H, lo, hi), NEW e2, NEW lo2, NEW hi2, NEW j \in 1 .. n,
           \A i \in 1 .. n : i < j => lo2[e2[i]] = lo[es[i]] /\ hi2[e2[i]] = hi[es[i]],
           lo2[e2[j]] = lo[es[j]], hi2[e2[j]] = hi[es[j + 1]],
           \A i \in 1 .. n : i > j => lo2[e2[i]] = lo[es[i + 1]] /\ hi2[e2[i]] = hi[es[i + 1]]
    PROVE  Divides(RemoveAt(ks, j), e2, L, H, lo2, hi2)
<1>a. n \in Nat /\ ks \in Seq(Keys) /\ Len(ks) = n /\ es \in Seq(Slots) /\ Len(es) = n + 1
    BY DEF Divided
<1>b. /\ L \in Cuts /\ H \in Cuts /\ lo \in [Slots -> Cuts] /\ hi \in [Slots -> Cuts]
      /\ Divides(ks, es, L, H, lo, hi)
    BY DEF Divided
<1> USE <1>a, <1>b
<1>1. /\ lo[es[1]] = L
      /\ hi[es[n + 1]] = H
      /\ \A i \in 1 .. n : Separates(ks[i], es[i], es[i + 1], lo, hi)
    BY DOMAIN ks = 1 .. n DEF Divides
<1>2. \A i \in 1 .. n + 1 : es[i] \in Slots
    OBVIOUS
<1>3. \A i \in 1 .. n : ks[i] \in Keys
    OBVIOUS
<1>4. PICK c \in Nat : n = c + 1
    <2>1. n - 1 \in Nat /\ n = (n - 1) + 1
        OBVIOUS
    <2>2. QED
        BY <2>1
<1>5. PICK k2 \in Seq(Keys) : k2 = RemoveAt(ks, j) /\ Len(k2) = c /\ DOMAIN k2 = 1 .. c
    <2>1. RemoveAt(ks, j) \in Seq(Keys) /\ Len(RemoveAt(ks, j)) = n - 1
        BY RemoveAtSeq
    <2>2. QED
        BY <1>4, <2>1
<1>6. \A i \in 1 .. c : k2[i] = IF i < j THEN ks[i] ELSE ks[i + 1]
    <2>1. k2 = [i \in 1 .. n - 1 |-> IF i < j THEN ks[i] ELSE ks[i + 1]]
        BY <1>5, RemoveAtDef
    <2>2. QED
        BY <1>4, <2>1
<1>7. lo2[e2[1]] = L
    <2>1. 1 \in 1 .. n
        BY <1>4
    <2>2. CASE j = 1
        BY <1>1, <2>2
    <2>3. CASE j # 1
        BY <1>1, <2>1, <2>3
    <2>4. QED
        BY <2>2, <2>3
<1>8. hi2[e2[c + 1]] = H
    <2>1. c + 1 = n /\ n \in 1 .. n
        BY <1>4
    <2>2. CASE j = n
        BY <1>1, <2>1, <2>2
    <2>3. CASE j # n
        <3>1. n > j
            BY <2>3
        <3>2. QED
            BY <1>1, <2>1, <3>1
    <2>4. QED
        BY <2>2, <2>3
<1>9. ASSUME NEW i \in 1 .. c
      PROVE  Separates(k2[i], e2[i], e2[i + 1], lo2, hi2)
    <2>0. i \in 1 .. n /\ i + 1 \in 1 .. n /\ i + 1 \in 1 .. n + 1
        BY <1>4
    <2>1. CASE i + 1 < j
        <3>1. k2[i] = ks[i]
            BY <1>6, <2>0, <2>1
        <3>2. i < j /\ Separates(ks[i], es[i], es[i + 1], lo, hi)
            BY <1>1, <2>0, <2>1
        <3>3. QED
            BY <2>0, <2>1, <3>1, <3>2 DEF Separates
    <2>2. CASE i + 1 = j
        <3>1. k2[i] = ks[i]
            BY <1>6, <2>0, <2>2
        <3>2. Separates(ks[i], es[i], es[j], lo, hi) /\ Separates(ks[j], es[j], es[j + 1], lo, hi)
            BY <1>1, <2>0, <2>2
        <3>3. ks[i] \in Keys /\ ks[j] \in Keys /\ es[j] \in Slots /\ es[j + 1] \in Slots
            BY <1>2, <1>3, <2>0
        <3>4. ks[i] < ks[j]
            BY <3>2, <3>3, SeparatorsRise
        <3>5. ks[i] \notin hi[es[j + 1]]
            <4>1. ks[i] \in Int /\ ks[j] \in Int
                BY <3>3, KeysAssumption
            <4>2. ks[i] <= ks[j]
                BY <3>4, <4>1
            <4>3. ks[j] \notin hi[es[j + 1]] /\ hi[es[j + 1]] \in Cuts
                BY <3>2, <3>3 DEF Separates
            <4>4. QED
                BY <3>3, <4>2, <4>3, CutIs
        <3>6. QED
            BY <2>0, <2>2, <3>1, <3>2, <3>5 DEF Separates
    <2>3. CASE i = j
        <3>1. k2[i] = ks[j + 1]
            <4>1. ~(i < j) /\ i + 1 = j + 1
                BY <2>3
            <4>2. k2[i] = ks[i + 1]
                BY ONLY <1>6, <4>1, i \in 1 .. c
            <4>3. QED
                BY <4>1, <4>2
        <3>2. Separates(ks[j], es[j], es[j + 1], lo, hi)
              /\ Separates(ks[j + 1], es[j + 1], es[(j + 1) + 1], lo, hi)
            BY <1>1, <2>0, <2>3
        <3>3. ks[j + 1] \in Keys /\ ks[j] \in Keys /\ es[j] \in Slots /\ es[j + 1] \in Slots
            BY <1>2, <1>3, <2>0, <2>3
        <3>4. ks[j] < ks[j + 1]
            BY <3>2, <3>3, SeparatorsRise
        <3>5. Above(lo[es[j]], ks[j + 1])
            <4>1. ks[j] \in Int /\ ks[j + 1] \in Int
                BY <3>3, KeysAssumption
            <4>2. ks[j] <= ks[j + 1]
                BY <3>4, <4>1
            <4>3. Above(lo[es[j]], ks[j]) /\ lo[es[j]] \in Cuts
                BY <3>2, <3>3 DEF Separates
            <4>4. QED
                BY <3>3, <4>2, <4>3, AboveIs
        <3>6. i + 1 > j /\ (j + 1) + 1 = (i + 1) + 1
            BY <2>3
        <3>7. lo2[e2[i + 1]] = lo[es[(i + 1) + 1]] /\ hi2[e2[i + 1]] = hi[es[(i + 1) + 1]]
            BY <2>0, <3>6
        <3>8. QED
            BY <2>3, <3>1, <3>2, <3>5, <3>7 DEF Separates
    <2>4. CASE i > j
        <3>1. k2[i] = ks[i + 1]
            <4>1. ~(i < j)
                BY <2>4
            <4>2. QED
                BY <1>6, <4>1
        <3>2. Separates(ks[i + 1], es[i + 1], es[(i + 1) + 1], lo, hi)
            BY <1>1, <2>0
        <3>3. i + 1 > j
            BY <2>4
        <3>4. lo2[e2[i + 1]] = lo[es[(i + 1) + 1]] /\ hi2[e2[i + 1]] = hi[es[(i + 1) + 1]]
            BY <2>0, <3>3
        <3>5. lo2[e2[i]] = lo[es[i + 1]] /\ hi2[e2[i]] = hi[es[i + 1]]
            BY <2>0, <2>4
        <3>6. QED
            BY <3>1, <3>2, <3>4, <3>5 DEF Separates
    <2>5. i + 1 < j \/ i + 1 = j \/ i = j \/ i > j
        OBVIOUS
    <2>6. QED
        BY <2>1, <2>2, <2>3, <2>4, <2>5
<1>10. Divides(k2, e2, L, H, lo2, hi2)
    BY ONLY <1>5, <1>7, <1>8, <1>9 DEF Divides
<1>11. QED
    BY <1>5, <1>10

\* replace_key: a separator moves within the intervals beside it.
LEMMA DividesReplace ==
    ASSUME NEW n, NEW ks, NEW es, NEW L, NEW H, NEW lo, NEW hi,
           Divided(n, ks, es, L, H, lo, hi),
           NEW lo2 \in [Slots -> Cuts], NEW hi2 \in [Slots -> Cuts], NEW j \in 1 .. n, NEW k \in Keys,
           \A i \in 1 .. n + 1 : /\ i # j + 1 => lo2[es[i]] = lo[es[i]]
                                 /\ i # j => hi2[es[i]] = hi[es[i]],
           Separates(k, es[j], es[j + 1], lo2, hi2)
    PROVE  Divides([ks EXCEPT ![j] = k], es, L, H, lo2, hi2)
<1>a. n \in Nat /\ ks \in Seq(Keys) /\ Len(ks) = n /\ es \in Seq(Slots) /\ Len(es) = n + 1
    BY DEF Divided
<1>b. /\ L \in Cuts /\ H \in Cuts /\ lo \in [Slots -> Cuts] /\ hi \in [Slots -> Cuts]
      /\ Divides(ks, es, L, H, lo, hi)
    BY DEF Divided
<1> USE <1>a, <1>b
<1>1. /\ lo[es[1]] = L
      /\ hi[es[n + 1]] = H
      /\ \A i \in 1 .. n : Separates(ks[i], es[i], es[i + 1], lo, hi)
    BY DOMAIN ks = 1 .. n DEF Divides
<1>2. \A i \in 1 .. n + 1 : es[i] \in Slots
    OBVIOUS
<1>3. \A i \in 1 .. n : ks[i] \in Keys
    OBVIOUS
<1>4. PICK k2 : k2 = [ks EXCEPT ![j] = k]
    OBVIOUS
<1>5. /\ k2 \in Seq(Keys) /\ Len(k2) = n /\ DOMAIN k2 = 1 .. n
      /\ k2[j] = k /\ \A i \in 1 .. n : i # j => k2[i] = ks[i]
    <2>1. k2 \in Seq(Keys) /\ Len(k2) = n
        BY <1>4, ExceptProperties
    <2>2. DOMAIN ks = 1 .. n
        OBVIOUS
    <2>3. QED
        BY <1>4, <2>1, <2>2
<1>6. lo2[es[1]] = L /\ hi2[es[n + 1]] = H
    <2>1. 1 \in 1 .. n + 1 /\ 1 # j + 1 /\ n + 1 \in 1 .. n + 1 /\ n + 1 # j
        OBVIOUS
    <2>2. QED
        BY <1>1, <2>1
<1>7. ASSUME NEW i \in 1 .. n
      PROVE  Separates(k2[i], es[i], es[i + 1], lo2, hi2)
    <2>0. i \in 1 .. n + 1 /\ i + 1 \in 1 .. n + 1 /\ j \in 1 .. n + 1 /\ j + 1 \in 1 .. n + 1
        OBVIOUS
    <2>1. CASE i = j
        BY <1>5, <2>1
    <2>2. CASE i + 1 = j
        <3>1. k2[i] = ks[i] /\ i # j + 1 /\ i # j
            BY <1>5, <2>2
        <3>2. Separates(ks[i], es[i], es[j], lo, hi) /\ ks[i] \in Keys /\ es[j] \in Slots
            BY <1>1, <1>2, <1>3, <2>0, <2>2
        <3>3. lo2[es[j]] = Up(ks[i])
            BY <2>0, <3>2 DEF Separates
        <3>4. ks[i] < k
            BY <3>2, <3>3, UpIs DEF Separates
        <3>5. ks[i] \notin Up(k)
            <4>1. ks[i] \in Int /\ k \in Int
                BY <3>2, KeysAssumption
            <4>2. QED
                BY <3>2, <3>4, <4>1, UpIs
        <3>6. hi2[es[j]] = Up(k)
            BY DEF Separates
        <3>7. QED
            BY <2>0, <2>2, <3>1, <3>2, <3>3, <3>5, <3>6 DEF Separates
    <2>3. CASE i = j + 1
        <3>1. k2[i] = ks[i] /\ i + 1 # j + 1 /\ i + 1 # j /\ i # j
            BY <1>5, <2>3
        <3>2. Separates(ks[i], es[i], es[i + 1], lo, hi) /\ ks[i] \in Keys
            BY <1>1, <1>3
        <3>3. hi2[es[i]] = Up(ks[i])
            BY <2>0, <3>1, <3>2 DEF Separates
        <3>4. k < ks[i]
            <4>1. k \notin Up(ks[i])
                BY <2>3, <3>3 DEF Separates
            <4>2. ks[i] \in Int /\ k \in Int
                BY <3>2, KeysAssumption
            <4>3. QED
                BY <3>2, <4>1, <4>2, UpIs
        <3>5. lo2[es[i]] = Up(k)
            BY <2>3 DEF Separates
        <3>6. Above(lo2[es[i]], ks[i])
            BY <3>2, <3>4, <3>5, UpIs
        <3>7. QED
            BY <2>0, <3>1, <3>2, <3>3, <3>6 DEF Separates
    <2>4. CASE i # j /\ i + 1 # j /\ i # j + 1
        <3>1. k2[i] = ks[i] /\ i + 1 # j + 1
            BY <1>5, <2>4
        <3>2. Separates(ks[i], es[i], es[i + 1], lo, hi)
            BY <1>1
        <3>3. QED
            BY <2>0, <2>4, <3>1, <3>2 DEF Separates
    <2>5. QED
        BY <2>1, <2>2, <2>3, <2>4
<1>8. Divides(k2, es, L, H, lo2, hi2)
    BY ONLY <1>5, <1>6, <1>7 DEF Divides
<1>9. QED
    BY <1>4, <1>8

-----------------------------------------------------------------------------
(***************************************************************************)
(* Searches.                                                               *)
(***************************************************************************)

Rises(ks, n) == \A i, j \in 1 .. n : i < j => ks[i] < ks[j]

\* x has a place among rising keys, which is what InsertionIndex counts.
LEMMA PlaceOf ==
    ASSUME NEW n \in Nat, NEW ks \in Seq(Int), Len(ks) = n, Rises(ks, n), NEW x \in Int
    PROVE  \E j \in 1 .. n + 1 : /\ \A i \in 1 .. n : IF i < j THEN ks[i] < x ELSE x <= ks[i]
                                 /\ InsertionIndex(ks, x) = j - 1
<1>1. \A i \in 1 .. n : ks[i] \in Int
    OBVIOUS
<1>2. PICK T : T = {i \in 1 .. n + 1 : i \in 1 .. n => x <= ks[i]}
    OBVIOUS
<1>3. T \in SUBSET Nat /\ n + 1 \in T
    BY <1>2
<1>4. PICK j \in T : \A i \in T : j <= i
    BY <1>3, LeastNat
<1>5. j \in 1 .. n + 1
    BY <1>2
<1>6. ASSUME NEW i \in 1 .. n, i < j
      PROVE  ks[i] < x
    <2>1. i \notin T
        BY <1>4, <1>5, <1>6
    <2>2. QED
        BY <1>1, <1>2, <2>1
<1>7. ASSUME NEW i \in 1 .. n, ~(i < j)
      PROVE  x <= ks[i]
    <2>1. j \in 1 .. n /\ x <= ks[j]
        BY <1>2, <1>5, <1>7
    <2>2. CASE i = j
        BY <2>1, <2>2
    <2>3. CASE i # j
        <3>1. j < i
            BY <1>5, <1>7, <2>3
        <3>2. ks[j] < ks[i]
            BY <2>1, <3>1 DEF Rises
        <3>3. QED
            BY <1>1, <2>1, <3>2
    <2>4. QED
        BY <2>2, <2>3
<1>8. {i \in DOMAIN ks : ks[i] < x} = 1 .. j - 1
    <2>1. DOMAIN ks = 1 .. n
        OBVIOUS
    <2>2. \A i \in 1 .. n : ks[i] < x <=> i < j
        BY <1>1, <1>6, <1>7
    <2>3. \A i \in 1 .. j - 1 : i \in 1 .. n /\ i < j
        BY <1>5
    <2>4. \A i \in 1 .. n : i < j => i \in 1 .. j - 1
        BY <1>5
    <2>5. QED
        BY <2>1, <2>2, <2>3, <2>4
<1>9. Cardinality(1 .. j - 1) = j - 1
    <2>1. j - 1 \in Nat
        BY <1>5
    <2>2. \A c \in Nat : Cardinality(1 .. c) = c
        BY FS_Interval
    <2>3. QED
        BY <2>1, <2>2
<1>10. InsertionIndex(ks, x) = j - 1
    BY <1>8, <1>9 DEF InsertionIndex
<1>11. QED
    BY <1>5, <1>6, <1>7, <1>10

\* The edge a search takes leads to the child whose interval the key is in.
LEMMA EdgeOf ==
    ASSUME NEW n \in Nat, NEW ks \in Seq(Int), Len(ks) = n, Rises(ks, n), NEW x \in Int
    PROVE  \E j \in 1 .. n + 1 : /\ \A i \in 1 .. n : IF i < j THEN ks[i] <= x ELSE x < ks[i]
                                 /\ EdgeIndex(ks, x) = j - 1
<1>1. \A i \in 1 .. n : ks[i] \in Int
    OBVIOUS
<1>2. x + 1 \in Int
    OBVIOUS
<1>3. PICK j \in 1 .. n + 1 :
        /\ \A i \in 1 .. n : IF i < j THEN ks[i] < x + 1 ELSE x + 1 <= ks[i]
        /\ InsertionIndex(ks, x + 1) = j - 1
    BY <1>2, PlaceOf
<1>4. \A i \in 1 .. n : IF i < j THEN ks[i] <= x ELSE x < ks[i]
    BY <1>1, <1>3
<1>5. EdgeIndex(ks, x) = InsertionIndex(ks, x + 1)
    <2>1. DOMAIN ks = 1 .. n
        OBVIOUS
    <2>2. \A i \in 1 .. n : ks[i] <= x <=> ks[i] < x + 1
        BY <1>1
    <2>3. {i \in DOMAIN ks : ks[i] <= x} = {i \in DOMAIN ks : ks[i] < x + 1}
        BY <2>1, <2>2
    <2>4. QED
        BY <2>3 DEF EdgeIndex, InsertionIndex
<1>6. QED
    BY <1>3, <1>4, <1>5

\* A key in the interval of a node is in that of one child, the one the search
\* goes to, and no other.
LEMMA ChildOf ==
    ASSUME NEW n, NEW ks, NEW es, NEW L, NEW H, NEW lo, NEW hi,
           Divided(n, ks, es, L, H, lo, hi), NEW x \in Keys, NEW j \in 1 .. n + 1
    PROVE  x \in lo[es[j]] /\ x \notin hi[es[j]] <=> /\ x \in L /\ x \notin H
                                                    /\ EdgeIndex(ks, x) = j - 1
<1>a. n \in Nat /\ ks \in Seq(Keys) /\ Len(ks) = n /\ es \in Seq(Slots) /\ Len(es) = n + 1
    BY DEF Divided
<1>b. /\ L \in Cuts /\ H \in Cuts /\ lo \in [Slots -> Cuts] /\ hi \in [Slots -> Cuts]
      /\ Divides(ks, es, L, H, lo, hi)
    BY DEF Divided
<1> USE <1>a, <1>b
<1>1. /\ lo[es[1]] = L
      /\ hi[es[n + 1]] = H
      /\ \A i \in 1 .. n : Separates(ks[i], es[i], es[i + 1], lo, hi)
    BY DOMAIN ks = 1 .. n DEF Divides
<1>2. \A i \in 1 .. n : ks[i] \in Keys /\ ks[i] \in Int
    <2>1. \A i \in 1 .. n : ks[i] \in Keys
        OBVIOUS
    <2>2. QED
        BY <2>1, KeysAssumption
<1>3. x \in Int
    BY KeysAssumption
<1>4. /\ \A i \in 1 .. n : Above(L, ks[i]) /\ ks[i] \notin H
      /\ \A i, i2 \in 1 .. n : i < i2 => ks[i] < ks[i2]
    BY DividesSpan
<1>5. PICK e \in 1 .. n + 1 : /\ \A i \in 1 .. n : IF i < e THEN ks[i] <= x ELSE x < ks[i]
                              /\ EdgeIndex(ks, x) = e - 1
    <2>1. Rises(ks, n)
        BY <1>4 DEF Rises
    <2>2. ks \in Seq(Int)
        <3>1. ks \in [1 .. n -> Keys]
            OBVIOUS
        <3>2. ks \in [1 .. n -> Int]
            BY <1>2, <3>1
        <3>3. QED
            BY <3>2
    <2>3. QED
        BY <1>3, <2>1, <2>2, EdgeOf
<1>6. ASSUME x \in lo[es[j]], x \notin hi[es[j]]
      PROVE  x \in L /\ x \notin H /\ EdgeIndex(ks, x) = j - 1
    <2>1. ASSUME j # 1
          PROVE  j - 1 \in 1 .. n /\ ks[j - 1] <= x
        <3>1. j - 1 \in 1 .. n /\ (j - 1) + 1 = j
            BY <2>1
        <3>2. lo[es[j]] = Up(ks[j - 1])
            BY <1>1, <3>1 DEF Separates
        <3>3. QED
            BY <1>2, <1>6, <3>1, <3>2, UpIs
    <2>2. ASSUME j # n + 1
          PROVE  j \in 1 .. n /\ x < ks[j]
        <3>1. j \in 1 .. n
            BY <2>2
        <3>2. hi[es[j]] = Up(ks[j])
            BY <1>1, <3>1 DEF Separates
        <3>3. ~(ks[j] <= x)
            BY <1>2, <1>6, <3>1, <3>2, UpIs
        <3>4. QED
            BY <1>2, <1>3, <3>1, <3>3
    <2>3. x \in L
        <3>1. CASE j = 1
            BY <1>1, <1>6, <3>1
        <3>2. CASE j # 1
            <4>1. Above(L, ks[j - 1])
                BY <1>4, <2>1, <3>2
            <4>2. Above(L, x)
                BY <1>2, <2>1, <3>2, <4>1, AboveIs
            <4>3. QED
                BY <4>2, AboveIs
        <3>3. QED
            BY <3>1, <3>2
    <2>4. x \notin H
        <3>1. CASE j = n + 1
            BY <1>1, <1>6, <3>1
        <3>2. CASE j # n + 1
            <4>1. x <= ks[j]
                BY <1>2, <1>3, <2>2, <3>2
            <4>2. QED
                BY <1>2, <1>4, <2>2, <3>2, <4>1, CutIs
        <3>3. QED
            BY <3>1, <3>2
    <2>5. e = j
        <3>1. CASE e < j
            <4>1. e \in 1 .. n /\ j # 1 /\ x < ks[e]
                BY <1>5, <3>1
            <4>2. j - 1 \in 1 .. n /\ ks[j - 1] <= x
                BY <2>1, <4>1
            <4>3. e <= j - 1
                BY <3>1
            <4>4. ks[e] <= ks[j - 1]
                <5>1. CASE e = j - 1
                    BY <1>2, <4>1, <5>1
                <5>2. CASE e < j - 1
                    <6>1. ks[e] < ks[j - 1]
                        BY <1>4, <4>1, <4>2, <5>2
                    <6>2. QED
                        BY <1>2, <4>1, <4>2, <6>1
                <5>3. QED
                    BY <4>3, <5>1, <5>2
            <4>5. QED
                BY <1>2, <1>3, <4>1, <4>2, <4>4
        <3>2. CASE j < e
            <4>1. j \in 1 .. n /\ j # n + 1
                BY <3>2
            <4>2. ks[j] <= x /\ x < ks[j]
                BY <1>5, <2>2, <3>2, <4>1
            <4>3. QED
                BY <1>2, <1>3, <4>1, <4>2
        <3>3. QED
            BY <3>1, <3>2
    <2>6. QED
        BY <1>5, <2>3, <2>4, <2>5
<1>7. ASSUME x \in L, x \notin H, EdgeIndex(ks, x) = j - 1
      PROVE  x \in lo[es[j]] /\ x \notin hi[es[j]]
    <2>1. e = j
        BY <1>5, <1>7
    <2>2. x \in lo[es[j]]
        <3>1. CASE j = 1
            BY <1>1, <1>7, <3>1
        <3>2. CASE j # 1
            <4>1. j - 1 \in 1 .. n /\ (j - 1) + 1 = j /\ j - 1 < j
                BY <3>2
            <4>2. ks[j - 1] <= x
                BY <1>5, <2>1, <4>1
            <4>3. lo[es[j]] = Up(ks[j - 1])
                BY <1>1, <4>1 DEF Separates
            <4>4. QED
                BY <1>2, <4>1, <4>2, <4>3, UpIs
        <3>3. QED
            BY <3>1, <3>2
    <2>3. x \notin hi[es[j]]
        <3>1. CASE j = n + 1
            BY <1>1, <1>7, <3>1
        <3>2. CASE j # n + 1
            <4>1. j \in 1 .. n
                BY <3>2
            <4>2. x < ks[j]
                BY <1>5, <2>1, <4>1
            <4>3. ~(ks[j] <= x)
                BY <1>2, <1>3, <4>1, <4>2
            <4>4. hi[es[j]] = Up(ks[j])
                BY <1>1, <4>1 DEF Separates
            <4>5. QED
                BY <1>2, <4>1, <4>3, <4>4, UpIs
        <3>3. QED
            BY <3>1, <3>2
    <2>4. QED
        BY <2>2, <2>3
<1>8. QED
    BY <1>6, <1>7

\* The interval of a child is not empty.
LEMMA ChildHasRoom ==
    ASSUME NEW n, NEW ks, NEW es, NEW L, NEW H, NEW lo, NEW hi,
           Divided(n, ks, es, L, H, lo, hi), n # 0, NEW j \in 1 .. n + 1
    PROVE  \E x \in Keys : x \in lo[es[j]] /\ x \notin hi[es[j]]
<1>a. n \in Nat /\ ks \in Seq(Keys) /\ Len(ks) = n /\ es \in Seq(Slots) /\ Len(es) = n + 1
    BY DEF Divided
<1>b. /\ L \in Cuts /\ H \in Cuts /\ lo \in [Slots -> Cuts] /\ hi \in [Slots -> Cuts]
      /\ Divides(ks, es, L, H, lo, hi)
    BY DEF Divided
<1> USE <1>a, <1>b
<1>1. /\ hi[es[n + 1]] = H
      /\ \A i \in 1 .. n : Separates(ks[i], es[i], es[i + 1], lo, hi)
    BY DOMAIN ks = 1 .. n DEF Divides
<1>2. \A i \in 1 .. n : ks[i] \in Keys /\ ks[i] \in Int
    <2>1. \A i \in 1 .. n : ks[i] \in Keys
        OBVIOUS
    <2>2. QED
        BY <2>1, KeysAssumption
<1>3. CASE j = n + 1
    <2>1. n \in 1 .. n
        OBVIOUS
    <2>2. Separates(ks[n], es[n], es[j], lo, hi) /\ ks[n] \in Keys
        BY <1>1, <1>2, <1>3, <2>1
    <2>3. ks[n] \in Up(ks[n])
        BY <1>2, <2>1 DEF Up
    <2>4. QED
        BY <2>2, <2>3 DEF Separates
<1>4. CASE j # n + 1
    <2>1. j \in 1 .. n
        BY <1>4
    <2>2. Separates(ks[j], es[j], es[j + 1], lo, hi) /\ ks[j] \in Keys /\ ks[j] \in Int
        BY <1>1, <1>2, <2>1
    <2>3. PICK x \in lo[es[j]] : x < ks[j]
        BY <2>2 DEF Separates, Above
    <2>4. x \in Keys
        <3>1. es[j] \in Slots
            OBVIOUS
        <3>2. lo[es[j]] \in Cuts
            BY <3>1
        <3>3. QED
            BY <3>2, CutIs
    <2>5. x \in Int
        BY <2>4, KeysAssumption
    <2>6. ~(ks[j] <= x)
        BY <2>2, <2>3, <2>5
    <2>7. hi[es[j]] = Up(ks[j])
        BY <2>2 DEF Separates
    <2>8. x \notin hi[es[j]]
        BY <2>2, <2>4, <2>6, <2>7, UpIs
    <2>9. QED
        BY <2>4, <2>8
<1>5. QED
    BY <1>3, <1>4

-----------------------------------------------------------------------------
(***************************************************************************)
(* The keys of a leaf: they stay in order wherever one comes in or goes    *)
(* out, and when leaves are split and joined.                              *)
(***************************************************************************)

\* The elements of a sequence, by position
LEMMA SetOf ==
    ASSUME NEW n \in Nat, NEW ks, DOMAIN ks = 1 .. n
    PROVE  \A x : x \in ToSet(ks) <=> \E i \in 1 .. n : ks[i] = x
BY DEF ToSet

LEMMA InsertedSet ==
    ASSUME NEW S, NEW s \in Seq(S), NEW n \in Nat, Len(s) = n, NEW j \in 1 .. n + 1, NEW e \in S
    PROVE  ToSet(InsertAt(s, j, e)) = ToSet(s) \cup {e}
<1>1. PICK q : q = InsertAt(s, j, e)
    OBVIOUS
<1>2. DOMAIN q = 1 .. n + 1 /\ \A i \in 1 .. n + 1 : q[i] = IF i < j THEN s[i]
                                                           ELSE IF i = j THEN e ELSE s[i - 1]
    BY <1>1, InsertAtDef
<1>3. DOMAIN s = 1 .. n
    OBVIOUS
<1>4. \A x : x \in ToSet(q) <=> \E i \in 1 .. n + 1 : q[i] = x
    BY <1>2, n + 1 \in Nat, SetOf
<1>5. \A x : x \in ToSet(s) <=> \E i \in 1 .. n : s[i] = x
    BY <1>3, SetOf
<1>6. ASSUME NEW x \in ToSet(q)
      PROVE  x \in ToSet(s) \cup {e}
    <2>1. PICK i \in 1 .. n + 1 : q[i] = x
        BY <1>4
    <2>2. CASE i < j
        BY <1>2, <1>5, <2>1, <2>2
    <2>3. CASE i = j
        BY <1>2, <2>1, <2>3
    <2>4. CASE i > j
        <3>1. i - 1 \in 1 .. n /\ s[i - 1] = x
            BY <1>2, <2>1, <2>4
        <3>2. QED
            BY <1>5, <3>1
    <2>5. QED
        BY <2>2, <2>3, <2>4
<1>7. e \in ToSet(q)
    BY <1>2, <1>4
<1>8. ASSUME NEW x \in ToSet(s)
      PROVE  x \in ToSet(q)
    <2>1. PICK i \in 1 .. n : s[i] = x
        BY <1>5
    <2>2. CASE i < j
        BY <1>2, <1>4, <2>1, <2>2
    <2>3. CASE i >= j
        <3>1. i + 1 \in 1 .. n + 1 /\ ~(i + 1 < j) /\ i + 1 # j /\ (i + 1) - 1 = i
            BY <2>3
        <3>2. q[i + 1] = x
            BY <1>2, <2>1, <3>1
        <3>3. QED
            BY <1>4, <3>1, <3>2
    <2>4. QED
        BY <2>2, <2>3
<1>9. QED
    BY <1>1, <1>6, <1>7, <1>8

LEMMA JoinedSet ==
    ASSUME NEW S, NEW s \in Seq(S), NEW n \in Nat, Len(s) = n,
           NEW u \in Seq(S), NEW k \in Nat, Len(u) = k
    PROVE  ToSet(s \o u) = ToSet(s) \cup ToSet(u)
<1>1. PICK q : q = s \o u
    OBVIOUS
<1>2. DOMAIN q = 1 .. n + k /\ \A i \in 1 .. n + k : q[i] = IF i <= n THEN s[i] ELSE u[i - n]
    <2>1. PICK c \in Nat : c = n + k
        OBVIOUS
    <2>2. s \o u = [i \in 1 .. n + k |-> IF i <= n THEN s[i] ELSE u[i - n]]
        BY ConcatDef
    <2>3. q = [i \in 1 .. c |-> IF i <= n THEN s[i] ELSE u[i - n]]
        BY <1>1, <2>1, <2>2
    <2>4. DOMAIN q = 1 .. c /\ \A i \in 1 .. c : q[i] = IF i <= n THEN s[i] ELSE u[i - n]
        BY ONLY <2>3
    <2>5. QED
        BY <2>1, <2>4
<1>3. DOMAIN s = 1 .. n /\ DOMAIN u = 1 .. k
    OBVIOUS
<1>4. \A x : x \in ToSet(q) <=> \E i \in 1 .. n + k : q[i] = x
    BY <1>2, n + k \in Nat, SetOf
<1>5. \A x : x \in ToSet(s) <=> \E i \in 1 .. n : s[i] = x
    BY <1>3, SetOf
<1>6. \A x : x \in ToSet(u) <=> \E i \in 1 .. k : u[i] = x
    BY <1>3, SetOf
<1>7. ASSUME NEW x \in ToSet(q)
      PROVE  x \in ToSet(s) \cup ToSet(u)
    <2>1. PICK i \in 1 .. n + k : q[i] = x
        BY <1>4
    <2>2. CASE i <= n
        BY <1>2, <1>5, <2>1, <2>2
    <2>3. CASE i > n
        <3>1. i - n \in 1 .. k /\ u[i - n] = x
            BY <1>2, <2>1, <2>3
        <3>2. QED
            BY <1>6, <3>1
    <2>4. QED
        BY <2>2, <2>3
<1>8. ASSUME NEW x \in ToSet(s)
      PROVE  x \in ToSet(q)
    <2>1. PICK i \in 1 .. n : s[i] = x
        BY <1>5
    <2>2. i \in 1 .. n + k /\ i <= n
        OBVIOUS
    <2>3. QED
        BY <1>2, <1>4, <2>1, <2>2
<1>9. ASSUME NEW x \in ToSet(u)
      PROVE  x \in ToSet(q)
    <2>1. PICK i \in 1 .. k : u[i] = x
        BY <1>6
    <2>2. i + n \in 1 .. n + k /\ ~(i + n <= n) /\ (i + n) - n = i
        OBVIOUS
    <2>3. QED
        BY <1>2, <1>4, <2>1, <2>2
<1>10. QED
    BY <1>1, <1>7, <1>8, <1>9

\* A key that comes in between its neighbours
LEMMA LeafInsert ==
    ASSUME NEW n \in Nat, NEW ks \in Seq(Keys), Len(ks) = n,
           NEW L, NEW H, LeafOrdered(ks, L, H), NEW j \in 1 .. n + 1,
           NEW k \in Keys, k \in L, k \notin H,
           \A i \in 1 .. n : IF i < j THEN ks[i] < k ELSE k < ks[i]
    PROVE  LeafOrdered(InsertAt(ks, j, k), L, H)
<1>1. PICK q : q = InsertAt(ks, j, k)
    OBVIOUS
<1>2. DOMAIN q = 1 .. n + 1 /\ \A i \in 1 .. n + 1 : q[i] = IF i < j THEN ks[i]
                                                           ELSE IF i = j THEN k ELSE ks[i - 1]
    BY <1>1, InsertAtDef
<1>3. /\ \A a, b \in 1 .. n : a < b => ks[a] < ks[b]
      /\ \A a \in 1 .. n : ks[a] \in L /\ ks[a] \notin H
    BY DOMAIN ks = 1 .. n DEF LeafOrdered
<1>4. ASSUME NEW a \in 1 .. n + 1, NEW b \in 1 .. n + 1, a < b
      PROVE  q[a] < q[b]
    <2>1. CASE b < j
        <3>1. a \in 1 .. n /\ b \in 1 .. n /\ a < j
            BY <1>4, <2>1
        <3>2. q[a] = ks[a] /\ q[b] = ks[b]
            BY <1>2, <2>1, <3>1
        <3>3. QED
            BY <1>3, <1>4, <3>1, <3>2
    <2>2. CASE b = j
        <3>1. a \in 1 .. n /\ a < j
            BY <1>4, <2>2
        <3>2. q[a] = ks[a] /\ q[b] = k
            BY <1>2, <2>2, <3>1
        <3>3. QED
            BY <3>1, <3>2
    <2>3. CASE b > j /\ a < j
        <3>1. a \in 1 .. n /\ b - 1 \in 1 .. n /\ a < b - 1
            BY <2>3
        <3>2. q[a] = ks[a] /\ q[b] = ks[b - 1]
            BY <1>2, <2>3
        <3>3. QED
            BY <1>3, <3>1, <3>2
    <2>4. CASE b > j /\ a = j
        <3>1. b - 1 \in 1 .. n /\ ~(b - 1 < j)
            BY <2>4
        <3>2. q[a] = k /\ q[b] = ks[b - 1]
            BY <1>2, <2>4
        <3>3. QED
            BY <3>1, <3>2
    <2>5. CASE a > j
        <3>1. a - 1 \in 1 .. n /\ b - 1 \in 1 .. n /\ a - 1 < b - 1 /\ b > j
            BY <1>4, <2>5
        <3>2. q[a] = ks[a - 1] /\ q[b] = ks[b - 1]
            BY <1>2, <2>5, <3>1
        <3>3. QED
            BY <1>3, <3>1, <3>2
    <2>6. QED
        BY <1>4, <2>1, <2>2, <2>3, <2>4, <2>5
<1>5. ASSUME NEW a \in 1 .. n + 1
      PROVE  q[a] \in L /\ q[a] \notin H
    <2>1. CASE a < j
        BY <1>2, <1>3, <2>1
    <2>2. CASE a = j
        BY <1>2, <2>2
    <2>3. CASE a > j
        <3>1. a - 1 \in 1 .. n /\ q[a] = ks[a - 1]
            BY <1>2, <2>3
        <3>2. QED
            BY <1>3, <3>1
    <2>4. QED
        BY <2>1, <2>2, <2>3
<1>6. LeafOrdered(q, L, H)
    BY <1>2, <1>4, <1>5 DEF LeafOrdered
<1>7. QED
    BY <1>1, <1>6

\* A key that goes out
LEMMA LeafRemove ==
    ASSUME NEW n \in Nat, NEW ks \in Seq(Keys), Len(ks) = n,
           NEW L, NEW H, LeafOrdered(ks, L, H), NEW j \in 1 .. n
    PROVE  /\ LeafOrdered(RemoveAt(ks, j), L, H)
           /\ ToSet(RemoveAt(ks, j)) = ToSet(ks) \ {ks[j]}
<1>1. PICK q : q = RemoveAt(ks, j)
    OBVIOUS
<1>2. DOMAIN q = 1 .. n - 1 /\ \A i \in 1 .. n - 1 : q[i] = IF i < j THEN ks[i] ELSE ks[i + 1]
    BY <1>1, RemoveAtDef
<1>3. /\ \A a, b \in 1 .. n : a < b => ks[a] < ks[b]
      /\ \A a \in 1 .. n : ks[a] \in L /\ ks[a] \notin H
    BY DOMAIN ks = 1 .. n DEF LeafOrdered
<1>4. PICK at \in [1 .. n - 1 -> 1 .. n] : at = [i \in 1 .. n - 1 |-> IF i < j THEN i ELSE i + 1]
    <2>1. \A i \in 1 .. n - 1 : (IF i < j THEN i ELSE i + 1) \in 1 .. n
        OBVIOUS
    <2>2. [i \in 1 .. n - 1 |-> IF i < j THEN i ELSE i + 1] \in [1 .. n - 1 -> 1 .. n]
        BY <2>1
    <2>3. QED
        BY <2>2
<1>5. /\ \A i \in 1 .. n - 1 : q[i] = ks[at[i]] /\ at[i] # j
      /\ \A a, b \in 1 .. n - 1 : a < b => at[a] < at[b]
    BY <1>2, <1>4
<1>6. LeafOrdered(q, L, H)
    <2>1. \A a, b \in 1 .. n - 1 : a < b => q[a] < q[b]
        BY <1>3, <1>4, <1>5
    <2>2. \A a \in 1 .. n - 1 : q[a] \in L /\ q[a] \notin H
        BY <1>3, <1>4, <1>5
    <2>3. QED
        BY <1>2, <2>1, <2>2 DEF LeafOrdered
<1>7. \A x : x \in ToSet(q) <=> \E i \in 1 .. n - 1 : q[i] = x
    <2>1. DOMAIN q = 1 .. n - 1
        BY <1>2
    <2>2. QED
        BY ONLY <2>1 DEF ToSet
<1>8. \A x : x \in ToSet(ks) <=> \E i \in 1 .. n : ks[i] = x
    BY DOMAIN ks = 1 .. n, SetOf
<1>9. \A i \in 1 .. n : ks[i] \in Int
    <2>1. \A i \in 1 .. n : ks[i] \in Keys
        OBVIOUS
    <2>2. QED
        BY <2>1, KeysAssumption
<1>10. \A a, b \in 1 .. n : ks[a] = ks[b] => a = b
    BY <1>3, <1>9
<1>11. ASSUME NEW x \in ToSet(q)
       PROVE  x \in ToSet(ks) \ {ks[j]}
    <2>1. PICK i \in 1 .. n - 1 : q[i] = x
        BY <1>7
    <2>2. at[i] \in 1 .. n /\ ks[at[i]] = x /\ at[i] # j
        BY <1>4, <1>5, <2>1
    <2>3. QED
        BY <1>8, <1>10, <2>2
<1>12. ASSUME NEW x \in ToSet(ks), x # ks[j]
       PROVE  x \in ToSet(q)
    <2>1. PICK i \in 1 .. n : ks[i] = x
        BY <1>8
    <2>2. CASE i < j
        <3>1. i \in 1 .. n - 1
            BY <2>2
        <3>2. QED
            BY <1>2, <1>7, <2>1, <2>2, <3>1
    <2>3. CASE i > j
        <3>1. i - 1 \in 1 .. n - 1 /\ ~(i - 1 < j) /\ (i - 1) + 1 = i
            BY <2>3
        <3>2. q[i - 1] = x
            BY <1>2, <2>1, <3>1
        <3>3. QED
            BY <1>7, <3>1, <3>2
    <2>4. i # j
        BY <1>12, <2>1
    <2>5. QED
        BY <2>2, <2>3, <2>4
<1>13. QED
    BY <1>1, <1>6, <1>11, <1>12

\* A leaf cut in two at its key j, which stays in the right half
LEMMA LeafHalvesOrdered ==
    ASSUME NEW n \in Nat, NEW ks \in Seq(Keys), Len(ks) = n,
           NEW L, NEW H, LeafOrdered(ks, L, H), NEW j \in 2 .. n
    PROVE  /\ LeafOrdered(SubSeq(ks, 1, j - 1), L, Up(ks[j]))
           /\ LeafOrdered(SubSeq(ks, j, n), Up(ks[j]), H)
           /\ ToSet(SubSeq(ks, 1, j - 1)) \cup ToSet(SubSeq(ks, j, n)) = ToSet(ks)
           /\ Above(L, ks[j]) /\ ks[j] \notin H
<1>1. PICK q, r : q = SubSeq(ks, 1, j - 1) /\ r = SubSeq(ks, j, n)
    OBVIOUS
<1>2. /\ DOMAIN q = 1 .. j - 1 /\ \A i \in 1 .. j - 1 : q[i] = ks[i]
    <2>1. PICK c \in 0 .. n : c = j - 1
        OBVIOUS
    <2>2. 1 \in 1 .. n + 1 /\ 1 <= c + 1
        OBVIOUS
    <2>3. q = [i \in 1 .. c - 1 + 1 |-> ks[1 + i - 1]]
        BY ONLY <1>1, <2>1, <2>2, n \in Nat, ks \in Seq(Keys), Len(ks) = n, SegmentDef
    <2>4. c - 1 + 1 = j - 1 /\ \A i \in 1 .. j - 1 : 1 + i - 1 = i
        BY <2>1
    <2>5. QED
        BY <2>3, <2>4
<1>3. DOMAIN r = 1 .. n - j + 1 /\ \A i \in 1 .. n - j + 1 : r[i] = ks[j + i - 1]
    <2>1. j \in 1 .. n + 1 /\ n \in 0 .. n /\ j <= n + 1
        OBVIOUS
    <2>2. r = [i \in 1 .. n - j + 1 |-> ks[j + i - 1]]
        BY <1>1, <2>1, SegmentDef
    <2>3. QED
        BY <2>2
<1>4. /\ \A a, b \in 1 .. n : a < b => ks[a] < ks[b]
      /\ \A a \in 1 .. n : ks[a] \in L /\ ks[a] \notin H
    BY DOMAIN ks = 1 .. n DEF LeafOrdered
<1>5. \A i \in 1 .. n : ks[i] \in Keys /\ ks[i] \in Int
    <2>1. \A i \in 1 .. n : ks[i] \in Keys
        OBVIOUS
    <2>2. QED
        BY <2>1, KeysAssumption
<1>6. \A a \in 1 .. j - 1 : a \in 1 .. n /\ ks[a] < ks[j] /\ ~(ks[j] <= ks[a])
    <2>1. \A a \in 1 .. j - 1 : a \in 1 .. n /\ j \in 1 .. n /\ a < j
        OBVIOUS
    <2>2. \A a \in 1 .. j - 1 : ks[a] < ks[j]
        BY <1>4, <2>1
    <2>3. QED
        BY <1>5, <2>1, <2>2
<1>7. \A a \in 1 .. n - j + 1 : j + a - 1 \in 1 .. n /\ ks[j] <= ks[j + a - 1]
    <2>1. \A a \in 1 .. n - j + 1 : j + a - 1 \in 1 .. n /\ j \in 1 .. n
                                    /\ (j + a - 1 = j \/ j < j + a - 1)
        OBVIOUS
    <2>2. QED
        BY <1>4, <1>5, <2>1
<1>8. LeafOrdered(q, L, Up(ks[j]))
    <2>1. \A a, b \in 1 .. j - 1 : a < b => q[a] < q[b]
        BY <1>2, <1>4, <1>6
    <2>2. \A a \in 1 .. j - 1 : q[a] \in L /\ q[a] \notin Up(ks[j])
        BY <1>2, <1>4, <1>6 DEF Up
    <2>3. QED
        BY <1>2, <2>1, <2>2 DEF LeafOrdered
<1>9. LeafOrdered(r, Up(ks[j]), H)
    <2>1. \A a, b \in 1 .. n - j + 1 : a < b => r[a] < r[b]
        BY <1>3, <1>4, <1>7
    <2>2. \A a \in 1 .. n - j + 1 : r[a] \in Up(ks[j]) /\ r[a] \notin H
        BY <1>3, <1>4, <1>5, <1>7 DEF Up
    <2>3. QED
        BY <1>3, <2>1, <2>2 DEF LeafOrdered
<1>10. ToSet(q) \cup ToSet(r) = ToSet(ks)
    <2>1. \A x : x \in ToSet(ks) <=> \E i \in 1 .. n : ks[i] = x
        BY DOMAIN ks = 1 .. n, SetOf
    <2>2. \A x : x \in ToSet(q) <=> \E i \in 1 .. j - 1 : q[i] = x
        BY <1>2, j - 1 \in Nat, SetOf
    <2>3. \A x : x \in ToSet(r) <=> \E i \in 1 .. n - j + 1 : r[i] = x
        BY <1>3, n - j + 1 \in Nat, SetOf
    <2>4. ASSUME NEW i \in 1 .. n
          PROVE  ks[i] \in ToSet(q) \cup ToSet(r)
        <3>1. CASE i < j
            BY <1>2, <2>2, <3>1
        <3>2. CASE i >= j
            <4>1. i - j + 1 \in 1 .. n - j + 1 /\ j + (i - j + 1) - 1 = i
                BY <3>2
            <4>2. r[i - j + 1] = ks[i]
                BY <1>3, <4>1
            <4>3. QED
                BY <2>3, <4>1, <4>2
        <3>3. QED
            BY <3>1, <3>2
    <2>5. ToSet(q) \subseteq ToSet(ks)
        BY <1>2, <1>6, <2>1, <2>2
    <2>6. ToSet(r) \subseteq ToSet(ks)
        BY <1>3, <1>7, <2>1, <2>3
    <2>7. QED
        BY <2>1, <2>4, <2>5, <2>6
<1>11. Above(L, ks[j]) /\ ks[j] \notin H
    <2>1. 1 \in 1 .. j - 1 /\ 1 \in 1 .. n /\ j \in 1 .. n
        OBVIOUS
    <2>2. ks[1] \in L /\ ks[1] < ks[j]
        BY <1>4, <1>6, <2>1
    <2>3. QED
        BY <1>4, <2>1, <2>2 DEF Above
<1>12. QED
    BY <1>1, <1>8, <1>9, <1>10, <1>11

\* Two neighbours joined
LEMMA LeafJoin ==
    ASSUME NEW a \in Nat, NEW ks \in Seq(Keys), Len(ks) = a,
           NEW b \in Nat, NEW xs \in Seq(Keys), Len(xs) = b,
           NEW L \in Cuts, NEW H \in Cuts, NEW k \in Keys,
           LeafOrdered(ks, L, Up(k)), LeafOrdered(xs, Up(k), H), Above(L, k), k \notin H
    PROVE  LeafOrdered(ks \o xs, L, H)
<1>1. PICK q : q = ks \o xs
    OBVIOUS
<1>2. DOMAIN q = 1 .. a + b /\ \A i \in 1 .. a + b : q[i] = IF i <= a THEN ks[i] ELSE xs[i - a]
    <2>1. PICK c \in Nat : c = a + b
        OBVIOUS
    <2>2. ks \o xs = [i \in 1 .. a + b |-> IF i <= a THEN ks[i] ELSE xs[i - a]]
        BY ConcatDef
    <2>3. q = [i \in 1 .. c |-> IF i <= a THEN ks[i] ELSE xs[i - a]]
        BY <1>1, <2>1, <2>2
    <2>4. DOMAIN q = 1 .. c /\ \A i \in 1 .. c : q[i] = IF i <= a THEN ks[i] ELSE xs[i - a]
        BY ONLY <2>3
    <2>5. QED
        BY <2>1, <2>4
<1>3. /\ \A i, j \in 1 .. a : i < j => ks[i] < ks[j]
      /\ \A i \in 1 .. a : ks[i] \in L /\ ks[i] \notin Up(k)
    BY DOMAIN ks = 1 .. a DEF LeafOrdered
<1>4. /\ \A i, j \in 1 .. b : i < j => xs[i] < xs[j]
      /\ \A i \in 1 .. b : xs[i] \in Up(k) /\ xs[i] \notin H
    BY DOMAIN xs = 1 .. b DEF LeafOrdered
<1>5. k \in Int
    BY KeysAssumption
<1>6. \A i \in 1 .. a : ks[i] \in Keys /\ ks[i] \in Int /\ ks[i] < k
    <2>1. \A i \in 1 .. a : ks[i] \in Keys
        OBVIOUS
    <2>2. \A i \in 1 .. a : ks[i] \in Int
        BY <2>1, KeysAssumption
    <2>3. \A i \in 1 .. a : ~(k <= ks[i])
        BY <1>3, <2>1 DEF Up
    <2>4. QED
        BY <1>5, <2>1, <2>2, <2>3
<1>7. \A i \in 1 .. b : xs[i] \in Keys /\ xs[i] \in Int /\ k <= xs[i]
    <2>1. \A i \in 1 .. b : xs[i] \in Keys
        OBVIOUS
    <2>2. QED
        BY <1>4, <2>1, KeysAssumption DEF Up
<1>8. ASSUME NEW i \in 1 .. a + b, NEW j \in 1 .. a + b, i < j
      PROVE  q[i] < q[j]
    <2>1. CASE j <= a
        <3>1. i \in 1 .. a /\ j \in 1 .. a
            BY <1>8, <2>1
        <3>2. QED
            BY <1>2, <1>3, <1>8, <3>1
    <2>2. CASE i <= a /\ j > a
        <3>1. i \in 1 .. a /\ j - a \in 1 .. b /\ q[i] = ks[i] /\ q[j] = xs[j - a]
            BY <1>2, <2>2
        <3>2. QED
            BY <1>5, <1>6, <1>7, <3>1
    <2>3. CASE i > a
        <3>1. i - a \in 1 .. b /\ j - a \in 1 .. b /\ i - a < j - a /\ ~(j <= a)
            BY <1>8, <2>3
        <3>2. q[i] = xs[i - a] /\ q[j] = xs[j - a]
            BY <1>2, <2>3, <3>1
        <3>3. QED
            BY <1>4, <3>1, <3>2
    <2>4. QED
        BY <2>1, <2>2, <2>3
<1>9. ASSUME NEW i \in 1 .. a + b
      PROVE  q[i] \in L /\ q[i] \notin H
    <2>1. CASE i <= a
        <3>1. i \in 1 .. a /\ q[i] = ks[i]
            BY <1>2, <2>1
        <3>2. ks[i] <= k
            BY <1>5, <1>6, <3>1
        <3>3. ks[i] \notin H
            BY <1>6, <3>1, <3>2, CutIs
        <3>4. QED
            BY <1>3, <3>1, <3>3
    <2>2. CASE i > a
        <3>1. i - a \in 1 .. b /\ q[i] = xs[i - a]
            BY <1>2, <2>2
        <3>2. k \in L
            BY AboveIs
        <3>3. xs[i - a] \in L
            BY <1>7, <3>1, <3>2, CutIs
        <3>4. QED
            BY <1>4, <3>1, <3>3
    <2>3. QED
        BY <2>1, <2>2
<1>10. LeafOrdered(q, L, H)
    BY <1>2, <1>8, <1>9 DEF LeafOrdered
<1>11. QED
    BY <1>1, <1>10

-----------------------------------------------------------------------------
(***************************************************************************)
(* Sequences joined end to end.                                            *)
(***************************************************************************)

\* A partial result of FlattenSeq, after k of the sequences
IsJoin(w, k, ss) ==
    /\ w = [i \in 1 .. k |-> w[i]]
    /\ w[1] = ss[1]
    /\ \A i \in 2 .. k : w[i] = w[i - 1] \o ss[i]

LEMMA JoinExists ==
    ASSUME NEW ss, NEW n \in Nat
    PROVE  \A k \in 1 .. n : \E w : IsJoin(w, k, ss)
<1>1. PICK Bad : Bad = {k \in 1 .. n : \A w : ~IsJoin(w, k, ss)}
    OBVIOUS
<1>2. SUFFICES ASSUME Bad # {} PROVE FALSE
    BY <1>1
<1>3. PICK b \in Bad : \A i \in Bad : b <= i
    <2>1. Bad \in SUBSET Nat
        BY <1>1
    <2>2. QED
        BY <1>2, <2>1, LeastNat
<1>4. b \in 1 .. n
    BY <1>1, <1>3
<1>5. CASE b = 1
    <2>1. PICK w : w = [i \in 1 .. 1 |-> ss[1]]
        OBVIOUS
    <2>2. IsJoin(w, 1, ss)
        BY <2>1 DEF IsJoin
    <2>3. QED
        BY <1>1, <1>3, <1>5, <2>2
<1>6. CASE b # 1
    <2>1. PICK k \in 1 .. n : b = k + 1
        <3>1. b - 1 \in 1 .. n /\ b = (b - 1) + 1
            BY <1>4, <1>6
        <3>2. QED
            BY <3>1
    <2>2. k \notin Bad
        BY <1>3, <2>1
    <2>3. PICK w : IsJoin(w, k, ss)
        BY <1>1, <2>2
    <2>4. PICK v : v = [i \in 1 .. k + 1 |-> IF i = k + 1 THEN w[k] \o ss[k + 1] ELSE w[i]]
        OBVIOUS
    <2>5. /\ v[1] = ss[1]
          /\ \A i \in 1 .. k : v[i] = w[i]
          /\ v[k + 1] = w[k] \o ss[k + 1]
        <3>1. \A i \in 1 .. k : i \in 1 .. k + 1 /\ i # k + 1
            OBVIOUS
        <3>2. \A i \in 1 .. k : v[i] = w[i]
            BY <2>4, <3>1
        <3>3. 1 \in 1 .. k /\ k + 1 \in 1 .. k + 1
            OBVIOUS
        <3>4. v[k + 1] = w[k] \o ss[k + 1]
            BY <2>4, <3>3
        <3>5. w[1] = ss[1]
            BY <2>3 DEF IsJoin
        <3>6. QED
            BY <3>2, <3>3, <3>4, <3>5
    <2>6. v = [i \in 1 .. k + 1 |-> v[i]]
        BY <2>4
    <2>7. ASSUME NEW i \in 2 .. k + 1
          PROVE  v[i] = v[i - 1] \o ss[i]
        <3>1. i - 1 \in 1 .. k /\ v[i - 1] = w[i - 1]
            BY <2>5
        <3>2. CASE i = k + 1
            <4>1. i - 1 = k
                BY <3>2
            <4>2. v[i - 1] = w[k]
                BY <3>1, <4>1
            <4>3. v[i] = w[k] \o ss[i]
                BY <2>5, <3>2
            <4>4. QED
                BY <4>2, <4>3
        <3>3. CASE i # k + 1
            <4>1. i \in 2 .. k /\ i \in 1 .. k
                BY <3>3
            <4>2. w[i] = w[i - 1] \o ss[i]
                BY <2>3, <4>1 DEF IsJoin
            <4>3. QED
                BY <2>5, <3>1, <4>1, <4>2
        <3>4. QED
            BY <3>2, <3>3
    <2>8. IsJoin(v, k + 1, ss)
        BY <2>5, <2>6, <2>7 DEF IsJoin
    <2>9. QED
        BY <1>1, <1>3, <2>1, <2>8
<1>7. QED
    BY <1>5, <1>6

\* The recursion that defines FlattenSeq has the solution it is meant to have,
\* so that what each join keeps holds of the whole.
LEMMA FlattenStays ==
    ASSUME NEW S, NEW n \in Nat \ {0}, NEW ss \in Seq(Seq(S)), Len(ss) = n,
           NEW G, ss[1] \in G[1],
           \A i \in 1 .. n - 1 : \A y \in Seq(S) : y \in G[i] => y \o ss[i + 1] \in G[i + 1]
    PROVE  FlattenSeq(ss) \in Seq(S) /\ FlattenSeq(ss) \in G[n]
<1>s. \A i \in 1 .. n : ss[i] \in Seq(S)
    OBVIOUS
<1>8. PICK f : IsJoin(f, n, ss)
    <2>1. n \in 1 .. n
        OBVIOUS
    <2>2. QED
        BY <2>1, JoinExists
<1>9. f = [i \in 1 .. n |-> IF i = 1 THEN ss[i] ELSE f[i - 1] \o ss[i]]
    <2>1. \A i \in 1 .. n : i = 1 \/ i \in 2 .. n
        OBVIOUS
    <2>2. QED
        BY <1>8, <2>1 DEF IsJoin
<1> DEFINE g == CHOOSE z : z = [i \in 1 .. n |-> IF i = 1 THEN ss[i] ELSE z[i - 1] \o ss[i]]
<1>10. g = [i \in 1 .. n |-> IF i = 1 THEN ss[i] ELSE g[i - 1] \o ss[i]]
    BY <1>9
<1>11. FlattenSeq(ss) = g[n]
    BY DEF FlattenSeq
<1> HIDE DEF g
<1>12. PICK Bad : Bad = {i \in 1 .. n : ~(g[i] \in Seq(S) /\ g[i] \in G[i])}
    OBVIOUS
<1>13. Bad = {}
    <2>1. SUFFICES ASSUME Bad # {} PROVE FALSE
        OBVIOUS
    <2>2. PICK b \in Bad : \A i \in Bad : b <= i
        <3>1. Bad \in SUBSET Nat
            BY <1>12
        <3>2. QED
            BY <2>1, <3>1, LeastNat
    <2>3. b \in 1 .. n /\ ~(g[b] \in Seq(S) /\ g[b] \in G[b])
        BY <1>12, <2>2
    <2>4. b # 1
        BY <1>10, <1>s, <2>3
    <2>5. PICK j \in Nat : j = b - 1 /\ j \in 1 .. n - 1 /\ b = j + 1
        BY <2>3, <2>4
    <2>6. g[j] \in Seq(S) /\ g[j] \in G[j]
        <3>1. j \in 1 .. n /\ j \notin Bad
            BY <2>2, <2>5
        <3>2. QED
            BY <1>12, <3>1
    <2>7. g[b] = g[j] \o ss[j + 1]
        BY <1>10, <2>3, <2>4, <2>5
    <2>8. ss[j + 1] \in Seq(S)
        BY <1>s, <2>3, <2>5
    <2>9. g[b] \in Seq(S) /\ g[b] \in G[b]
        BY <2>5, <2>6, <2>7, <2>8
    <2>10. QED
        BY <2>3, <2>9
<1>14. n \in 1 .. n
    OBVIOUS
<1>15. QED
    BY <1>11, <1>12, <1>13, <1>14

-----------------------------------------------------------------------------
(***************************************************************************)
(* Entries in order.                                                       *)
(***************************************************************************)

\* Entries on either side of a cut
LEMMA LeafAppend ==
    ASSUME NEW a \in Nat, NEW ks \in Seq(Keys), Len(ks) = a,
           NEW b \in Nat, NEW xs \in Seq(Keys), Len(xs) = b,
           NEW L \in Cuts, NEW C \in Cuts, NEW H \in Cuts, C \subseteq L, H \subseteq C,
           LeafOrdered(ks, L, C), LeafOrdered(xs, C, H)
    PROVE  LeafOrdered(ks \o xs, L, H)
<1>1. PICK ys : ys = ks \o xs
    OBVIOUS
<1>2. ys = [j \in 1 .. a + b |-> IF j <= a THEN ks[j] ELSE xs[j - a]]
    <2>1. /\ ys \in Seq(Keys) /\ Len(ys) = a + b
          /\ \A j \in 1 .. a + b : ys[j] = IF j <= a THEN ks[j] ELSE xs[j - a]
        BY <1>1
    <2>2. QED
        BY ONLY <2>1
<1>3. DOMAIN ys = 1 .. a + b /\ DOMAIN ks = 1 .. a /\ DOMAIN xs = 1 .. b
    BY <1>2
<1>k. /\ \A j \in 1 .. a : ks[j] \in L /\ ks[j] \notin C
      /\ \A j \in 1 .. b : xs[j] \in C /\ xs[j] \notin H
    BY <1>3 DEF LeafOrdered
<1>4. \A j \in 1 .. a : ys[j] = ks[j] /\ ks[j] \in L /\ ks[j] \notin C /\ ks[j] \in Keys
    <2>1. \A j \in 1 .. a : j \in 1 .. a + b /\ j <= a /\ ks[j] \in Keys
        BY <1>3
    <2>2. \A j \in 1 .. a : ys[j] = ks[j]
        BY <1>2, <2>1
    <2>3. QED
        BY <1>k, <2>1, <2>2
<1>5. \A j \in 1 .. a + b : j > a => /\ j - a \in 1 .. b /\ ys[j] = xs[j - a]
                                     /\ xs[j - a] \in C /\ xs[j - a] \notin H
    <2>1. \A j \in 1 .. a + b : j > a => j - a \in 1 .. b /\ ~(j <= a)
        OBVIOUS
    <2>2. \A j \in 1 .. a + b : j > a => ys[j] = xs[j - a]
        BY <1>2, <2>1
    <2>3. QED
        BY <1>k, <2>1, <2>2
<1>6. ASSUME NEW i \in 1 .. a + b
      PROVE  ys[i] \in L /\ ys[i] \notin H
    <2>1. CASE i <= a
        BY <1>4, <2>1
    <2>2. CASE i > a
        BY <1>5, <2>2
    <2>3. QED
        BY <2>1, <2>2
<1>7. ASSUME NEW i \in 1 .. a + b, NEW j \in 1 .. a + b, i < j
      PROVE  ys[i] < ys[j]
    <2>1. CASE j <= a
        <3>1. i \in 1 .. a /\ j \in 1 .. a
            BY <1>7, <2>1
        <3>2. QED
            BY <1>3, <1>4, <1>7, <3>1 DEF LeafOrdered
    <2>2. CASE i <= a /\ j > a
        <3>1. ys[i] \in Keys /\ ys[i] \notin C /\ ys[j] \in C
            BY <1>4, <1>5, <2>2
        <3>2. QED
            BY <3>1, CutsNest
    <2>3. CASE i > a
        <3>1. /\ i - a \in 1 .. b /\ j - a \in 1 .. b /\ i - a < j - a
              /\ ys[i] = xs[i - a] /\ ys[j] = xs[j - a]
            BY <1>5, <1>7, <2>3
        <3>2. QED
            BY <1>3, <3>1 DEF LeafOrdered
    <2>4. QED
        BY <2>1, <2>2, <2>3
<1>8. QED
    BY <1>1, <1>3, <1>6, <1>7 DEF LeafOrdered

\* Keys that rise are as many as they are long.
LEMMA RisingKeys ==
    ASSUME NEW n \in Nat, NEW ks \in Seq(Keys), Len(ks) = n, NEW L, NEW H, LeafOrdered(ks, L, H)
    PROVE  IsFiniteSet(ToSet(ks)) /\ Cardinality(ToSet(ks)) = n
<1>1. DOMAIN ks = 1 .. n
    OBVIOUS
<1>2. IsFiniteSet(1 .. n) /\ Cardinality(1 .. n) = n
    BY FS_Interval
<1>3. \A x : x \in ToSet(ks) <=> \E i \in 1 .. n : ks[i] = x
    BY <1>1, SetOf
<1>4. ks \in [1 .. n -> ToSet(ks)]
    BY <1>1, <1>3
<1>5. \A i, j \in 1 .. n : ks[i] = ks[j] => i = j
    <2>1. \A i \in 1 .. n : ks[i] \in Int
        <3>1. \A i \in 1 .. n : ks[i] \in Keys
            BY <1>1
        <3>2. QED
            BY <3>1, KeysAssumption
    <2>2. ASSUME NEW i \in 1 .. n, NEW j \in 1 .. n, ks[i] = ks[j]
          PROVE  i = j
        <3>1. ~(i < j) /\ ~(j < i)
            BY <1>1, <2>1, <2>2 DEF LeafOrdered
        <3>2. QED
            BY <3>1
    <2>3. QED
        BY <2>2
<1>6. ks \in Bijection(1 .. n, ToSet(ks))
    BY <1>3, <1>4, <1>5 DEF Bijection, Injection, Surjection, IsInjective
<1>7. ExistsBijection(1 .. n, ToSet(ks))
    BY <1>6 DEF ExistsBijection
<1>8. QED
    BY <1>2, <1>7, FS_Bijection

-----------------------------------------------------------------------------
(***************************************************************************)
(* Where the elements of sequences joined end to end are: o[i] elements    *)
(* come before those of the i-th of the n sequences in ss.                 *)
(***************************************************************************)
Offsets(o, ss, n) ==
    /\ o \in [1 .. n + 1 -> Nat]
    /\ o[1] = 0
    /\ \A i \in 1 .. n : o[i + 1] = o[i] + Len(ss[i])

LEMMA OffsetsExist ==
    ASSUME NEW S, NEW n \in Nat, NEW ss \in [1 .. n -> Seq(S)]
    PROVE  \E o : Offsets(o, ss, n)
<1>1. CASE n = 0
    <2>1. PICK o : o = [i \in 1 .. 1 |-> 0]
        OBVIOUS
    <2>2. o \in [1 .. n + 1 -> Nat] /\ o[1] = 0
        BY <1>1, <2>1
    <2>3. QED
        BY <1>1, <2>2 DEF Offsets
<1>2. CASE n # 0
    <2>1. n \in 1 .. n
        BY <1>2
    <2>2. PICK w : IsJoin(w, n, ss)
        BY <2>1, JoinExists
    <2>3. PICK Bad : Bad = {i \in 1 .. n : w[i] \notin Seq(S)}
        OBVIOUS
    <2>4. ASSUME Bad # {} PROVE FALSE
        <3>1. PICK b \in Bad : \A i \in Bad : b <= i
            <4>1. Bad \in SUBSET Nat
                BY <2>3
            <4>2. QED
                BY <2>4, <4>1, LeastNat
        <3>2. b \in 1 .. n /\ w[b] \notin Seq(S)
            BY <2>3, <3>1
        <3>3. CASE b = 1
            BY <2>1, <2>2, <3>2, <3>3 DEF IsJoin
        <3>4. CASE b # 1
            <4>1. b - 1 \in 1 .. n /\ b - 1 \notin Bad /\ b \in 2 .. n
                BY <3>1, <3>2, <3>4
            <4>2. w[b - 1] \in Seq(S)
                BY <2>3, <4>1
            <4>3. w[b] = w[b - 1] \o ss[b] /\ ss[b] \in Seq(S)
                BY <2>2, <3>2, <4>1 DEF IsJoin
            <4>4. QED
                BY <3>2, <4>2, <4>3
        <3>5. QED
            BY <3>3, <3>4
    <2>5. \A i \in 1 .. n : w[i] \in Seq(S)
        BY <2>3, <2>4
    <2>6. PICK o : o = [i \in 1 .. n + 1 |-> IF i = 1 THEN 0 ELSE Len(w[i - 1])]
        OBVIOUS
    <2>7. \A i \in 1 .. n : i + 1 \in 1 .. n + 1 /\ o[i + 1] = Len(w[i])
        BY <2>6
    <2>8. o \in [1 .. n + 1 -> Nat]
        <3>1. ASSUME NEW i \in 1 .. n + 1
              PROVE  (IF i = 1 THEN 0 ELSE Len(w[i - 1])) \in Nat
            <4>1. CASE i = 1
                BY <4>1
            <4>2. CASE i # 1
                <5>1. i - 1 \in 1 .. n
                    BY <4>2
                <5>2. w[i - 1] \in Seq(S)
                    BY <2>5, <5>1
                <5>3. QED
                    BY <4>2, <5>2
            <4>3. QED
                BY <4>1, <4>2
        <3>2. QED
            BY <2>6, <3>1
    <2>9. o[1] = 0
        BY <2>6
    <2>10. ASSUME NEW i \in 1 .. n
           PROVE  o[i + 1] = o[i] + Len(ss[i])
        <3>1. ss[i] \in Seq(S) /\ Len(ss[i]) \in Nat
            OBVIOUS
        <3>2. CASE i = 1
            <4>1. w[1] = ss[1]
                BY <2>2 DEF IsJoin
            <4>2. QED
                BY <2>7, <2>9, <3>1, <3>2, <4>1
        <3>3. CASE i # 1
            <4>1. PICK j \in 1 .. n : i = j + 1
                <5>1. i - 1 \in 1 .. n /\ i = (i - 1) + 1
                    BY <3>3
                <5>2. QED
                    BY <5>1
            <4>2. w[i] = w[j] \o ss[i]
                <5>1. i \in 2 .. n /\ i - 1 = j
                    BY <4>1
                <5>2. QED
                    BY <2>2, <5>1 DEF IsJoin
            <4>3. w[j] \in Seq(S)
                BY <2>5
            <4>4. Len(w[i]) = Len(w[j]) + Len(ss[i])
                BY <3>1, <4>2, <4>3
            <4>5. o[i] = Len(w[j])
                BY <2>7, <4>1
            <4>6. QED
                BY <2>7, <4>4, <4>5
        <3>4. QED
            BY <3>2, <3>3
    <2>11. QED
        BY <2>8, <2>9, <2>10 DEF Offsets
<1>3. QED
    BY <1>1, <1>2

LEMMA OffsetsRise ==
    ASSUME NEW S, NEW n \in Nat, NEW ss \in [1 .. n -> Seq(S)], NEW o, Offsets(o, ss, n)
    PROVE  /\ \A i \in 1 .. n + 1 : o[i] \in Nat
           /\ \A i \in 1 .. n : o[i + 1] = o[i] + Len(ss[i])
           /\ \A i, j \in 1 .. n + 1 : i <= j => o[i] <= o[j]
<1>1. \A i \in 1 .. n + 1 : o[i] \in Nat
    BY DEF Offsets
<1>2. \A i \in 1 .. n : o[i + 1] = o[i] + Len(ss[i])
    BY DEF Offsets
<1>3. ASSUME NEW i \in 1 .. n + 1
      PROVE  \A j \in 1 .. n + 1 : i <= j => o[i] <= o[j]
    <2>1. PICK Bad : Bad = {j \in 1 .. n + 1 : i <= j /\ ~(o[i] <= o[j])}
        OBVIOUS
    <2>2. SUFFICES ASSUME Bad # {} PROVE FALSE
        BY <2>1
    <2>3. PICK b \in Bad : \A j \in Bad : b <= j
        <3>1. Bad \in SUBSET Nat
            BY <2>1
        <3>2. QED
            BY <2>2, <3>1, LeastNat
    <2>4. b \in 1 .. n + 1 /\ i <= b /\ ~(o[i] <= o[b])
        BY <2>1, <2>3
    <2>5. b # i
        BY <1>1, <2>4
    <2>6. PICK c \in 1 .. n : b = c + 1
        <3>1. b - 1 \in 1 .. n /\ b = (b - 1) + 1
            BY <2>4, <2>5
        <3>2. QED
            BY <3>1
    <2>7. c \in 1 .. n + 1 /\ i <= c /\ c \notin Bad
        BY <2>3, <2>4, <2>5, <2>6
    <2>8. o[i] <= o[c]
        BY <2>1, <2>7
    <2>9. Len(ss[c]) \in Nat
        <3>1. ss[c] \in Seq(S)
            BY <2>6
        <3>2. QED
            BY <3>1
    <2>10. o[b] = o[c] + Len(ss[c])
        BY <1>2, <2>6
    <2>11. o[i] \in Nat /\ o[c] \in Nat /\ o[b] \in Nat
        BY <1>1, <2>4, <2>7
    <2>12. QED
        BY <2>4, <2>8, <2>9, <2>10, <2>11
<1>4. QED
    BY <1>1, <1>2, <1>3

\* x is such a sequence.
Joins(x, S, ss, n, o) ==
    /\ x \in Seq(S) /\ Len(x) = o[n + 1]
    /\ \A i \in 1 .. n : \A j \in 1 .. Len(ss[i]) : x[o[i] + j] = ss[i][j]

\* The elements of the join, by the sequence they are of
LEMMA JoinIs ==
    ASSUME NEW S, NEW n, NEW ss, n \in Nat, ss \in Seq(Seq(S)), Len(ss) = n,
           NEW o, Offsets(o, ss, n)
    PROVE  Joins(FlattenSeq(ss), S, ss, n, o)
<1>0. ss \in [1 .. n -> Seq(S)] /\ \A i \in 1 .. n : ss[i] \in Seq(S)
    OBVIOUS
<1>1. CASE n = 0
    <2>1. ss = <<>>
        BY <1>1
    <2>2. FlattenSeq(ss) = <<>>
        BY <1>1, <2>1 DEF FlattenSeq
    <2>3. o[n + 1] = 0
        BY <1>1 DEF Offsets
    <2>4. QED
        BY <1>1, <2>2, <2>3 DEF Joins
<1>2. CASE n # 0
    <2>1. PICK G : G = [k \in 1 .. n |->
              {y \in Seq(S) : /\ Len(y) = o[k + 1]
                              /\ \A i \in 1 .. k : \A j \in 1 .. Len(ss[i]) :
                                    y[o[i] + j] = ss[i][j]}]
        OBVIOUS
    <2>2. 1 \in 1 .. n /\ n \in 1 .. n
        BY <1>2
    <2>3. /\ \A i \in 1 .. n + 1 : o[i] \in Nat
          /\ \A i \in 1 .. n : o[i + 1] = o[i] + Len(ss[i])
          /\ \A i, j \in 1 .. n + 1 : i <= j => o[i] <= o[j]
        <3>1. n \in Nat /\ ss \in [1 .. n -> Seq(S)] /\ Offsets(o, ss, n)
            BY ONLY <1>0, n \in Nat, Offsets(o, ss, n)
        <3>2. QED
            BY ONLY <3>1, OffsetsRise
    <2>4. ss[1] \in G[1]
        <3>1. ss[1] \in Seq(S) /\ o[1] = 0 /\ o[2] = o[1] + Len(ss[1])
            BY <1>0, <2>2, <2>3 DEF Offsets
        <3>2. Len(ss[1]) = o[1 + 1]
            BY <3>1
        <3>3. \A i \in 1 .. 1 : \A j \in 1 .. Len(ss[i]) : ss[1][o[i] + j] = ss[i][j]
            BY <3>1
        <3>4. QED
            BY <2>1, <2>2, <3>1, <3>2, <3>3
    <2>5. ASSUME NEW k \in 1 .. n - 1, NEW y \in Seq(S), y \in G[k]
          PROVE  y \o ss[k + 1] \in G[k + 1]
        <3>1. k \in 1 .. n /\ k + 1 \in 1 .. n /\ k + 1 \in 1 .. n + 1 /\ k + 2 \in 1 .. n + 1
            OBVIOUS
        <3>2. PICK a \in Nat, b \in Nat, x \in Seq(S), z \in Seq(S) :
                  /\ a = Len(y) /\ x = ss[k + 1] /\ b = Len(x) /\ z = y \o x
            <4>1. PICK x \in Seq(S) : x = ss[k + 1]
                BY <1>0, <3>1
            <4>2. Len(y) \in Nat /\ Len(x) \in Nat /\ y \o x \in Seq(S)
                OBVIOUS
            <4>3. QED
                BY <4>1, <4>2
        <3>3. /\ a = o[k + 1]
              /\ \A i \in 1 .. k : \A j \in 1 .. Len(ss[i]) : y[o[i] + j] = ss[i][j]
            BY <2>1, <2>5, <3>1, <3>2
        <3>4. /\ Len(z) = a + b
              /\ \A p \in 1 .. a : z[p] = y[p]
              /\ \A j \in 1 .. b : z[a + j] = x[j]
            <4>1. z = [p \in 1 .. a + b |-> IF p <= a THEN y[p] ELSE x[p - a]] /\ Len(z) = a + b
                <5>1. Len(y) = a /\ Len(x) = b
                    BY <3>2
                <5>2. y \in Seq(S) /\ x \in Seq(S) /\ a \in Nat /\ b \in Nat
                    OBVIOUS
                <5>3. Len(y \o x) = a + b
                    BY ONLY <5>1, <5>2, ConcatSeq
                <5>4. y \o x = [p \in 1 .. a + b |-> IF p <= a THEN y[p] ELSE x[p - a]]
                    BY ONLY <5>1, <5>2, ConcatDef
                <5>5. QED
                    BY <3>2, <5>3, <5>4
            <4>2. \A j \in 1 .. b : a + j \in 1 .. a + b /\ ~(a + j <= a) /\ (a + j) - a = j
                BY <3>2
            <4>3. QED
                BY <4>1, <4>2
        <3>5. o[k + 2] = a + b
            <4>1. o[(k + 1) + 1] = o[k + 1] + Len(ss[k + 1])
                BY <2>3, <3>1
            <4>2. QED
                BY <3>2, <3>3, <4>1
        <3>6. ASSUME NEW i \in 1 .. k + 1, NEW j \in 1 .. Len(ss[i])
              PROVE  z[o[i] + j] = ss[i][j]
            <4>1. CASE i = k + 1
                BY <3>2, <3>3, <3>4, <3>6, <4>1
            <4>2. CASE i # k + 1
                <5>1. i \in 1 .. k /\ i \in 1 .. n /\ i \in 1 .. n + 1 /\ i + 1 \in 1 .. n + 1
                      /\ i + 1 <= k + 1
                    BY <3>1, <4>2
                <5>2. o[i + 1] = o[i] + Len(ss[i]) /\ o[i + 1] <= o[k + 1] /\ o[i] \in Nat
                    BY <2>3, <3>1, <5>1
                <5>3. ss[i] \in Seq(S)
                    BY <1>0, <5>1
                <5>4. Len(ss[i]) \in Nat
                    BY <5>3
                <5>5. o[i] + j \in 1 .. a
                    <6>1. j \in Nat /\ 1 <= j /\ j <= Len(ss[i])
                        BY <5>4
                    <6>2. PICK x1 \in Nat, y1 \in Nat : x1 = o[i] /\ y1 = Len(ss[i])
                        BY ONLY <5>2, <5>4
                    <6>3. x1 + y1 <= a /\ j <= y1
                        BY ONLY <3>3, <5>2, <6>1, <6>2
                    <6>4. x1 + j \in 1 .. a
                        BY ONLY <6>1, <6>3, a \in Nat, x1 \in Nat, y1 \in Nat
                    <6>5. QED
                        BY ONLY <6>2, <6>4
                <5>6. z[o[i] + j] = y[o[i] + j]
                    BY ONLY <3>4, <5>5
                <5>7. QED
                    BY <3>3, <5>1, <5>6
            <4>3. QED
                BY <4>1, <4>2
        <3>7. z \in G[k + 1]
            <4>1. Len(z) = o[(k + 1) + 1]
                BY <3>4, <3>5
            <4>2. QED
                BY <2>1, <3>1, <3>2, <3>6, <4>1
        <3>8. QED
            BY <3>2, <3>7
    <2>6. FlattenSeq(ss) \in Seq(S) /\ FlattenSeq(ss) \in G[n]
        <3>1. n \in Nat \ {0}
            BY <1>2
        <3>2. QED
            BY <2>4, <2>5, <3>1, FlattenStays
    <2>7. QED
        BY <2>1, <2>2, <2>6 DEF Joins
<1>3. QED
    BY <1>1, <1>2

\* Every element of the join is of one of the sequences, and of one only.
Placed(o, ss, n) ==
    /\ \A x \in 1 .. o[n + 1] : \E i \in 1 .. n : \E j \in 1 .. Len(ss[i]) : x = o[i] + j
    /\ \A i, k \in 1 .. n : \A j \in 1 .. Len(ss[i]) : \A l \in 1 .. Len(ss[k]) :
          o[i] + j = o[k] + l => i = k /\ j = l

LEMMA JoinPlaces ==
    ASSUME NEW S, NEW n, NEW ss, NEW o, n \in Nat, ss \in [1 .. n -> Seq(S)], Offsets(o, ss, n)
    PROVE  Placed(o, ss, n)
<1>1. ASSUME NEW x \in 1 .. o[n + 1]
      PROVE  \E i \in 1 .. n : \E j \in 1 .. Len(ss[i]) : x = o[i] + j
    <2>1. /\ \A i \in 1 .. n + 1 : o[i] \in Nat
          /\ \A i \in 1 .. n : o[i + 1] = o[i] + Len(ss[i])
        BY OffsetsRise
    <2>2. n + 1 \in 1 .. n + 1 /\ o[n + 1] \in Nat
        BY <2>1
    <2>3. PICK T : T = {i \in 1 .. n + 1 : x <= o[i]}
        OBVIOUS
    <2>4. n + 1 \in T
        BY <2>2, <2>3
    <2>5. PICK b \in T : \A i \in T : b <= i
        <3>1. T \in SUBSET Nat /\ T # {}
            <4>1. \A i \in T : i \in Nat
                BY <2>3
            <4>2. QED
                BY <2>4, <4>1
        <3>2. QED
            BY <3>1, LeastNat
    <2>6. b \in 1 .. n + 1 /\ x <= o[b]
        BY <2>3, <2>5
    <2>7. b # 1
        BY <2>2, <2>6 DEF Offsets
    <2>8. PICK i \in 1 .. n : b = i + 1
        <3>1. b - 1 \in 1 .. n /\ b = (b - 1) + 1
            BY <2>6, <2>7
        <3>2. QED
            BY <3>1
    <2>9. i \in 1 .. n + 1 /\ i \notin T
        BY <2>5, <2>8
    <2>10. ~(x <= o[i]) /\ o[i] \in Nat /\ o[b] = o[i] + Len(ss[i])
        BY <2>1, <2>3, <2>8, <2>9
    <2>11. x - o[i] \in 1 .. Len(ss[i]) /\ x = o[i] + (x - o[i])
        <3>1. ss[i] \in Seq(S)
            BY <2>8
        <3>2. Len(ss[i]) \in Nat
            BY <3>1
        <3>3. QED
            BY <2>2, <2>6, <2>10, <3>2
    <2>12. QED
        BY <2>11
<1>2. ASSUME NEW i \in 1 .. n, NEW k \in 1 .. n, NEW j \in 1 .. Len(ss[i]),
             NEW l \in 1 .. Len(ss[k]), o[i] + j = o[k] + l
      PROVE  i = k /\ j = l
    <2>1. /\ \A x \in 1 .. n + 1 : o[x] \in Nat
          /\ \A x \in 1 .. n : o[x + 1] = o[x] + Len(ss[x])
          /\ \A x, y \in 1 .. n + 1 : x <= y => o[x] <= o[y]
        BY OffsetsRise
    <2>2. ss[i] \in Seq(S) /\ ss[k] \in Seq(S)
        OBVIOUS
    <2>3. Len(ss[i]) \in Nat /\ Len(ss[k]) \in Nat
        BY <2>2
    <2>4. /\ i \in 1 .. n + 1 /\ k \in 1 .. n + 1 /\ i + 1 \in 1 .. n + 1 /\ k + 1 \in 1 .. n + 1
        OBVIOUS
    <2>5. o[i] \in Nat /\ o[k] \in Nat
        BY <2>1, <2>4
    <2>6. ~(i < k)
        <3>1. SUFFICES ASSUME i < k PROVE FALSE
            OBVIOUS
        <3>2. o[i + 1] <= o[k] /\ o[i + 1] = o[i] + Len(ss[i])
            BY <2>1, <2>4, <3>1
        <3>3. PICK x \in Nat, y \in Nat, z \in Nat : x = o[i] /\ y = o[k] /\ z = Len(ss[i])
            BY ONLY <2>3, <2>5
        <3>4. x + z <= y /\ x + j = y + l /\ j <= z /\ l >= 1 /\ j \in Nat /\ l \in Nat
            <4>1. j \in 1 .. z /\ l \in Nat /\ l >= 1
                BY ONLY <2>3, <3>3, j \in 1 .. Len(ss[i]), l \in 1 .. Len(ss[k])
            <4>2. x + z <= y /\ x + j = y + l
                BY ONLY <1>2, <3>2, <3>3
            <4>3. QED
                BY ONLY <4>1, <4>2
        <3>5. QED
            BY ONLY <3>4, x \in Nat, y \in Nat, z \in Nat
    <2>7. ~(k < i)
        <3>1. SUFFICES ASSUME k < i PROVE FALSE
            OBVIOUS
        <3>2. o[k + 1] <= o[i] /\ o[k + 1] = o[k] + Len(ss[k])
            BY <2>1, <2>4, <3>1
        <3>3. PICK x \in Nat, y \in Nat, z \in Nat : x = o[k] /\ y = o[i] /\ z = Len(ss[k])
            BY ONLY <2>3, <2>5
        <3>4. x + z <= y /\ x + l = y + j /\ l <= z /\ j >= 1 /\ j \in Nat /\ l \in Nat
            <4>1. l \in 1 .. z /\ j \in Nat /\ j >= 1
                BY ONLY <2>3, <3>3, j \in 1 .. Len(ss[i]), l \in 1 .. Len(ss[k])
            <4>2. x + z <= y /\ x + l = y + j
                BY ONLY <1>2, <3>2, <3>3
            <4>3. QED
                BY ONLY <4>1, <4>2
        <3>5. QED
            BY ONLY <3>4, x \in Nat, y \in Nat, z \in Nat
    <2>8. i = k
        BY <2>6, <2>7
    <2>9. QED
        BY <1>2, <2>3, <2>5, <2>8
<1>3. QED
    BY <1>1, <1>2 DEF Placed
=============================================================================
