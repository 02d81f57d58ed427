----------------------------- MODULE OrderedMap -----------------------------
(***************************************************************************)
(* What the maps of one store promise their clients: each is a dictionary  *)
(* of its own over ordered keys, and every call takes effect at once.      *)
(***************************************************************************)
EXTENDS Integers

CONSTANTS Maps, Keys, Values

VARIABLE contents    \* for each map, the function from its keys to their values

-----------------------------------------------------------------------------
\* What each call makes of a dictionary
Empty == [k \in {} |-> k]

Put(d, k, v) == [x \in DOMAIN d \cup {k} |-> IF x = k THEN v ELSE d[x]]

PutIfAbsent(d, k, v) == IF k \in DOMAIN d THEN d ELSE Put(d, k, v)

Erase(d, k) == [x \in DOMAIN d \ {k} |-> d[x]]

EraseAll(d) == Empty

First(d) == CHOOSE k \in DOMAIN d : \A x \in DOMAIN d : k <= x
Last(d)  == CHOOSE k \in DOMAIN d : \A x \in DOMAIN d : x <= k

EraseFirst(d) == Erase(d, First(d))
EraseLast(d)  == Erase(d, Last(d))

-----------------------------------------------------------------------------
Effects(d) ==
    {Put(d, k, v) : k \in Keys, v \in Values}
        \cup {Erase(d, k) : k \in DOMAIN d}
        \cup {EraseAll(d)}

Init == contents = [m \in Maps |-> Empty]

Next ==
    \E m \in Maps :
        LET d == contents'[m]
        IN  d \in Effects(contents[m]) /\ contents' = [contents EXCEPT ![m] = d]

Spec == Init /\ [][Next]_contents
=============================================================================
