---------------------------- MODULE MCBTreeRange ----------------------------
(* Instances of BTreeRange for TLC. *)
EXTENDS BTreeRange, MCBTreeMap

\* A state up to the names of the slots, the addresses' leaves named likewise
CanonicalRange ==
    LET order == CanonicalOrder
    IN  <<Canonical,
          IF range = NoRange THEN range
          ELSE [range EXCEPT !.cursor.node = NameIn(order, @),
                             !.back_cursor.node = NameIn(order, @),
                             !.bounds.start.node = NameIn(order, @),
                             !.bounds.end.node = NameIn(order, @)]>>
=============================================================================
