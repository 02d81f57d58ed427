---------------------------- MODULE MCBTreeIter ----------------------------
(* Instances of BTreeIter and BTreeIntoIter for TLC. *)
EXTENDS BTreeIntoIter, MCBTreeMap

(***************************************************************************)
(* A state up to the names of the slots, the cursors' leaves named         *)
(* likewise.  The nodes of an IntoIter differ in their level or their      *)
(* keys, so these name them; a node that nothing reaches is counted, no    *)
(* step reads it.                                                          *)
(***************************************************************************)
CanonicalIter ==
    LET order == CanonicalOrder
        Name(s) == IF Owning /\ s \in iter.nodes THEN <<level[s], keys[s]>>
                   ELSE NameIn(order, s)
    IN  CASE iter = NoIter -> <<CanonicalShowing({}), iter>>
          [] Borrowing -> <<CanonicalShowing({}),
                            [iter EXCEPT !.cursor.node = Name(@),
                                         !.back_cursor.node = Name(@)]>>
          [] Owning -> <<CanonicalShowing(iter.nodes),
                         [iter EXCEPT !.cursor.node = Name(@),
                                      !.back_cursor.node = Name(@),
                                      !.nodes = {Name(s) : s \in @}]>>

\* CONSTRAINT: what an IntoIter left behind may be one node and no more; with
\* larger remains the slots that are left are too few for a tree.
FewLeftBehind ==
    iter = NoIter /\ op = Idle => Cardinality(live \ UNION {TreeOf(m) : m \in Maps}) <= 1
=============================================================================
