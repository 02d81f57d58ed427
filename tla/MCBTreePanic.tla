---------------------------- MODULE MCBTreePanic ----------------------------
(* Instances of BTreePanic for TLC. *)
EXTENDS BTreePanic, MCBTreeMap

(***************************************************************************)
(* A state up to the names of the slots.  The nodes that no map reaches    *)
(* are counted: no step reads them but for Unwind, so what it and the      *)
(* invariants ask of them is all that is shown.                            *)
(***************************************************************************)
CanonicalPanic ==
    <<CanonicalShowing({}), OccupiedButForPanics, Cardinality(Short), Occupancy,
      ParentAgrees, LeftBehindApart>>

(***************************************************************************)
(* ACTION_CONSTRAINT: FillThenDrain up to a panic, which may come with any *)
(* new key.  A map that it left with keys of no such shape loses its first *)
(* or its last one, one by one.  Beside nodes that no map reaches, those   *)
(* of a map that was dropped while panicking or emptied, a map holds the   *)
(* M + 1 first keys at most, enough to split and to merge leaves, and any  *)
(* call is made on it.                                                     *)
(***************************************************************************)
FromAnEnd(k) == (\A x \in Present : k <= x) \/ (\A x \in Present : x <= k)

Remains == live \ UNION {TreeOf(m) : m \in Maps}

FillPanicDrain ==
    \/ op # Idle
    \/ Remains # {} /\ \A m \in Maps : ToSet(ChainKeys(m)') \subseteq 1 .. M + 1
    \/ /\ Remains = {}
       /\ \/ op' = Panicking /\ OneGap(Present)
          \/ OneGap(Present) /\ FillThenDrain
          \/ /\ ~OneGap(Present)
             /\ \E k \in Present : FromAnEnd(k) /\ Present' \in {Present, Present \ {k}}
=============================================================================
