----------------------------- MODULE MCBTreeGC -----------------------------
(* An instance of BTreeGC for TLC. *)
EXTENDS BTreeGC, MCBTreeMap
=============================================================================
