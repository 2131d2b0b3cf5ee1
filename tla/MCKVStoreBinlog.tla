--------------------------- MODULE MCKVStoreBinlog ---------------------------
(* A small instance of KVStoreBinlog for TLC. *)
EXTENDS KVStoreBinlog, TLC

Symmetry == Permutations(Workers) \cup Permutations(Keys)
=============================================================================
