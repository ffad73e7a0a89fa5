--------------------------- MODULE MCCollections ---------------------------
(* Instances of Collections for TLC. *)
EXTENDS Collections, TLC

\* No definition tells transactions or request slots apart.
CollectSymmetry == Permutations(Txs) \cup Permutations(Requests)
=============================================================================
