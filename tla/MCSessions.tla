----------------------------- MODULE MCSessions -----------------------------
(* The instance of Sessions for TLC. *)
EXTENDS Sessions, TLC

\* No definition tells workers or rows apart.
SessionsSymmetry == Permutations(Calls) \cup Permutations(Closers) \cup Permutations(Rows)
=============================================================================
