------------------------------ MODULE MCCards ------------------------------
(* The instance of Cards for TLC. *)
EXTENDS Cards, TLC

\* No definition tells workers or rows apart.
CardsSymmetry == Permutations(Calls) \cup Permutations(PaymentMethods)
=============================================================================
