------------------------------ MODULE MCSignIn ------------------------------
(* The instance of SignIn for TLC. *)
EXTENDS SignIn, TLC

\* No definition tells workers or accounts apart.
SignInSymmetry == Permutations(Requests) \cup Permutations(Verifies) \cup Permutations(Accounts)
=============================================================================
