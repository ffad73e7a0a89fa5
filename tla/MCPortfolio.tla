---------------------------- MODULE MCPortfolio ----------------------------
\* Two customers, a circle of two months and one of one month.
EXTENDS Portfolio, TLC

CONSTANTS A, B

MCDuration == (A :> 2) @@ (B :> 1)
MCContribution == (A :> 2) @@ (B :> 1)
MCStart == (A :> 1) @@ (B :> 2)
Symmetry == Permutations(Customers)
=============================================================================
