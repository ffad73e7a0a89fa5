----------------------------- MODULE MCJoinFlow -----------------------------
(* Instances of JoinFlow and JoinFlowSale for TLC. *)
EXTENDS JoinFlowSale, TLC

CONSTANTS c1, alice, bob, s1

\* One circle of one or two positions.
OneCircle == {c1}
OneSeat == [c \in {c1} |-> 1]
TwoSeats == [c \in {c1} |-> 2]

\* Every circle costs one unit a month; a limit no obligation reaches.
UnitFee == [c \in Circles |-> 1]
Wide == [k \in Customers |-> 9]

\* An empty circle, and one with alice seeded in position 1.
NoSeed == [s \in {} |-> s]
SeedByAlice == [s \in {s1} |-> alice]
SeedInC1 == [s \in {s1} |-> c1]
SeedAt1 == [s \in {s1} |-> 1]

\* No definition tells requests, workers or (without seeds) customers apart.
JoinSymmetry == Permutations(Joins) \cup Permutations(Verifies) \cup Permutations(Customers)
SeededSymmetry == Permutations(Joins) \cup Permutations(Verifies)
=============================================================================
