---------------------------- MODULE MCCircleFees ----------------------------
(* CircleFees with two fee policies, one circle and two members. *)
EXTENDS CircleFees

CONSTANTS p1, p2, c1, m1, m2, w1, w2

\* A fee on the first position, a cashback on the second one, in both policies
\* of half a cent for the amount of MCAmounts that is not a round one.
MCPercent  == [p \in {p1, p2} |-> [i \in 1..2 |-> IF p = p1 THEN (IF i = 1 THEN 700 ELSE -100)
                                                            ELSE (IF i = 1 THEN 900 ELSE -300)]]
MCAmounts  == {10050, 12000}
MCCircleOf == [m \in {m1, m2} |-> c1]
MCPositionOf == [m \in {m1, m2} |-> IF m = m1 THEN 1 ELSE 2]
=============================================================================
