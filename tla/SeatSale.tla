------------------------------ MODULE SeatSale ------------------------------
(***************************************************************************)
(* What joining a circle promises: the positions of a circle are sold one  *)
(* at a time, each to one customer, for good, and the circle's member      *)
(* count goes up by one with every sale and in no other way.               *)
(***************************************************************************)
EXTENDS Integers, FiniteSets

CONSTANTS
    Customers, Circles,
    Duration,   \* [Circles -> Nat]: positions of a circle
    NoOne       \* not a customer

VARIABLES
    holder,     \* [Seats -> Customers \cup {NoOne}]
    members     \* [Circles -> Nat]

Seats == UNION {{c} \X (1 .. Duration[c]) : c \in Circles}

SeatsHeld(c) == {s \in Seats : s[1] = c /\ holder[s] # NoOne}

Init ==
    /\ holder \in [Seats -> Customers \cup {NoOne}]
    /\ members = [c \in Circles |-> Cardinality(SeatsHeld(c))]

Sell(s, k) ==
    /\ holder[s] = NoOne
    /\ holder' = [holder EXCEPT ![s] = k]
    /\ members' = [members EXCEPT ![s[1]] = @ + 1]

Next == \E s \in Seats, k \in Customers : Sell(s, k)

Spec == Init /\ [][Next]_<<holder, members>>
=============================================================================
