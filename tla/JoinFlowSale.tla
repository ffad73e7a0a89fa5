---------------------------- MODULE JoinFlowSale ----------------------------
(***************************************************************************)
(* JoinFlow implements SeatSale.  A seat is sold when the row that names   *)
(* it is activated (or was seeded); its holder is that row's customer.     *)
(* Cancelling, defaulting, expiring and deleting rows are stuttering steps *)
(* of the sale.                                                            *)
(***************************************************************************)
EXTENDS JoinFlow

CONSTANT NoOne

ASSUME NoOneAssumption == NoOne \notin Customers

SeatSet == UNION {{c} \X (1 .. Duration[c]) : c \in Circles}

SoldAt(s) == {m \in SoldRows : circle[m] = s[1] /\ pos[m] = s[2]}

SeatHolder ==
    [s \in SeatSet |-> IF SoldAt(s) = {} THEN NoOne
                       ELSE owner[CHOOSE m \in SoldAt(s) : TRUE]]

Sale == INSTANCE SeatSale WITH holder <- SeatHolder, members <- count

\* Every step of the join flow sells one free seat to one customer, counting
\* it, or changes neither who holds the seats nor the member counts.
SaleSpec == Sale!Spec
=============================================================================
