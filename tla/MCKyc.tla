------------------------------- MODULE MCKyc -------------------------------
(* The instance of Kyc for TLC: one customer with two documents. *)
EXTENDS Kyc

CONSTANTS q1, d1, d2

OfQ1 == [d \in Docs |-> q1]
First == [q \in {q1} |-> d1]
Second == [q \in {q1} |-> d2]
=============================================================================
