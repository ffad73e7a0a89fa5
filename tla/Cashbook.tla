------------------------------ MODULE Cashbook ------------------------------
(***************************************************************************)
(* What collecting instalments promises to those who read the books: the   *)
(* gateway decides each transaction once; only money that was taken is     *)
(* booked, and no booking is taken back; a transaction is settled, and an  *)
(* instalment paid, only on a booking.  Each of these happens by itself,   *)
(* so the books may be read, or the program may stop, between any two.     *)
(***************************************************************************)
EXTENDS Naturals

CONSTANTS Installments, Txs

VARIABLES
    due,        \* [Txs -> Installments]: the instalment a transaction is for
    money,      \* [Txs -> {"none", "taken", "declined"}]
    entries,    \* [Txs -> Nat]: how often it is booked
    settled,    \* SUBSET Txs
    paid        \* SUBSET Installments

vars == <<due, money, entries, settled, paid>>

Init ==
    /\ due \in [Txs -> Installments]
    /\ money = [t \in Txs |-> "none"]
    /\ entries = [t \in Txs |-> 0]
    /\ settled = {} /\ paid = {}

Decide(t, outcome) ==
    /\ money[t] = "none"
    /\ money' = [money EXCEPT ![t] = outcome]
    /\ UNCHANGED <<due, entries, settled, paid>>

Book(t) ==
    /\ money[t] = "taken"
    /\ entries' = [entries EXCEPT ![t] = @ + 1]
    /\ UNCHANGED <<due, money, settled, paid>>

Settle(t) ==
    /\ entries[t] > 0
    /\ settled' = settled \cup {t}
    /\ UNCHANGED <<due, money, entries, paid>>

\* A late answer or an admin may overwrite the status.
Unsettle(t) ==
    /\ settled' = settled \ {t}
    /\ UNCHANGED <<due, money, entries, paid>>

Pay(i) ==
    /\ \E t \in Txs : due[t] = i /\ entries[t] > 0
    /\ paid' = paid \cup {i}
    /\ UNCHANGED <<due, money, entries, settled>>

\* An attempt that failed may overwrite the status another one wrote.
Unpay(i) ==
    /\ paid' = paid \ {i}
    /\ UNCHANGED <<due, money, entries, settled>>

Next ==
    \/ \E t \in Txs : Decide(t, "taken") \/ Decide(t, "declined")
                      \/ Book(t) \/ Settle(t) \/ Unsettle(t)
    \/ \E i \in Installments : Pay(i) \/ Unpay(i)

Spec == Init /\ [][Next]_vars
=============================================================================
