----------------------------- MODULE PayoutPlan -----------------------------
(***************************************************************************)
(* What a circle promises its members about payouts: the percentages are   *)
(* those of one policy, chosen when the circle is created and never again; *)
(* a member is promised one payout, whose fee and net amount follow from   *)
(* its gross amount and the percentage of the member's position; what was  *)
(* promised is not changed; and whenever it is marked as paid, exactly its *)
(* amounts are entered in the ledger, in the same step.                    *)
(***************************************************************************)
EXTENDS Integers

CONSTANTS
    Policies, Circles, Members, NoPolicy,
    Amounts,            \* amounts a circle may have
    Percent,            \* [Policies -> [Positions -> Int]]
    CircleOf,           \* [Members -> Circles]
    PositionOf,         \* [Members -> Positions]
    FeeAmount(_, _),    \* of a gross amount and a percentage
    NetAmount(_, _)

VARIABLES
    table,              \* [Circles -> Policies \cup {NoPolicy}]
    promised,           \* SUBSET Members
    gross, fee, net,    \* [Members -> Int]: the amounts promised
    paid,               \* SUBSET promised
    ledger              \* [Members -> [Accounts -> Int]]: debits less credits

vars == <<table, promised, gross, fee, net, paid, ledger>>

Accounts == {"ESCROW_ACCOUNT", "PAYOUT_OUTFLOW", "FEE_REVENUE"}

Init ==
    /\ table = [c \in Circles |-> NoPolicy]
    /\ promised = {} /\ paid = {}
    /\ gross = [m \in Members |-> 0] /\ fee = [m \in Members |-> 0] /\ net = [m \in Members |-> 0]
    /\ ledger = [m \in Members |-> [a \in Accounts |-> 0]]

Choose(c, p) ==
    /\ table[c] = NoPolicy
    /\ table' = [table EXCEPT ![c] = p]
    /\ UNCHANGED <<promised, gross, fee, net, paid, ledger>>

Promise(m, g) ==
    LET p == table[CircleOf[m]] IN
    /\ p # NoPolicy
    /\ m \notin promised
    /\ promised' = promised \cup {m}
    /\ gross' = [gross EXCEPT ![m] = g]
    /\ fee' = [fee EXCEPT ![m] = FeeAmount(g, Percent[p][PositionOf[m]])]
    /\ net' = [net EXCEPT ![m] = NetAmount(g, Percent[p][PositionOf[m]])]
    /\ UNCHANGED <<table, paid, ledger>>

\* An admin may confirm a payout more than once.
Pay(m) ==
    /\ m \in promised
    /\ paid' = paid \cup {m}
    /\ ledger' = [ledger EXCEPT ![m] = [a \in Accounts |->
            @[a] + CASE a = "ESCROW_ACCOUNT" -> gross[m]
                     [] a = "PAYOUT_OUTFLOW" -> -net[m]
                     [] a = "FEE_REVENUE" -> -fee[m]]]
    /\ UNCHANGED <<table, promised, gross, fee, net>>

Next ==
    \/ \E c \in Circles, p \in Policies : Choose(c, p)
    \/ \E m \in Members : (\E g \in Amounts : Promise(m, g)) \/ Pay(m)

Spec == Init /\ [][Next]_vars
=============================================================================
