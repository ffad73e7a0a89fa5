----------------------------- MODULE CircleFees -----------------------------
(***************************************************************************)
(* How the fee of a payout comes about: FeePoliciesService, the circles    *)
(* that take a snapshot of the active policy, the payout that is computed  *)
(* from it when a member signs, and AdminPayoutsService.confirmPayout,     *)
(* which posts it to the ledger.                                           *)
(*                                                                         *)
(* The policies are those of one duration: the code never looks at two     *)
(* durations together.  A call is what a request has read and not yet      *)
(* written.  Statements outside a transaction commit one by one.  Of the   *)
(* transactions, that of activate reads between its writes and is modelled *)
(* statement by statement (READ COMMITTED; a row it has updated is locked  *)
(* until it ends); those of signing and confirming only write.             *)
(*                                                                         *)
(* Amounts are in cents, percentages in hundredths of a percent.           *)
(*                                                                         *)
(* A definition introduced by "Slip:" is no part of the model: it is the   *)
(* definition below it with one thing the code relies on left out, and     *)
(* shows which property depends on that thing.                             *)
(***************************************************************************)
EXTENDS Integers, FiniteSets

CONSTANTS
    Policies,       \* fee policies of one duration
    Positions,      \* payout positions, the keys of positionFees
    Percent,        \* [Policies -> [Positions -> Int]]: positionFees
    Circles,        \* circles of that duration
    Amounts,        \* amounts a circle may have
    Members,        \* memberships
    CircleOf,       \* [Members -> Circles]
    PositionOf,     \* [Members -> Positions]
    Calls,          \* slots for requests in progress
    NoPolicy

ASSUME CircleFeesAssumption ==
    /\ NoPolicy \notin Policies
    /\ Percent \in [Policies -> [Positions -> Int]]
    /\ Amounts \subseteq Nat
    /\ CircleOf \in [Members -> Circles] /\ PositionOf \in [Members -> Positions]

VARIABLES
    policy,         \* [Policies -> PolicyStatuses]: status, "NONE" before createDraft
    circle,         \* [Circles -> CircleStatuses]: status, "NONE" before createCircle
    amount,         \* [Circles -> Nat]: amount
    snapshot,       \* [Circles -> Policies \cup {NoPolicy}]: whose positionFees it took
    reserved,       \* memberships that exist
    payout,         \* [Members -> PayoutStatuses]: status, "NONE" before signing
    gross,          \* [Members -> Nat]: grossAmount
    fee, net,       \* [Members -> Int]: feeAmount, netAmount
    ledger,         \* [Members -> [Accounts -> Int]]: debits less credits of the
                    \*   entries of the member's payout (payoutId)
    posted,         \* [Members -> Nat]: how often those entries were posted
    call            \* [Calls -> CallStates]

payouts == <<payout, gross, fee, net>>
books   == <<ledger, posted>>
circles == <<circle, amount, snapshot>>
vars    == <<policy, circles, reserved, payouts, books, call>>

PolicyStatuses == {"NONE", "DRAFT", "ACTIVE", "RETIRED"}
CircleStatuses == {"NONE", "DRAFT", "UPCOMING", "IN_PROGRESS", "COMPLETED", "CANCELLED"}
PayoutStatuses == {"NONE", "SCHEDULED", "DISBURSED"}
Accounts == {"ESCROW_ACCOUNT", "PAYOUT_OUTFLOW", "FEE_REVENUE"}

\* VALID_TRANSITIONS
Transitions(s) ==
    CASE s = "DRAFT" -> {"UPCOMING", "CANCELLED"}
      [] s = "UPCOMING" -> {"IN_PROGRESS", "CANCELLED"}
      [] s = "IN_PROGRESS" -> {"COMPLETED", "CANCELLED"}
      [] OTHER -> {}

Idle == [step |-> "idle"]

CallStates ==
    {Idle}
    \cup [step : {"find"}, policy : Policies]
    \cup [step : {"retire"}, policy : Policies, old : Policies]
    \cup [step : {"activate"}, policy : Policies, old : Policies \cup {NoPolicy}]
    \cup [step : {"create"}, circle : Circles, policy : Policies]
    \cup [step : {"status"}, circle : Circles, to : CircleStatuses]
    \cup [step : {"override"}, circle : Circles]
    \cup [step : {"reserve"}, member : Members]
    \cup [step : {"sign"}, member : Members, amount : Nat]
    \cup [step : {"confirm"}, member : Members]

\* Every variable has its type.
TypeOK ==
    /\ policy \in [Policies -> PolicyStatuses]
    /\ circle \in [Circles -> CircleStatuses]
    /\ amount \in [Circles -> Nat]
    /\ snapshot \in [Circles -> Policies \cup {NoPolicy}]
    /\ reserved \in SUBSET Members
    /\ payout \in [Members -> PayoutStatuses]
    /\ gross \in [Members -> Nat] /\ fee \in [Members -> Int] /\ net \in [Members -> Int]
    /\ ledger \in [Members -> [Accounts -> Int]]
    /\ posted \in [Members -> Nat]
    /\ call \in [Calls -> CallStates]

Init ==
    /\ policy = [p \in Policies |-> "NONE"]
    /\ circle = [c \in Circles |-> "NONE"]
    /\ amount = [c \in Circles |-> 0]
    /\ snapshot = [c \in Circles |-> NoPolicy]
    /\ reserved = {}
    /\ payout = [m \in Members |-> "NONE"]
    /\ gross = [m \in Members |-> 0] /\ fee = [m \in Members |-> 0] /\ net = [m \in Members |-> 0]
    /\ ledger = [m \in Members |-> [a \in Accounts |-> 0]]
    /\ posted = [m \in Members |-> 0]
    /\ call = [w \in Calls |-> Idle]

-----------------------------------------------------------------------------
(* calculateNetPayout, and the DECIMAL(12, 2) columns its results go into.  *)

\* PostgreSQL rounds a numeric to its column's scale half away from zero.
RoundDiv(x, d) == IF x >= 0 THEN (2 * x + d) \div (2 * d) ELSE -((d - 2 * x) \div (2 * d))

\* gross * (percentage / 100)
FeeAmount(g, percent) == RoundDiv(g * percent, 10000)

\* Slip: the net amount is cut off, not rounded.
NetAmountCut(g, percent) == (g * 10000 - g * percent) \div 10000

\* gross - fee, computed from the exact fee and rounded for itself.
NetAmount(g, percent) == RoundDiv(g * 10000 - g * percent, 10000)

Active == {p \in Policies : policy[p] = "ACTIVE"}

\* Slip: the rate is that of a policy now active, not the snapshot's.
CurrentRate(m) == Percent[IF Active = {} THEN snapshot[CircleOf[m]]
                          ELSE CHOOSE p \in Active : TRUE][PositionOf[m]]

\* feePolicySnapshot[payoutPosition]
Rate(m) == Percent[snapshot[CircleOf[m]]][PositionOf[m]]

-----------------------------------------------------------------------------
(* Calls *)

Begin(w, state) == call[w] = Idle /\ call' = [call EXCEPT ![w] = state]
Goto(w, state) == call' = [call EXCEPT ![w] = state]
Return(w) == Goto(w, Idle)

-----------------------------------------------------------------------------
(* Fee policies *)

CreateDraft(p) ==
    /\ policy[p] = "NONE"
    /\ policy' = [policy EXCEPT ![p] = "DRAFT"]
    /\ UNCHANGED <<circles, reserved, payouts, books, call>>

\* activate: the checks before its transaction.
ActivateRead(w, p) ==
    /\ policy[p] = "DRAFT"
    /\ Begin(w, [step |-> "find", policy |-> p])
    /\ UNCHANGED <<policy, circles, reserved, payouts, books>>

\* Slip: what was found is retired without looking whether anything was.
ActivateFindUnchecked(w) ==
    /\ call[w].step = "find"
    /\ Goto(w, [step |-> "retire", policy |-> call[w].policy,
                old |-> IF Active = {} THEN NoPolicy ELSE CHOOSE q \in Active : TRUE])
    /\ UNCHANGED <<policy, circles, reserved, payouts, books>>

\* findFirst: any one of the active policies.
ActivateFind(w) ==
    /\ call[w].step = "find"
    /\ \/ /\ Active = {}
          /\ Goto(w, [step |-> "activate", policy |-> call[w].policy, old |-> NoPolicy])
       \/ \E q \in Active :
          Goto(w, [step |-> "retire", policy |-> call[w].policy, old |-> q])
    /\ UNCHANGED <<policy, circles, reserved, payouts, books>>

\* Another open transaction has retired p.
RetiredByOther(w, p) == \E v \in Calls \ {w} : call[v].step = "activate" /\ call[v].old = p

\* Slip: retiring the old policy commits by itself.
ActivateRetireAlone(w) ==
    /\ call[w].step = "retire"
    /\ policy' = [policy EXCEPT ![call[w].old] = "RETIRED"]
    /\ Goto(w, [step |-> "activate", policy |-> call[w].policy, old |-> call[w].old])
    /\ UNCHANGED <<circles, reserved, payouts, books>>

\* The old policy is retired, for this transaction only, and its row locked.
ActivateRetire(w) ==
    /\ call[w].step = "retire"
    /\ ~RetiredByOther(w, call[w].old)
    /\ Goto(w, [step |-> "activate", policy |-> call[w].policy, old |-> call[w].old])
    /\ UNCHANGED <<policy, circles, reserved, payouts, books>>

\* The new one is activated by id alone, and the transaction commits.
ActivateWrite(w) ==
    /\ call[w].step = "activate"
    /\ ~RetiredByOther(w, call[w].policy)
    /\ policy' = [p \in Policies |-> IF p = call[w].policy THEN "ACTIVE"
                                     ELSE IF p = call[w].old THEN "RETIRED" ELSE policy[p]]
    /\ Return(w)
    /\ UNCHANGED <<circles, reserved, payouts, books>>

-----------------------------------------------------------------------------
(* Circles *)

\* Slip: a policy of any status will do.
CreateFindAny(w, c) ==
    /\ circle[c] = "NONE"
    /\ \E p \in Policies :
        /\ policy[p] # "NONE"
        /\ Begin(w, [step |-> "create", circle |-> c, policy |-> p])
    /\ UNCHANGED <<policy, circles, reserved, payouts, books>>

\* createCircle: the newest active policy.  Which one that is, where there are
\* two, depends on the clocks of the servers that activated them.
CreateFind(w, c) ==
    /\ circle[c] = "NONE"
    /\ \A v \in Calls : call[v].step = "create" => call[v].circle # c
    /\ \E p \in Active : Begin(w, [step |-> "create", circle |-> c, policy |-> p])
    /\ UNCHANGED <<policy, circles, reserved, payouts, books>>

CreateCircle(w) ==
    LET c == call[w].circle IN
    /\ call[w].step = "create"
    /\ circle' = [circle EXCEPT ![c] = "DRAFT"]
    /\ \E a \in Amounts : amount' = [amount EXCEPT ![c] = a]
    /\ snapshot' = [snapshot EXCEPT ![c] = call[w].policy]
    /\ Return(w)
    /\ UNCHANGED <<policy, reserved, payouts, books>>

\* updateCircleStatus: the check, and later the write by id.
StatusRead(w, c) ==
    /\ \E s \in Transitions(circle[c]) :
        Begin(w, [step |-> "status", circle |-> c, to |-> s])
    /\ UNCHANGED <<policy, circles, reserved, payouts, books>>

StatusWrite(w) ==
    /\ call[w].step = "status"
    /\ circle' = [circle EXCEPT ![call[w].circle] = call[w].to]
    /\ Return(w)
    /\ UNCHANGED <<policy, amount, snapshot, reserved, payouts, books>>

\* updateCircleProperties, allowed in every status where a reason is given.
OverrideRead(w, c) ==
    /\ circle[c] # "NONE"
    /\ Begin(w, [step |-> "override", circle |-> c])
    /\ UNCHANGED <<policy, circles, reserved, payouts, books>>

OverrideWrite(w) ==
    /\ call[w].step = "override"
    /\ \E a \in Amounts : amount' = [amount EXCEPT ![call[w].circle] = a]
    /\ Return(w)
    /\ UNCHANGED <<policy, circle, snapshot, reserved, payouts, books>>

-----------------------------------------------------------------------------
(* Members: startJoin and verifyContractOtpAndFinalize, as far as payouts   *)
(* go.  That a reservation ends without a signature (JoinFlow) is left out. *)

\* Slip: the circle's status is not looked at.
ReserveReadAnyStatus(w, m) ==
    /\ m \notin reserved
    /\ circle[CircleOf[m]] # "NONE"
    /\ Begin(w, [step |-> "reserve", member |-> m])
    /\ UNCHANGED <<policy, circles, reserved, payouts, books>>

ReserveRead(w, m) ==
    /\ m \notin reserved
    /\ circle[CircleOf[m]] = "UPCOMING"
    /\ Begin(w, [step |-> "reserve", member |-> m])
    /\ UNCHANGED <<policy, circles, reserved, payouts, books>>

Reserve(w) ==
    /\ call[w].step = "reserve"
    /\ reserved' = reserved \cup {call[w].member}
    /\ Return(w)
    /\ UNCHANGED <<policy, circles, payouts, books>>

\* The membership is read with its circle; the circle's status is not looked at.
SignRead(w, m) ==
    /\ m \in reserved
    /\ payout[m] = "NONE"
    /\ Begin(w, [step |-> "sign", member |-> m, amount |-> amount[CircleOf[m]]])
    /\ UNCHANGED <<policy, circles, reserved, payouts, books>>

\* A membership has one payout: the second of two signatures fails.
Sign(w) ==
    LET m == call[w].member
        g == call[w].amount IN
    /\ call[w].step = "sign"
    /\ payout[m] = "NONE"
    /\ payout' = [payout EXCEPT ![m] = "SCHEDULED"]
    /\ gross' = [gross EXCEPT ![m] = g]
    /\ fee' = [fee EXCEPT ![m] = FeeAmount(g, Rate(m))]
    /\ net' = [net EXCEPT ![m] = NetAmount(g, Rate(m))]
    /\ Return(w)
    /\ UNCHANGED <<policy, circles, reserved, books>>

-----------------------------------------------------------------------------
(* confirmPayout *)

ConfirmRead(w, m) ==
    /\ payout[m] = "SCHEDULED"
    /\ Begin(w, [step |-> "confirm", member |-> m])
    /\ UNCHANGED <<policy, circles, reserved, payouts, books>>

\* The entries: escrow is debited with the gross amount, the outflow credited
\* with the net amount and the revenue with the fee.
Post(m) ==
    /\ ledger' = [ledger EXCEPT ![m] =
                    [a \in Accounts |-> @[a] + CASE a = "ESCROW_ACCOUNT" -> gross[m]
                                               [] a = "PAYOUT_OUTFLOW" -> -net[m]
                                               [] a = "FEE_REVENUE" -> -fee[m]]]
    /\ posted' = [posted EXCEPT ![m] = @ + 1]

\* Slip: the entries are posted, the status is left for later.
ConfirmPostsOnly(w) ==
    LET m == call[w].member IN
    /\ call[w].step = "confirm"
    /\ Post(m)
    /\ Return(w)
    /\ UNCHANGED <<policy, circles, reserved, payouts>>

\* The transaction: DISBURSED by id alone, and the entries of what was read,
\* which nothing changes once it is written.
Confirm(w) ==
    LET m == call[w].member IN
    /\ call[w].step = "confirm"
    /\ payout' = [payout EXCEPT ![m] = "DISBURSED"]
    /\ Post(m)
    /\ Return(w)
    /\ UNCHANGED <<policy, circles, reserved, gross, fee, net>>

-----------------------------------------------------------------------------

\* A call dies or is refused: an open transaction leaves nothing behind.
Fail(w) ==
    /\ call[w] # Idle
    /\ Return(w)
    /\ UNCHANGED <<policy, circles, reserved, payouts, books>>

Continue(w) ==
    \/ ActivateFind(w) \/ ActivateRetire(w) \/ ActivateWrite(w)
    \/ CreateCircle(w) \/ StatusWrite(w) \/ OverrideWrite(w)
    \/ Reserve(w) \/ Sign(w) \/ Confirm(w) \/ Fail(w)

Next ==
    \/ \E p \in Policies : CreateDraft(p)
    \/ \E w \in Calls :
        \/ Continue(w)
        \/ \E p \in Policies : ActivateRead(w, p)
        \/ \E c \in Circles : CreateFind(w, c) \/ StatusRead(w, c) \/ OverrideRead(w, c)
        \/ \E m \in Members : ReserveRead(w, m) \/ SignRead(w, m) \/ ConfirmRead(w, m)

Spec == Init /\ [][Next]_vars

-----------------------------------------------------------------------------
(* Properties *)

\* Once a duration has had an active policy it always has one, whatever
\* activations interleave or fail: createCircle is never again refused for
\* want of a policy.
PolicyRemains ==
    (\E p \in Policies : policy[p] \in {"ACTIVE", "RETIRED"}) => Active # {}

\* The snapshot of a circle is that of a policy that was activated, never a
\* draft, although the policy may be retired while the circle is created.
SnapshotWasActive ==
    \A c \in Circles : circle[c] # "NONE" =>
        snapshot[c] \in Policies /\ policy[snapshot[c]] \in {"ACTIVE", "RETIRED"}

\* A member only ever belongs to a circle that has left DRAFT for good: stale
\* status writes may reopen a closed circle, but not turn it into a draft,
\* whose amount may be changed without a reason.
MembersAfterDraft ==
    \A m \in reserved : circle[CircleOf[m]] \notin {"NONE", "DRAFT"}

\* The fee and the net amount of a payout are those of its own gross amount
\* under the rate its circle was created with, whatever became of the policy
\* and of the circle's amount in the meantime.
FeesAsCreated ==
    \A m \in Members : payout[m] # "NONE" =>
        /\ fee[m] = FeeAmount(gross[m], Rate(m))
        /\ net[m] = NetAmount(gross[m], Rate(m))

\* A payout is marked as disbursed if and only if the ledger has its entries.
DisbursedIsPosted ==
    \A m \in Members : payout[m] = "DISBURSED" <=> posted[m] > 0

\* Payouts that a signature has scheduled, and those marked as disbursed.
Promised == {m \in Members : payout[m] # "NONE"}
Disbursed == {m \in Members : payout[m] = "DISBURSED"}

Plan == INSTANCE PayoutPlan WITH table <- snapshot, promised <- Promised, paid <- Disbursed

\* Every statement takes one step of PayoutPlan or none, whichever policies are
\* activated, circles edited, signatures repeated and payouts confirmed
\* meanwhile: the policy of a circle and the amounts of a payout are decided
\* once, and a payout is marked in the step that enters its amounts.
PlanSpec == Plan!Spec

Balance(m) == ledger[m]["ESCROW_ACCOUNT"] + ledger[m]["PAYOUT_OUTFLOW"] + ledger[m]["FEE_REVENUE"]

\* The fee and the net amount are rounded each for itself, so that the credits
\* of a payout may exceed its debit, by one cent for each time it is posted
\* and by no more; they never fall short of it.
EntriesBalanceToACent == \A m \in Members : -posted[m] <= Balance(m) /\ Balance(m) <= 0

-----------------------------------------------------------------------------
(* The inductive invariant: what calls in progress have read still holds     *)

Activated == {p \in Policies : policy[p] \in {"ACTIVE", "RETIRED"}}

PolicyCalls ==
    \A w \in Calls :
        /\ call[w].step = "create" => call[w].policy \in Activated
        /\ call[w].step = "retire" => call[w].old \in Activated
        /\ call[w].step = "activate" => call[w].old \in Activated \cup {NoPolicy}

\* A circle under creation is not visible yet, and created by one call; one that
\* changes its status or is joined is no longer to become a draft.
CircleCalls ==
    /\ \A w \in Calls :
        /\ call[w].step = "create" => circle[call[w].circle] = "NONE"
        /\ call[w].step = "status" => /\ circle[call[w].circle] # "NONE"
                                      /\ call[w].to \notin {"NONE", "DRAFT"}
        /\ call[w].step = "reserve" => circle[CircleOf[call[w].member]] \notin {"NONE", "DRAFT"}
    /\ \A v, w \in Calls :
        call[v].step = "create" /\ call[w].step = "create"
            /\ call[v].circle = call[w].circle => v = w

MemberCalls ==
    /\ \A w \in Calls :
        /\ call[w].step = "sign" => call[w].member \in reserved
        /\ call[w].step = "confirm" => payout[call[w].member] # "NONE"
    /\ \A m \in Members : payout[m] # "NONE" => m \in reserved

IInv ==
    /\ TypeOK
    /\ PolicyCalls /\ CircleCalls /\ MemberCalls
    /\ PolicyRemains /\ SnapshotWasActive /\ MembersAfterDraft
    /\ FeesAsCreated /\ DisbursedIsPosted /\ EntriesBalanceToACent
=============================================================================
