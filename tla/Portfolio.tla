------------------------------ MODULE Portfolio ------------------------------
(***************************************************************************)
(* What customers and admins are shown of circles, memberships,            *)
(* instalments and payouts.  Some fifteen endpoints compute these figures, *)
(* each with queries and loops of its own: who may join and where, what is *)
(* due next, what a circle collected, what the reports total.  Every view  *)
(* is an operator on the tables; the actions take the tables through the   *)
(* states the rest of the program leaves them in.                          *)
(*                                                                         *)
(* The actions are those of JoinFlow, Collections and CircleFees with the  *)
(* calls in progress left out: a handler is one action, and where another  *)
(* module shows that a handler may write on an outdated read, its guard    *)
(* here is what is left of it (Sign) or the race is an action of its own   *)
(* (StartJoinBoth).  The customers are eligible: startJoin, join-intent    *)
(* and home all begin with the same evaluateCustomerEligibility.           *)
(*                                                                         *)
(* As in JoinFlow, the draft of a contract is one that finds its membership.*)
(* A due date is the month it falls in.  A reservation whose 15 minutes    *)
(* have run out has the status LAPSED here, PENDING_SIGNATURE in the table.*)
(*                                                                         *)
(* A definition introduced by "Slip:" is no part of the model: it is the   *)
(* definition below it with one thing the code relies on left out, and     *)
(* shows which property depends on that thing.                             *)
(***************************************************************************)
EXTENDS Integers, Sequences, FiniteSets, FiniteSetsExt

CONSTANTS
    Customers,
    Circles,
    Duration,       \* [Circles -> Nat]: durationMonths, which is also memberCapacity
    Contribution,   \* [Circles -> Nat]: contributionAmount
    Start,          \* [Circles -> Nat]: startDate
    Limit,          \* participationLimit of the latest decision
    Nobody,         \* no customer
    Closable,       \* circles that leave UPCOMING in this instance
    MaxSigned,      \* bound on the memberships that are signed
    MaxMonth        \* bound on the clock

Seats == UNION {{c} \X (1 .. Duration[c]) : c \in Circles}

Never == MaxMonth + Max({Start[c] + Duration[c] : c \in Circles})

ASSUME PortfolioAssumption ==
    /\ Nobody \notin Customers
    /\ IsFiniteSet(Customers) /\ IsFiniteSet(Circles) /\ Circles # {}
    /\ \A c \in Circles : Duration[c] \in Nat \ {0} /\ Contribution[c] \in Nat /\ Start[c] \in Nat
    /\ Limit \in Nat /\ MaxSigned \in Nat /\ MaxMonth \in Nat \ {0}

VARIABLES
    holder,         \* [Seats -> Customers \cup {Nobody}]: customerId of the seat's row
    status,         \* [Seats -> Statuses]: its status, "NONE" when there is no row
    inst,           \* [Seats -> Seq(InstStatuses)]: its instalments by cycle, <<>> before signing
    payout,         \* [Seats -> PayoutStatuses]
    count,          \* [Circles -> Nat]: currentMembersCount
    open,           \* circles whose status is UPCOMING
    month

rows == <<holder, status>>
vars == <<rows, inst, payout, count, open, month>>

\* ENDED stands for CANCELLED and DEFAULTED, which no handler and no view tells apart.
Statuses == {"NONE", "RESERVED", "LAPSED", "ACTIVE", "ENDED"}
InstStatuses == {"PENDING", "PAID", "OVERDUE"}
PayoutStatuses == {"NONE", "SCHEDULED", "DISBURSED"}

\* The instalments of the seats S, each a seat and a cycle.
InstOfSeats(S) == UNION {{s} \X DOMAIN inst[s] : s \in S}
Instalments == InstOfSeats(Seats)

\* Every row has its parts: a signed one its instalments, its payout and its
\* place in currentMembersCount, and one that is not signed none of them.
TypeOK ==
    /\ month \in 1 .. MaxMonth /\ open \in SUBSET Circles
    /\ holder \in [Seats -> Customers \cup {Nobody}] /\ status \in [Seats -> Statuses]
    /\ inst \in [Seats -> Seq(InstStatuses)] /\ payout \in [Seats -> PayoutStatuses]
    /\ count \in [Circles -> Nat]
    /\ \A s \in Seats :
        /\ holder[s] = Nobody <=> status[s] = "NONE"
        /\ Len(inst[s]) = IF payout[s] = "NONE" THEN 0 ELSE Duration[s[1]]
        /\ status[s] = "ACTIVE" => payout[s] # "NONE"
        /\ status[s] \in {"NONE", "RESERVED", "LAPSED"} => payout[s] = "NONE"
    /\ \A c \in Circles : count[c] = Cardinality({s \in Seats : s[1] = c /\ payout[s] # "NONE"})

Init ==
    /\ holder = [s \in Seats |-> Nobody]
    /\ status = [s \in Seats |-> "NONE"]
    /\ inst = [s \in Seats |-> <<>>]
    /\ payout = [s \in Seats |-> "NONE"]
    /\ count = [c \in Circles |-> 0]
    /\ open = Circles
    /\ month = 1

-----------------------------------------------------------------------------
(* What the views have in common *)

RowsOf(k) == {s \in Seats : holder[s] = k}
RowsIn(c) == {s \in Seats : s[1] = c}
ActiveOf(k) == {s \in RowsOf(k) : status[s] = "ACTIVE"}
Live(s) == status[s] \in {"ACTIVE", "RESERVED"}
Dead(s) == status[s] = "ENDED"

InstOf(k) == InstOfSeats(RowsOf(k))
Status(x) == inst[x[1]][x[2]]
Due(x) == Start[x[1][1]] + x[2] - 1
PayoutDue(s) == Start[s[1]] + s[2] - 1
With(X, st) == {x \in X : Status(x) \in st}
SumOf(f) == MapThenSumSet(LAMBDA x : f[x], DOMAIN f)
Amounts(X) == SumOf([x \in X |-> Contribution[x[1][1]]])
Obligations(S) == SumOf([s \in S |-> Contribution[s[1]]])

Earliest(D) == Min(D \cup {Never})

\* getActiveObligationTotal
Obligation(k) == Obligations({s \in RowsOf(k) : Live(s)})

\* hasOverdueInstallments
HasOverdue(k) ==
    \E x \in InstOf(k) :
        /\ status[x[1]] \in {"ACTIVE", "RESERVED", "LAPSED"}
        /\ \/ Status(x) = "OVERDUE"
           \/ Status(x) = "PENDING" /\ Due(x) < month

-----------------------------------------------------------------------------
(* Joining: what is offered, and what startJoin then does *)

\* browseCircles
Browsable == {c \in open : count[c] < Duration[c]}

\* getHomeRecommendations: recommendedCircles
Recommended(k) ==
    {c \in Browsable : RowsIn(c) \cap RowsOf(k) = {} /\ Obligation(k) + Contribution[c] <= Limit}

\* findFirst without an order: any of the rows; Nobody's row when there is none.
AnyOf(S) == IF S = {} THEN {<<>>} ELSE S
LiveRow(e) == e # <<>> /\ Live(e)

\* checkJoinIntent, when its findFirst returned e.
IntentOutcome(k, c, e) ==
    IF HasOverdue(k) THEN "has_overdue_installment"
    ELSE IF c \notin Browsable THEN "circle_full"
    ELSE IF LiveRow(e) THEN "already_member"
    ELSE IF Obligation(k) + Contribution[c] > Limit THEN "exceeds_participation_limit"
    ELSE "ok"

IntentOutcomes(k, c) ==
    {IntentOutcome(k, c, e) : e \in AnyOf({s \in RowsIn(c) \cap RowsOf(k) : Live(s) \/ status[s] = "LAPSED"})}

\* Slip: whoever has signed holds the position, and no one else.
AvailableUnsigned(c) == {s \in RowsIn(c) : status[s] # "ACTIVE"}

\* getPositionAvailability
Available(c) == {s \in RowsIn(c) : ~Live(s)}

\* startJoin of k for the seat s, when its findFirst returned e.  A row that is
\* neither live nor expired keeps the unique index of its seat occupied (P2002).
JoinOutcome(k, s, e) ==
    IF HasOverdue(k) THEN "has_overdue_installment"
    ELSE IF s[1] \notin Browsable THEN "circle_full"
    ELSE IF LiveRow(e) THEN "already_member"
    ELSE IF Obligation(k) + Contribution[s[1]] > Limit THEN "exceeds_participation_limit"
    ELSE IF Live(s) \/ Dead(s) THEN "position_taken"
    ELSE "joined"

JoinOutcomes(k, s) == {JoinOutcome(k, s, e) : e \in AnyOf(RowsIn(s[1]) \cap RowsOf(k))}

-----------------------------------------------------------------------------
(* What a customer is shown *)

Unpaid == {"PENDING", "OVERDUE"}

\* getHomeRecommendations: dashboard.  Of each active membership the first
\* unpaid cycle counts.
Home(k) ==
    LET first(s) == {x \in With(InstOf(k), Unpaid) : x[1] = s /\ \A i \in 1 .. x[2] - 1 : inst[s][i] = "PAID"}
    IN [nextDue    |-> Earliest({Due(x) : x \in UNION {first(s) : s \in ActiveOf(k)}}),
        nextPayout |-> Earliest({PayoutDue(s) : s \in {t \in ActiveOf(k) : payout[t] = "SCHEDULED"}})]

\* getMyCirclesProgress (no code makes a membership COMPLETED): currentCycleNumber
Progress(s) == Min({Cardinality({i \in DOMAIN inst[s] : inst[s][i] = "PAID"}) + 1, Duration[s[1]]})

\* getCustomerSchedule
Schedule(k) ==
    LET unpaid == InstOf(k) \ With(InstOf(k), {"PAID"})
    IN [outstanding |-> Amounts(unpaid), nextDue |-> Earliest({Due(x) : x \in unpaid})]

\* Slip: an instalment that is late is not due any more.
PaymentHistoryPending(k) ==
    [nextDue |-> Earliest({Due(x) : x \in With(InstOf(k), {"PENDING"})}),
     entries |-> With(InstOf(k), {"PAID", "OVERDUE"})]

\* getPaymentHistory
PaymentHistory(k) ==
    [nextDue |-> Earliest({Due(x) : x \in With(InstOf(k), Unpaid)}),
     entries |-> With(InstOf(k), {"PAID", "OVERDUE"})]

\* getCustomerHistory: summary
CustomerHistory(k) ==
    [obligation |-> Obligations(ActiveOf(k)),
     overdue    |-> Cardinality(With(InstOf(k), {"OVERDUE"})),
     nextDue    |-> Earliest({Due(x) : x \in {y \in With(InstOf(k), {"PENDING"}) : y[1] \in ActiveOf(k)}}),
     nextPayout |-> Earliest({PayoutDue(s) : s \in {t \in RowsOf(k) : payout[t] = "SCHEDULED"}})]

-----------------------------------------------------------------------------
(* What an admin is shown *)

InstIn(c) == InstOfSeats(RowsIn(c))

\* Slip: a round is complete when as many have paid as the circle has places.
RoundOfCapacity(c, i) ==
    LET due == {x \in InstIn(c) : x[2] = i}
        paid == With(due, {"PAID"})
    IN [collected |-> Amounts(paid),
        status |-> IF paid # {} /\ Cardinality(paid) = Duration[c] THEN "COMPLETED"
                   ELSE IF With(due, {"OVERDUE"}) # {} THEN "OVERDUE"
                   ELSE IF paid # {} THEN "PARTIAL" ELSE "UPCOMING"]

\* getCircleById: paymentsSummary.cycles
Round(c, i) ==
    LET due == {x \in InstIn(c) : x[2] = i}
        paid == With(due, {"PAID"})
    IN [collected |-> Amounts(paid),
        status |-> IF paid # {} /\ paid = due THEN "COMPLETED"
                   ELSE IF With(due, {"OVERDUE"}) # {} THEN "OVERDUE"
                   ELSE IF paid # {} THEN "PARTIAL" ELSE "UPCOMING"]

\* getCircleById: overview.  The current cycle is 1 again when all is paid.
Overview(c) ==
    LET unpaid == With(InstIn(c), Unpaid)
        current == IF unpaid = {} THEN 1 ELSE Min({x[2] : x \in unpaid})
    IN [collected |-> Amounts(With(InstIn(c), {"PAID"})),
        current   |-> current,
        gauge     |-> Amounts({x \in With(InstIn(c), {"PAID"}) : x[2] = current})]

\* ReportsService.getCollectionsReport, over all dates
CollectionsReport ==
    [due       |-> Amounts(Instalments),
     collected |-> Amounts(With(Instalments, {"PAID"})),
     overdue   |-> Amounts(With(Instalments, {"OVERDUE"})),
     pending   |-> Amounts(Instalments \ With(Instalments, {"PAID", "OVERDUE"}))]

\* Slip: the obligation of those who may still sign is added.
CustomersReportLive ==
    [obligation |-> Obligations({s \in Seats : Live(s)}),
     overdue    |-> Cardinality(With(Instalments, {"OVERDUE"}))]

\* ReportsService.getCustomersReport
CustomersReport ==
    [obligation |-> Obligations({s \in Seats : status[s] = "ACTIVE"}),
     overdue    |-> Cardinality(With(Instalments, {"OVERDUE"}))]

\* AdminCustomersService.getCustomerById: paymentsSummary
PaymentsSummary(k) ==
    [total   |-> Cardinality(InstOf(k)),
     paid    |-> Cardinality(With(InstOf(k), {"PAID"})),
     overdue |-> Cardinality(With(InstOf(k), {"OVERDUE"})),
     pending |-> Cardinality(With(InstOf(k), {"PENDING"}))]

\* AdminPayoutsService.getPayouts without a status: what is to be paid out now.
PayoutQueue == {s \in Seats : payout[s] = "SCHEDULED" /\ PayoutDue(s) <= month}

-----------------------------------------------------------------------------
(* Membership rows *)

books == <<inst, payout, count>>

\* startJoin.  The expired row it found is deleted, and so is one in its seat.
StartJoin(k, s) ==
    \E e \in AnyOf(RowsIn(s[1]) \cap RowsOf(k)) :
        LET gone(t) == t = e /\ t # s /\ status[t] = "LAPSED" IN
        /\ JoinOutcome(k, s, e) = "joined"
        /\ holder' = [t \in Seats |-> IF t = s THEN k ELSE IF gone(t) THEN Nobody ELSE holder[t]]
        /\ status' = [t \in Seats |-> IF t = s THEN "RESERVED" ELSE IF gone(t) THEN "NONE" ELSE status[t]]
        /\ UNCHANGED <<books, open, month>>

\* Two requests of one customer, each past its checks before the other inserts.
StartJoinBoth(k, s, t) ==
    /\ s # t
    /\ \A u \in {s, t} : status[u] = "NONE" /\ RowsIn(u[1]) \cap RowsOf(k) = {}
                         /\ JoinOutcomes(k, u) = {"joined"}
    /\ holder' = [holder EXCEPT ![s] = k, ![t] = k]
    /\ status' = [status EXCEPT ![s] = "RESERVED", ![t] = "RESERVED"]
    /\ UNCHANGED <<books, open, month>>

SetStatus(s, st) ==
    /\ status' = [status EXCEPT ![s] = st]
    /\ UNCHANGED <<holder, books, open, month>>

\* reservedUntil passes.
Lapse(s) == status[s] = "RESERVED" /\ SetStatus(s, "LAPSED")

\* The expiry job, the admin's release, and markDefaulted.  The first two found
\* the row reserved; all write by id, so that any row may end, a signed one too.
EndMembership(s) == status[s] \notin {"NONE", "ENDED"} /\ SetStatus(s, "ENDED")

\* Slip: the payout of the membership need not be its only one.
SignAgain(s) ==
    /\ status[s] # "NONE"
    /\ Cardinality({t \in Seats : payout[t] # "NONE"}) < MaxSigned
    /\ status' = [status EXCEPT ![s] = "ACTIVE"]
    /\ inst' = [inst EXCEPT ![s] = [i \in 1 .. Duration[s[1]] |-> "PENDING"]]
    /\ payout' = [payout EXCEPT ![s] = "SCHEDULED"]
    /\ count' = [count EXCEPT ![s[1]] = @ + 1]
    /\ UNCHANGED <<holder, open, month>>

\* verifyContractOtpAndFinalize: status, instalments, payout and member count.
\* It found the row reserved; by now the row may have expired or been cancelled.
Sign(s) ==
    /\ status[s] # "NONE" /\ payout[s] = "NONE"
    /\ Cardinality({t \in Seats : payout[t] # "NONE"}) < MaxSigned
    /\ status' = [status EXCEPT ![s] = "ACTIVE"]
    /\ inst' = [inst EXCEPT ![s] = [i \in 1 .. Duration[s[1]] |-> "PENDING"]]
    /\ payout' = [payout EXCEPT ![s] = "SCHEDULED"]
    /\ count' = [count EXCEPT ![s[1]] = @ + 1]
    /\ UNCHANGED <<holder, open, month>>

-----------------------------------------------------------------------------
(* Instalments, payouts, circles, time *)

SetInst(s, i, st) ==
    /\ inst' = [inst EXCEPT ![s][i] = st]
    /\ UNCHANGED <<rows, payout, count, open, month>>

\* A collection that settles, in whatever order the cycles are paid.
Pay(s, i) == i \in DOMAIN inst[s] /\ inst[s][i] # "PAID" /\ SetInst(s, i, "PAID")

\* A collection without a payment method, or one whose last attempt failed.  It
\* found the instalment unpaid; paid in the meantime, it becomes OVERDUE again.
FallOverdue(s, i) == i \in DOMAIN inst[s] /\ inst[s][i] # "OVERDUE" /\ SetInst(s, i, "OVERDUE")

\* confirmPayout
ConfirmPayout(s) ==
    /\ payout[s] = "SCHEDULED"
    /\ payout' = [payout EXCEPT ![s] = "DISBURSED"]
    /\ UNCHANGED <<rows, inst, count, open, month>>

\* updateCircleStatus takes a circle out of UPCOMING.
Close(c) == c \in open \cap Closable /\ open' = open \ {c} /\ UNCHANGED <<rows, books, month>>

Tick == month < MaxMonth /\ month' = month + 1 /\ UNCHANGED <<rows, books, open>>

Next ==
    \/ \E k \in Customers, s \in Seats : StartJoin(k, s)
    \/ \E k \in Customers, s, t \in Seats : StartJoinBoth(k, s, t)
    \/ \E s \in Seats : Lapse(s) \/ EndMembership(s) \/ Sign(s) \/ ConfirmPayout(s)
    \/ \E x \in Instalments : Pay(x[1], x[2]) \/ FallOverdue(x[1], x[2])
    \/ \E c \in Circles : Close(c)
    \/ Tick

Spec == Init /\ [][Next]_vars

-----------------------------------------------------------------------------
(* Properties *)

\* Three endpoints lead a customer to a seat and startJoin decides.  A circle
\* that home recommends passes join-intent unless an instalment is late; after
\* an "ok" every position shown free can be had, but for one whose dead row is
\* never removed; and startJoin takes a customer whom join-intent refuses only
\* where it may come upon a dead row of the customer's in that circle.
OffersHold ==
    \A k \in Customers, c \in Circles :
        LET intent == IntentOutcomes(k, c) IN
        /\ c \in Recommended(k) =>
             intent = {IF HasOverdue(k) THEN "has_overdue_installment" ELSE "ok"}
        /\ intent = {"ok"} =>
             \A s \in Available(c) : JoinOutcomes(k, s) = {IF Dead(s) THEN "position_taken" ELSE "joined"}
        /\ "ok" \notin intent /\ (\E s \in RowsIn(c) : "joined" \in JoinOutcomes(k, s)) =>
             \E s \in RowsIn(c) : holder[s] = k /\ Dead(s)

\* Four screens name the instalment due next, each by a query of its own.  The
\* payment schedule and the payment history agree; home, which leaves out
\* memberships that are not active, and the activity page, which also leaves
\* out what is overdue, never name an earlier one, and name the same one where
\* nothing they leave out is unpaid.  The payout they announce is in the admin's
\* queue from its month on, and nothing unannounced is.
NextDueAgrees ==
    \A k \in Customers :
        LET unpaid == With(InstOf(k), Unpaid)
            schedule == Schedule(k)
            home == Home(k)
            history == CustomerHistory(k)
        IN
        /\ schedule.nextDue = PaymentHistory(k).nextDue
        /\ schedule.nextDue <= home.nextDue
        /\ home.nextDue <= history.nextDue
        /\ history.nextPayout <= home.nextPayout
        /\ history.nextPayout <= month <=> PayoutQueue \cap RowsOf(k) # {}
        /\ (\A x \in unpaid : x[1] \in ActiveOf(k)) => schedule.nextDue = home.nextDue
        /\ With(unpaid, {"OVERDUE"}) = {} => home.nextDue = history.nextDue

\* The rounds an admin sees of a circle make up its overview: they collected
\* what the circle collected, the current cycle is the earliest round not
\* complete (the first when all are), the gauge shows that round, and no active
\* member's own progress is behind it.
RoundsMakeOverview ==
    \A c \in Circles :
        LET incomplete == {i \in 1 .. Duration[c] : Round(c, i).status # "COMPLETED"}
            overview == Overview(c)
        IN
        /\ overview.collected = SumOf([i \in 1 .. Duration[c] |-> Round(c, i).collected])
        /\ overview.current = IF incomplete = {} THEN 1 ELSE Min(incomplete)
        /\ overview.gauge = Round(c, overview.current).collected
        /\ \A s \in RowsIn(c) : status[s] = "ACTIVE" => overview.current <= Progress(s)

\* What the reports total is what the customers' and the circles' own pages
\* say, added up; and every member's limit is checked against at least the
\* obligation the reports count.
ReportsAddUp ==
    LET collections == CollectionsReport
        customers == CustomersReport
    IN
    /\ collections.due = collections.collected + collections.overdue + collections.pending
    /\ SumOf([k \in Customers |-> Schedule(k).outstanding]) = collections.overdue + collections.pending
    /\ SumOf([c \in Circles |-> Overview(c).collected]) = collections.collected
    /\ SumOf([k \in Customers |-> CustomerHistory(k).overdue]) = customers.overdue
    /\ SumOf([k \in Customers |-> CustomerHistory(k).obligation]) = customers.obligation
    /\ \A k \in Customers :
        LET summary == PaymentsSummary(k) IN
        /\ CustomerHistory(k).obligation <= Obligation(k)
        /\ summary.total = summary.paid + summary.overdue + summary.pending
        /\ Cardinality(PaymentHistory(k).entries) = summary.paid + summary.overdue
=============================================================================
