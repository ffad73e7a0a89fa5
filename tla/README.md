# Jameya backend: a verification project

Jameya runs rotating savings circles. Customers join a circle at a payout
position, sign a contract with a one-time code, pay monthly instalments by card
and receive the pot once. The backend is a NestJS server over one PostgreSQL
database (Prisma); its concurrency is that of HTTP requests, cron jobs and
gateway callbacks, whose statements interleave in the database. This directory
holds TLA+ models of that behaviour, TLC runs on small instances, and TLAPS
proofs for every instance. Paths below are relative to the repository.

## 1. Inventory

| Component | Code | State it keeps | Operations |
|---|---|---|---|
| Joining a circle | `src/modules/circles/customer-circles.service.ts`, `memberships.service.ts`, `contracts.service.ts` | `memberships`, `contracts`, `installments`, `payouts`, `circles.currentMembersCount` | startJoin, acceptContract, verifyContractOtpAndFinalize |
| Reservation expiry | `src/jobs/reservation-expiry.job.ts` | `memberships` | handleExpiredReservations, every minute |
| Admin memberships | `src/modules/admin/memberships` | `memberships` | releaseMembership, markDefaulted |
| Circle administration | `src/modules/circles/circles.service.ts` | `circles` | createCircle, updateCircleStatus, updateCircleProperties |
| Fee policies, fee calculation | `src/modules/circles/fee-policies`, `fee-calculator.service.ts` | `fee_policies`, snapshots in `circles` | createDraft, activate, calculateNetPayout |
| Instalment collection | `src/modules/installments`, `src/jobs/installment-collection.job.ts` | `installments`, `transactions`, `payment_proofs` | payInstallment, processGatewayCollection, submitManualProof, hourly collection, half-hourly reconciliation, nightly overdue flagging |
| Ledger | `src/modules/payments/ledger.service.ts` | `ledger_entries`, and the statuses of transaction and instalment | postInstallmentCollection |
| Gateway webhook | `src/modules/payments/payments-webhook.controller.ts` | as the ledger | handleGatewayWebhook |
| Admin payments | `src/modules/admin/payments` | `payment_proofs`, `transactions` | reviewProof, flagProof, holdTransaction |
| Payouts | `src/modules/admin/payouts` | `payouts`, `ledger_entries` | confirmPayout |
| Payment methods | `src/modules/payments/payment-methods.service.ts` | `payment_methods` | verifyAndAdd, setDefault, delete |
| Customer authentication | `src/modules/auth` | `otp_requests`, `refresh_tokens` | requestOtp, verifyOtp, refreshTokens, logout, clean-up jobs |
| Admin authentication, accounts | `src/modules/admin/auth`, `admin-users`, `profile` | `admins`, refresh tokens | login, refresh, createAdmin, updateStatus, updateRole, changePassword |
| Identity and eligibility | `src/modules/customers`, `src/modules/admin/kyc`, `src/modules/admin/customers` | profiles, documents, decisions | createOrUpdateProfile, uploadDocument, submitKycForReview, reviewDocument, createEligibilityDecision |
| Notifications, audit, storage, reports, dashboard | `src/modules/notifications`, `admin/audit`, `storage`, `admin/reports`, `admin/dashboard` | their own tables | appends, reads, I/O |

How they interact. Nothing but the database is shared. Joining reads the
eligibility decision, the payment method and the overdue instalments, and
writes the rows the collection and payout code works on later. The expiry job
and the admin decisions change membership rows while customers sign them.
Collection is started by the customer and by the hourly job; its outcome is
booked by the caller, by the gateway's callback or by reconciliation, whichever
gets there.

What is hard. Almost every handler reads, decides in JavaScript, and then
updates "where id" without looking again. Transactions, where there are any,
run READ COMMITTED. So the system's correctness rests on few things: a unique
index on (circle, position), a unique payout per membership, foreign keys that
refuse deletion, and the order in which statements are made. Which of them
carries which property is what the models work out.

What makes each component correct:

- Joining: a position is sold once; the member count is the number of members
  and within capacity; a signed membership is never deleted; a reservation is
  kept for its 15 minutes and settled in the end.
- Collection: the ledger shows exactly charges that were made; PAID and SETTLED
  are backed by it; a failed instalment is found again; late answers are booked.
- Payouts: a disbursed payout is in the ledger, and its three entries balance.
- Fee policies and circles: an active policy per duration; a circle keeps the
  fees it was created with; statuses follow the table of transitions.
- Sign-in: wrong guesses at a code are bounded, an address is not flooded with
  codes, an address has one account.
- Sessions: who has been locked out does not come back by a refresh; the cleanup
  takes no row from under a call.
- Identity: a customer shown as under review has a complete file; only a decision
  takes eligibility away; the approval of the last document is not lost between
  two reviews.
- Payment methods: one default; a card in use is not removed.
- What is shown: a position offered can be had; all screens name the same
  instalment as due next; totals are the sums of their parts.

Not all of this is true of the code. Section 5 says what is refuted by a run
and what weaker property holds instead.

The hazards, at their lines, are listed in `PROJECT.json`.

## 2. Modules

    SeatSale            abstract: seats of circles sold one by one, for good
       ^ refines
    JoinFlowSale        the refinement mapping
       | extends
    JoinFlow            startJoin, signing, expiry job, admins, circle status
       ^ JoinFlow_proofs (both of them)            MCJoinFlow (TLC instances)

    Cashbook            abstract: money decided, booked, settled, paid, in this order
       ^ refines
    Collections         collection, ledger posting, webhook, reconciliation, admins
       ^ Collections_proofs                        MCCollections (TLC instances)

    PayoutPlan          abstract: a policy and amounts decided once, entered as paid
       ^ refines
    CircleFees          fee policies, circle creation and status, payouts, ledger
       ^ CircleFees_proofs                         MCCircleFees (TLC instance)

    OneTimeCodes        abstract: codes spent once and for all, accounts they open
       ^ refines
    SignIn              one-time codes, the accounts they open, the profile's number
       ^ SignIn_proofs                             MCSignIn (TLC instances)

    TokenAccess         abstract: who is in, having come in by a sign-in of their own
       ^ refines
    Sessions            refresh tokens of customers and admins, and what ends them
       ^ Sessions_proofs                           MCSessions (TLC instance)

    Kyc                 profile, documents, submission, review, decisions, eligibility
       ^ Kyc_proofs                                MCKyc (TLC instance)

    Cards               payment methods and the default
       ^ Cards_proofs                              MCCards (TLC instance)

    Portfolio           what customers and admins are shown of the tables that
                        JoinFlow, Collections and CircleFees write
       ^ Portfolio_proofs                          MCPortfolio (TLC instance)

The modules meet in the tables. A code that passes in SignIn is `SignIn` in
Sessions and lets `VerifyRead` of JoinFlow go on. `Eligible` of Kyc is the check
`StartJoin` of JoinFlow opens with. The card `JoinLink` takes in Cards is the one
a collection of Collections charges. Portfolio composes the rows of all three
core modules, a handler at a time.

A definition under a comment "Slip:" is not part of a model. It is the
definition below it with one thing left out that the code relies on, and it
says by example which property depends on that thing.

### JoinFlow

One statement of startJoin is one action: `StartJoin` (eligibility, payment
method, `now`), `CheckCircle`, `ReadExisting`, `DropOwn`, `CheckLimit`,
`ReadPosition`, `DropHeld`, `Create`, then `CommitJoin` or `DraftMissing`. An
exception anywhere is `Rollback`; `Abort` is what can end an open transaction
from outside (Prisma's five seconds, a deadlock, a lost connection). The
transaction's writes stay in `dels` and `pc` until it commits, so that others
do not see them but wait for them: `Visible`, `LockedByOther` and
`SeatContended` are READ COMMITTED as far as these statements can tell.
verifyContractOtpAndFinalize is `VerifyRead` and, later, `Activate` or
`VerifyFail`. `Activate` is one action: it opens with an insert into
`contracts` and an update of the row, holds both until it commits, reads
nothing others could change in between, and the unique `payouts.membership_id`
lets only one of two activations commit. A signature is keyed by the customer's
number, not by the membership, so the code check may pass or fail here; SignIn
has the check itself.

The expiry job is `JobScan` and one `JobCancel` per row. Runs overlap in the
code (nothing stops the next minute's run), which is why `batch` is one set that
any run's scan adds to. Admin handlers are a read and a write, each `where id`.
`UpdateCircleStatus` lets a circle enter and leave UPCOMING at any time: the
service writes a transition it checked on an earlier read, so that even the
reopening of a circle is possible.

`draftOnTx`. generateDraft looks the new membership up with `this.prisma`, on a
connection that cannot see the open transaction, and throws: as written,
startJoin never commits. The tests replace generateDraft by a mock. The models
keep both: `draftOnTx = FALSE` is the code as it stands, for which
`PoolReservesNothing` is proved and `find_draft` shows the refusal; `TRUE` is
the code as tested, where the rest of the flow is reachable. The theorems hold
for both.

Left out of JoinFlow: updateCircleProperties (an administrative exception that
may change a circle's duration after positions were given out), the wording of
refusals, the browsing endpoints.

### Collections

Nothing here opens a transaction. Each statement commits by itself and is one
action of a call: a slot of `Requests` serves a customer, the hourly job, a
callback or an admin, the slot `Job` serves reconciliation. A row `t` of
`transactions` is named before it is inserted. `Collect` starts
processGatewayCollection at its read and check; `CreateTx`, `Charge`,
`MarkPending`, `MarkFailed`, `ScheduleRetry`, `MarkOverdue` follow the code;
`PostRead`, `PostLedger`, `PostSettle`, `PostPaid` are
postInstallmentCollection. `Webhook` and `Reconcile` read and check; what they
do next is a posting or `RecordFailed`. `SubmitRead`, `SubmitProof`,
`ReviewProof`, `ReviewTx` and `Hold` are the manual channel and the admins.
`Fail` and `ChargeLost` are a call that dies between two statements, the second
after the gateway has acted.

The gateway is external. It takes the money or declines once per transaction,
answers at once or says it does not know, calls back truthfully any number of
times, and tells the truth when asked again. A provider reference is optional in
`ChargeResult`, and reconciliation skips rows without one: `StoreRef` lets an
answer carry one or not, as `References` permits (the mock always gives one to a
late answer, `mock-card-gateway.provider.ts:80`). The mock in the repository answers
within this. Due dates are left out: the job may take any unpaid instalment.
The list the hourly job works on may be stale, but processGatewayCollection
reads the instalment again and only that check counts.

Cashbook is what this promises to those who read the books, in six steps:
`Decide`, `Book`, `Settle`, `Unsettle`, `Pay`, `Unpay`. The mapping (`Books`)
takes the ledger entries and the gateway's decision as they are, and the sets of
card transactions with status SETTLED and of instalments with status PAID from
the status columns. `Unsettle` and `Unpay` are there because the code does that:
a callback, a hold or a late failure overwrites a status without looking. What
has no counterpart in Cashbook is the removal of an entry, a second decision,
and a status that runs ahead of the ledger.

### CircleFees

Where the fee of a payout comes from and where it ends. The policies are those
of one duration. A call (a slot of `Calls`) is a record of what a request has
read and not yet written: `ActivateRead`, `ActivateFind`, `ActivateRetire` and
`ActivateWrite` are FeePoliciesService.activate, whose transaction reads between
its writes and is therefore modelled statement by statement, its uncommitted
retirement visible to nobody and its row locked (`RetiredByOther`);
`CreateFind`/`CreateCircle`, `StatusRead`/`StatusWrite`,
`OverrideRead`/`OverrideWrite`, `ReserveRead`/`Reserve`, `SignRead`/`Sign`,
`ConfirmRead`/`Confirm` are a read with its checks and a later write by id.
`Fail` is a call that is refused or dies. Where two policies are active,
createCircle takes the one with the latest `effectiveFrom`, set by the clocks of
the servers; the model lets it take any.

`FeeAmount` and `NetAmount` are calculateNetPayout together with the
DECIMAL(12, 2) columns the results are stored in: amounts are cents,
percentages hundredths of a percent, and PostgreSQL rounds half away from zero
(`RoundDiv`). Entries are kept per payout (`payoutId`), as debits less credits
of each account. Left out: the dates and the duration an override may also
change (neither touches the snapshot), positions missing from a policy
(`positionFees` is validated to cover all), reservations that end unsigned
(JoinFlow), and the statuses PROCESSING and FAILED, which no code sets.

PayoutPlan is what this promises to members, in three steps: `Choose` a policy for
a circle, `Promise` a payout with the fee and net amount that follow from it,
`Pay` it and enter exactly its amounts. In the mapping (`Plan`) the policies are
the snapshots, the promised payouts those a signature has scheduled, the paid ones
those marked DISBURSED; the amounts and the ledger are as they are. A second
confirmation of a payout is a second `Pay`, since the code allows it. What has no
counterpart is a second choice, a change of what was promised, a mark without
entries and an entry without the mark.

### SignIn

requestOtp is `RequestStart` (the purpose, resolved from whether the address is
known), `RequestCheck` (the cooldown) and `RequestCreate`. verifyOtp is
`VerifyStart`, `VerifyFind` or `VerifyRefuse` (the latest valid code, its
attempts, the comparison), `VerifyWrong` (the increment) or `VerifyRight` (the
code is marked as used), `VerifyCustomer` and `VerifyCreate` (the upsert that is
a find and an insert). `Callable` is what the DTOs and the guards let through: a
visitor names an e-mail address, a member's own number is taken for a signature,
so that contract codes of acceptContract and
verifyContractOtpAndFinalize are calls of the same actions. `SetNumber` is
the profile, whose mobile number has a unique key; e-mail addresses have none.
`RequestDies` and `VerifyDies` end a call between two statements. What is
compared is abstracted to right or wrong, and the clock to `Age`: a code cools
down, then expires, at any time.

OneTimeCodes has codes that are sent, used and expire, and accounts: `Send`, `Use`,
`Expire`, `OpenAtEmail`, `TakeNumber`. The mapping (`OneTime`) takes the address of
each row, the rows still looked up, those marked as used, and the accounts'
addresses; attempts, cooldowns and calls in progress are left behind. `Use` applies
to a code that has expired as well, and one code opens two accounts if two calls
passed with it: the code does both. No account is opened at an address to which no
used code was sent, and no spent code comes back.

### Sessions

`SignIn` and `Login` are the calls that end with generateTokens, `InsertToken`.
refreshTokens is `RefreshRead`, `RefreshRevoke` and `InsertToken`. bcrypt compares
the first 72 bytes, which are those of the token's header and the start of its
payload, so the row a refresh finds is any live one of its owner, and the model
takes any. `Logout`, `SetAdminStatus` and `ChangePassword` with `RevokeAll`, and
`SetCustomerStatus`, which leaves tokens alone, follow the services; `Cleanup` is
the daily SessionCleanupService. A dead row becomes `Stale` after its 7 or 30 days,
which no call in progress outlasts: that guard is the one assumption about
time.

TokenAccess keeps of all this who is in: an owner comes in by `Enter`, which for an
admin asks for ACTIVE, and is out by `Leave`; `SetStatus` moves nobody. Under the
mapping (`Access`) an owner is in with a live row or a sign-in or refresh in
progress (`HasAccess`). So a refresh is a step of an owner who is in already, or no
step at all, and the last of several statements that end tokens is the one that
leaves.

### Kyc

`ProfileRead`/`ProfileWrite` are the one transaction of createOrUpdateProfile;
`UploadDocument` inserts a row unless the customer has one of that type, which the
unique key of migration `20260729094900` refuses (the repository's "upsert" is a
create); `SubmitRead`/`SubmitWrite` are submitKycForReview. reviewDocument is
`ReviewStart`, `ReviewDoc`, then
`ReviewReject`, or `CountPending` and `CountRejected` in either order (the code
sends both counts at once) and `ReviewApprove`. `CreateDecision` and `Lapse` make
the latest decision eligible or not. `Eligible` is evaluateCustomerEligibility,
clause by clause. The initial states are those of `prisma/seed.ts`.

### Cards

Adding a card is `AddCount` and `AddInsert`; the choice of a default is the only
transaction, `ChooseRead`, `ClearSees`, `ClearLocks` and `ChooseSet`, whose first
statement clears the rows it saw when it began and waits for those another has
locked; removing is `RemoveRead`, `RemoveGuard` and `RemoveWrite`. `JoinRead` and
`JoinLink` are startJoin's use of a card, `Unlink` the end of the membership that
had it.

### Portfolio

The views are operators named after the endpoints: `Browsable`, `Recommended`,
`IntentOutcomes`, `Available`; `Home`, `Progress`, `Schedule`, `PaymentHistory`,
`CustomerHistory`, `PaymentsSummary`; `Round`, `Overview`, `CollectionsReport`,
`CustomersReport`, `PayoutQueue`. `JoinOutcomes` is what startJoin answers,
read after its checks. The tables they read are moved by one action a handler;
where JoinFlow or Collections shows that a handler may write on an outdated
read, the guard here is what is left of it (`Sign` signs a row that has expired
or was cancelled, `EndMembership` ends any row, a signed one too, since the job and the
admins write by id, `FallOverdue` overwrites PAID), and `StartJoinBoth` is the race
of two requests of one customer. CANCELLED and DEFAULTED are one status here, ENDED:
nothing in the code decides on either. A due date is the month it falls in.

## 3. Runs

| Run | Question | Instance |
|---|---|---|
| `join_race` | Is a position sold once, to one customer, for good; is the count exact and bounded; is a reservation kept for its hold; does the flow implement SeatSale? | 2 requests, 2 signatures, 2 customers, a circle of 2 positions (and a third that does not exist), one seeded, admins, aborts, both `draftOnTx`; 0.31 M states |
| `join_settles` | Does every reservation end, also across a restart? | 2 requests, 1 position, 1 crash, fairness; 0.18 M |
| `collect` | Do ledger, transactions and instalments agree with what the gateway took; does the flow implement Cashbook? | 3 transactions, 1 instalment, 2 request slots and the job, 1 failure, a reference in every answer; 1.8 M |
| `collect_settles` | Is money taken under a late answer booked where the gateway gave a reference, and does it keep its place where it did not? | 2 transactions, 2 slots and the job, 1 failure, answers with a reference and without, fairness; 0.34 M |
| `circle_fees` | Is there always a policy; do fees follow the snapshot; does the flow implement PayoutPlan; do entries balance to a cent; is a circle with members never a draft? | 2 policies, 1 circle, 2 members, 2 calls, 2 amounts, rates of both signs that give half cents; 0.64 M |
| `kyc` | Is a file under review complete; does only a decision end eligibility; does the approval of the last document approve the customer? | 1 customer, 2 documents, 2 reviews, 1 submission, the profile transaction, fairness; 0.65 M |
| `sign_in` | By how much can calls at once exceed the attempts, the cooldown, and one account per address; does the flow implement OneTimeCodes? | 1 address, 1 number, 3 accounts, 3 codes of 1 attempt, 2 requests and 2 verifications of which 2 run at a time; 0.79 M |
| `sessions` | Does the flow implement TokenAccess, so that who is locked out stays out; does the cleanup leave rows in use alone? | 1 customer, 1 admin, 4 rows, 2 calls, 2 closing calls; 73 k |
| `cards` | How many defaults can there be? | 5 rows, 2 calls; 0.42 M |
| `portfolio` | Can what is offered be had; do the screens agree; do parts add up to totals? | 2 customers, a circle of 2 months and one of 1, 2 signed memberships, 2 months; 0.14 M |
| `find_draft` | refuted: a request that asks for its draft is not turned away | |
| `find_accounts` | refuted: an address has one account | 2 verifications of one new address |

`circle_fees` and `kyc` check for deadlock. The other configurations say
CHECK_DEADLOCK FALSE: the clock, requests, rows, codes or transactions are
bounded, so a run out of them really stops.

Bounds. Two requests are needed for a collision over a position; of the two
positions one is seeded, so that the requests meet on the other and the count
has something to miss. A third request that comes between one that saw an
expired row and its delete is left to the theorems, which hold for any number.
`MaxClock` = 4 with `Hold` = 1 gives room to reserve, expire, delete, reserve
again and still run out; StartJoin's guard on it only keeps `reservedUntil`
inside the range. For collections, a third transaction is needed for the third
attempt; one instalment is enough, since no statement touches two. `MaxPosts`
stops callbacks for a transaction already posted that often, `MaxFailures`
bounds calls that die; both only cut what may repeat. CircleFees needs no bound
in its guards: two policies are one to retire and one to activate, two calls
collide, and the two members of one circle differ in the sign of their rate;
every amount and percentage is left to the proofs. Kyc has one customer because
no statement reads two; two documents are what the last two reviews take.
`Supplementary` has one document type that counts for neither the identity nor
the income. In SignIn, three codes are one more than two requests at once may
leave cooling; after the one wrong guess `MaxAttempts` = 1 allows, a second is
one too many, and a third is more than two verifications at once can make; the
third account lets each of two verifications insert one beside a seeded one.
`MaxCalls` = 2 is the pairs of calls that collide: two requests, two
verifications, or one of each. `Named` = {} leaves the purpose to
resolvePurpose, which finds both that a visitor may name; `find_accounts` lets
them be named. What these two bounds leave out is left to the theorems, which
hold for any number of codes and calls, any `Named` and any attempts. In
`collect_settles`, `References` has both values; `collect` has a reference in
every answer, since none of its properties looks at it but the guard of
reconciliation, which an answer without one only closes. In Sessions, four rows
are two rotations of two sessions. In Cards, five rows are the two seeded and
one for each call, with one over. Portfolio's circle A (two months, two units)
and B (one month, one unit, a month later) fit a `Limit` of 3 only just, so that
both the limit and a full circle occur; `MaxSigned` = 2 bounds the signed
memberships; only A is ever closed (`Closable`). Requests, slots, rows, accounts
and customers are symmetric where no seed names one; the runs with fairness use
no symmetry.

Fairness. `JoinFlow!Fairness`: time passes; cron fires every minute and handles
each row it found, and an open transaction does not stay open (Prisma's time
limit). Nothing is assumed of customers or admins. `Collections!Fairness`: a
call in progress goes on until it ends or dies, and reconciliation runs every
half hour. Nothing is assumed of callbacks, retries or customers.
`Kyc!Fairness`: a review that an admin has begun goes on to its end, as an
awaited call does; nobody has to begin one. A server that stops within a review
is excluded by it, since nothing would finish that review; the safety properties
are theorems of `Spec`, which assumes no fairness and lets a review stop anywhere.

## 4. Proofs

For every value of the constants that satisfies the named assumptions
(`JoinFlowAssumption`, `NoOneAssumption`, `CollectionsAssumption`,
`CircleFeesAssumption`, `KycAssumption`, `SignInAssumption`,
`SessionsAssumption`, `CardsAssumption`, `PortfolioAssumption`: finiteness of
the sets that are counted or summed over (requests, seeds, accounts,
verifications, calls on cards, customers, circles), the types of the parameters,
seeds within their circles' positions and on distinct ones, a call on cards, a
circle and a month at least, disjoint names).

*JoinFlow_proofs.* None of the properties is inductive alone. Uniqueness of
seats needs to know what an open transaction will commit: `SeatInv` says that
committed rows are on distinct seats, that an inserted, uncommitted row collides
with no other one, and with committed rows only where its own transaction
deletes them. That a signed row is never among those deleted is `HoldInv`: what
a request deletes is a reservation that had run out at its clock reading, and
is not signed, since the foreign keys are checked under the row lock that
signing needs too. `SeedInv` and `RowInv` keep seeded rows out of all of this
and tie rows to requests that committed, within the circle's positions. With
`CountIsMembers` and `TypeOK` this is `IInv`, proved inductive action by action
(`Inductive`); the properties follow. `NeverOversold` adds a counting argument:
the sold rows of a circle map injectively into 1..Duration.
`PoolReservesNothing` has an invariant of its own. `ReservationsRunOut` is what
safety has to say on `ReservationSettled`: a reservation has an end, which no
step moves, and it does not come back.

Its last part is the refinement of SeatSale (`JoinFlowSells`). Under the mapping
"holder of a seat = owner of the row sold at it", initial states are initial
states of SeatSale, an activation is a sale of a free seat (free because of
`SeatInv`), and every other step leaves holders and counts alone, because sold
rows keep owner, circle and position.

*Collections_proofs.* `IInv` adds to the properties `RowInv` (no history before
the insert) and `CallInv`, what each point of a call may rely on: before its
charge its row is its own; while posting, the money was taken; after the ledger
entries, they are there. Each conjunct has a lemma, and `Inductive` joins them.
That the flow implements Cashbook (`CollectionsKeepBooks`) rests on `IInv` too:
`PostedIsTaken` and `CallInv` are the guards of `Book`, `Settle` and `Pay`, and a
step that touches none of the mapped state stutters (`QuietStep`). An approved
proof settles a transaction that is none of a card's, and so is no step of the
books. `PostedIsTaken` is a theorem of its own (`LedgerShowsTakenMoney`); as a
property of the run it is contained in `BooksSpec`.
`LateAnswersWait` needs more than `IInv`. `WaitInv` says that PENDING_VERIFICATION
is only ever the status of a card transaction on which the gateway has decided,
that whoever is about to write FAILED by id has been told of a decline, and that
a late answer is written once, by the one call that received it. So nobody can
write FAILED over money that was taken, and nobody takes its reference away or
makes up for a missing one: the transaction stays where a callback finds it, and
with a reference where `Reconcile` does too. `PaidInstalmentsAreBooked` and
`SettledCardsAreBooked` state by themselves what the run checks as part of
`BooksSpec`.

*CircleFees_proofs.* `RoundedParts` is the arithmetic: two parts of a whole
number of cents, each rounded half away from zero, make up that number or one
more, for parts of either sign; the product of amount and percentage is named
before it is divided, so that the solver meets linear arithmetic only. `IInv`
adds to the properties what calls in progress rely on: the policy read for a
snapshot was activated and never becomes a draft (`PolicyCalls`), a circle under
creation is written by one call and no status write leads back to DRAFT
(`CircleCalls`), a signature is of an existing membership and a confirmation of
an existing payout (`MemberCalls`). The snapshot of a circle with members is
therefore never written again, which is what `FeesAsCreated` needs.
`Writers` says which actions write which variable, so that the properties only
look at those; `Invariance` joins the lemmas. The refinement of PayoutPlan
(`CirclesKeepThePlan`) needs more than `IInv`: `PlanInv` adds that a circle that
does not exist yet has no snapshot, which makes a creation a first choice
(`CreateChooses`), and that the amount a signature has read was one a circle may
have. A signature promises what its
snapshot gives, because the circle of a reserved member has one (`SignPromises`);
a confirmation pays what was promised, because nothing writes amounts but a
signature (`AmountWriters`, `ConfirmPays`); everything else leaves the plan alone.

*Kyc_proofs.* Everything rests on `DocumentsStay`: no step of any handler removes
a document or changes its type. `CompleteInv` adds to `UnderReviewIsComplete`
that what a submission has seen is there until it writes. That only a decision
ends eligibility follows from the same lemma, since no write leads back to a
profile that is missing or not started. `LastApprovalNotDropped` is the part of
`LastApprovalDecides` that needs no fairness: a count moves by its own statements
only (`CountsAreLeftAlone`), and while all documents are approved both can only
find zero.

*SignIn_proofs.* Three counting arguments. Each bound is false of a
single step taken alone: a call that has passed its check will still write. So
each invariant counts the writes to come along with those made (`AttemptsInv`,
`CooldownInv`, `AccountsInv`), and a write only moves one from the one count to
the other. A check that passes finds the first count below its limit, and the
second is at most the number of slots less the one that is checking. The
refinement of OneTimeCodes (`CodesOpenAccounts`) rests on `CodeCalls` instead: a
call keeps to a code sent to the address it was called with, and the code of a
call that has got as far as the account is marked as used, which no step undoes. That
is the guard of `OpenAtEmail` when the account is inserted, however long ago the
mark was made.

*Sessions_proofs.* `ReadRowsStay` strengthens `RowsOutliveCalls` (a row that a call
has read is neither stale nor another owner's). `LockOutLasts` is an action
property: it needs the types and, of each action, that it starts from a live
row, an active owner or a call in progress, all of which the premise excludes.
That Sessions implements TokenAccess (`AccessIsGranted`) says the same of
every owner, and of every step. `OneOwner` is the argument: a statement works for
one owner, and nobody else's tokens or calls differ after it. `CallAccess` needs
`ReadRowsStay` for it, since a refresh revokes by id: that the row is still its
owner's is not looked at again.

*Cards_proofs.* `DefaultsBounded` is far from inductive: between the clearing and
the setting of a choice, others may set defaults it has not seen. `DefaultsInv`
quantifies over the sets `K` of calls that choose: the defaults that none of `K`
has seen (and will not clear), the first cards about to be inserted, and `K`
itself are together at most the calls there are. `K` = {} is the property.

*Portfolio_proofs.* The tables need nothing beyond their types (`TypeOK` is
inductive by itself): the properties compare views of one state, and the work is
in the operators. Sums over finite sets come first. The library's induction
theorems take an operator as a parameter, which the provers cannot instantiate,
so `SetInduction` speaks of a set of subsets in its place; a counterexample that
is minimal in the library's well-founded order of strict inclusion proves it. On
it rest the defining equation of MapThenSumSet (`SumsExist`, `SumsUnique`), and
how sums split over disjoint sets, compare over subsets and count (`SumUnion`,
`SumSubset`, `SumOnes`, `SumByKind`). `Partitions` regroups the instalments by
customer, by circle and by round, and `ReportsAgree` and `RoundsAgree` are such
regroupings. `DueDatesAgree` rests on minima instead (`MinOf`, `EarliestOrder`):
a search over fewer instalments never finds an earlier one. `OffersAreHonoured`
compares obligations read at two places (`OffersOf`).

Model-checked only: liveness (`ReservationSettled`, `LateAnswerIsBooked`,
`LastApprovalDecides`). It needs fairness and ENABLED, which tlapm 1.4.5 does not
reason about; the safety half of each is a theorem (`ReservationsRunOut`,
`LateAnswersWait`, `LastApprovalNotDropped`). The refuted statements have no
theorem. Every other property of a run is proved,
the refinements included (`SaleSpec`, `BooksSpec`, `PlanSpec`, `CodesSpec`,
`AccessSpec`). A leaf of a proof cites few facts, so that
the solvers need a fraction of their default time for it; a leaf that comes to need
more is split.

## 5. What the models found

Refuted by a run:

1. `find_draft`: the contract draft is read outside the transaction that inserts
   the membership, so joining always fails against a real database; the tests
   mock it (`src/modules/circles/join-flow.spec.ts:201`, "should successfully reserve
   position and return draft contract reference").
2. `find_accounts`: "DB-level unique constraint handling for race conditions"
   (`auth.service.ts`) has no constraint to rely on for e-mail addresses.
   `AccountsPerAddress` is what holds.

Met while modelling, without a run of their own.

Joining. Concurrent requests of one customer each pass the participation limit
that the transaction rechecks, and may take two positions of one circle (a dead
row that findFirst returns before a live one does the same). A cancelled
reservation keeps its unique key and startJoin removes only PENDING_SIGNATURE
rows, so a position released by the job or an admin cannot be taken again, while
the availability endpoint offers it. An admin release, or the job, overwrites
ACTIVE with CANCELLED when the customer signs in between.

Money. A charge whose outcome is unknown does not stop the next. A late answer without
a provider reference is left to "wait for reconciliation"
(`installments.service.ts:366`), which skips such rows for ever; only a callback can
book its money. An approved
manual payment reaches neither the ledger nor the instalment. Fee and net amount
are rounded each for itself: a circle of 100.50 at 7 percent pays 93.47 and books
7.04, a cent more than it debits, although `admin-payouts.service.ts:171` and the
spec beside it speak of balanced entries. Two postings of one transaction can both pass
the SETTLED check; an OVERDUE can overwrite PAID; a call that dies between
SETTLED and PAID leaves an instalment that is charged again; two confirmations
of one payout both post. `handleOverdueFlagging` looks for retryAttempt >= 3,
which `RetryScheduled` shows to be unreachable.

Circles. Two activations leave two ACTIVE policies, or revive a retired one; a
stale status write reopens a cancelled circle. Due dates are advanced with
setMonth, which for start days 29 to 31 skips a month and doubles the next.

Identity. A customer whose document is rejected is told "Please upload a new
..." (`notifications.service.ts:142`), but the unique key on customer and type
refuses a second one, and no call deletes the first: only a review of the same
row can still approve it, and until then it keeps the customer from APPROVED.
Documents approved before the profile exists approve nobody; a late APPROVED
overwrites a REJECTED. A number changed between the request of a signature code
and its entry leaves the code behind.

Sessions. A token can be exchanged twice at once. A suspension that dies between
its two writes, or meets a login past its check, leaves live tokens with an
inactive admin; the guards refuse them. Customers keep their tokens whatever
their status. `refresh-token-cleanup.job.ts` is an empty body: the cleanup is
SessionCleanupService.

Cards. Two calls at once leave two defaults. A card removed between the read and
the write of setDefault becomes a removed default; a join links a card whose
removal found it unlinked.

Screens. The circle page names cycle 1 as current when all are paid. Home does
not look at overdue instalments before recommending. The activity page leaves out
what is overdue when it names the next due date. Seats of cancelled and defaulted
rows are shown as available. `OffersHold` and `NextDueAgrees` say how far the
screens agree all the same.

## 6. Not modelled

- *Notifications, audit trail*: appended rows that no modelled decision reads
  back. Notifications written inside an activation that rolls back stay; that
  hazard is listed and has no property.
- *Storage, PDF layout, hashing*: I/O and rendering.
- *Controllers and DTOs*, apart from what `Callable` of SignIn and the guards of
  Sessions take from them: declarative wiring and validation.
- *Dashboard, risk and audit reports, getCircleDetail*: reads of one table each,
  with nothing to agree with.
- *createAdmin, updateRole, flagProof*: one row written, on which no modelled
  step decides.
- *Overrides of a circle's duration and dates* (updateCircleProperties): an
  administrative exception that changes the number of positions after they were
  given out; modelled is the override of the amount. The theorems of JoinFlow
  hold as long as no such override is made.
- *The days of a schedule*: due dates count in months. The month arithmetic of
  JavaScript's setMonth would be a pure function on calendar days.

## 7. What is left

A run with two processes of collection feeding `hasOverdueInstallments` of
joining statement by statement (Portfolio has it a handler at a time); the
calendar as a pure function; abstract specifications of Kyc and Cards like
those of the other components.
