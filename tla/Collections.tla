----------------------------- MODULE Collections -----------------------------
(***************************************************************************)
(* Collecting instalments: InstallmentsService.processGatewayCollection    *)
(* and submitManualProof, LedgerService.postInstallmentCollection, the     *)
(* gateway webhook, the reconciliation job and the admin decisions on      *)
(* payments.                                                               *)
(*                                                                         *)
(* None of this code opens a database transaction: every statement commits *)
(* by itself, and the calls that are in progress interleave between them.  *)
(* One statement, or one call to the gateway, is one action.  Updates are  *)
(* "where id": they overwrite whatever was written since the call read it. *)
(*                                                                         *)
(* A transaction row is named before it is inserted: txInst says which     *)
(* instalment it will be for.  The gateway is external: it takes the money *)
(* or declines once per transaction, and its callbacks and answers to      *)
(* reconciliation tell the truth; the answer to the charge itself may be   *)
(* late ("PENDING_VERIFICATION") or lost.                                  *)
(*                                                                         *)
(* A definition introduced by "Slip:" is no part of the model: it is the   *)
(* definition below it with one thing the code relies on left out, and     *)
(* shows which property depends on that thing.                             *)
(***************************************************************************)
EXTENDS Integers, FiniteSets

CONSTANTS
    Installments,
    Txs,            \* transaction rows
    Requests,       \* slots for calls in progress: pay, hourly job, webhook, admin
    Job,            \* the slot of the reconciliation job
    NoTx,
    References,     \* subset of BOOLEAN: may an answer carry a providerReference, or none?
    AdminActs,      \* do admins hold transactions in this instance?
    MaxFailures,    \* bound on calls that die half way
    MaxPosts        \* bound on repeated callbacks: none once posted this often

ASSUME CollectionsAssumption ==
    /\ NoTx \notin Txs /\ Job \notin Requests
    /\ References \in SUBSET BOOLEAN /\ AdminActs \in BOOLEAN
    /\ MaxFailures \in Nat /\ MaxPosts \in Nat

Calls == Requests \cup {Job}

VARIABLES
    inst,           \* [Installments -> {"PENDING", "PAID", "OVERDUE"}]: status
    retry,          \* [Installments -> Nat]: retryAttempt
    retrySet,       \* instalments whose nextRetryAt is not null
    linked,         \* instalments whose membership has a usable payment method
    tx,             \* [Txs -> TxStatuses]: status, "NONE" before the insert
    txInst,         \* [Txs -> Installments]: installmentId
    hasRef,         \* transactions with a providerReference
    proof,          \* [Txs -> ProofStatuses]: reviewStatus; "NONE": paid by card
    posted,         \* [Txs -> Nat]: pairs of ledger entries
    money,          \* [Txs -> {"none", "taken", "declined"}]: what the gateway did
    pc,             \* [Calls -> Steps]
    on,             \* [Calls -> Txs \cup {NoTx}]: the transaction of the call
    attempt,        \* [Calls -> Nat]: currentAttempt
    failures

instVars == <<inst, retry, retrySet>>
txVars   == <<tx, hasRef, proof>>
fixed    == <<linked, txInst>>
callVars == <<pc, on, attempt>>
vars     == <<instVars, txVars, fixed, posted, money, callVars, failures>>

TxStatuses == {"NONE", "PENDING", "SETTLED", "FAILED", "REJECTED",
               "PENDING_VERIFICATION", "PENDING_MANUAL_REVIEW"}
ProofStatuses == {"NONE", "PENDING", "APPROVED", "REJECTED"}

Steps == {"idle", "create", "charge", "pending", "failed", "overdue", "retry",
          "post", "ledger", "settle", "paid", "record", "submit", "approve", "reject"}

TypeOK ==
    /\ inst \in [Installments -> {"PENDING", "PAID", "OVERDUE"}]
    /\ retry \in [Installments -> Nat]
    /\ retrySet \in SUBSET Installments /\ linked \in SUBSET Installments
    /\ tx \in [Txs -> TxStatuses] /\ txInst \in [Txs -> Installments]
    /\ hasRef \in SUBSET Txs
    /\ proof \in [Txs -> ProofStatuses]
    /\ posted \in [Txs -> Nat]
    /\ money \in [Txs -> {"none", "taken", "declined"}]
    /\ pc \in [Calls -> Steps] /\ on \in [Calls -> Txs \cup {NoTx}]
    /\ attempt \in [Calls -> Nat]
    /\ failures \in Nat

\* The row t is neither inserted nor about to be.
Fresh(t) == tx[t] = "NONE" /\ \A w \in Calls : on[w] # t

\* The instalment a call is about.
InstOf(w) == txInst[on[w]]

Init ==
    /\ inst = [i \in Installments |-> "PENDING"]
    /\ retry = [i \in Installments |-> 0]
    /\ retrySet = {}
    /\ linked \in SUBSET Installments
    /\ tx = [t \in Txs |-> "NONE"]
    /\ txInst \in [Txs -> Installments]
    /\ hasRef = {}
    /\ proof = [t \in Txs |-> "NONE"]
    /\ posted = [t \in Txs |-> 0]
    /\ money = [t \in Txs |-> "none"]
    /\ pc = [w \in Calls |-> "idle"]
    /\ on = [w \in Calls |-> NoTx]
    /\ attempt = [w \in Calls |-> 0]
    /\ failures = 0

-----------------------------------------------------------------------------
(* Calls *)

Begin(w, t, step) ==
    /\ pc[w] = "idle"
    /\ pc' = [pc EXCEPT ![w] = step]
    /\ on' = [on EXCEPT ![w] = t]

Goto(w, step) == pc' = [pc EXCEPT ![w] = step] /\ UNCHANGED <<on, attempt>>

Return(w) ==
    /\ pc' = [pc EXCEPT ![w] = "idle"]
    /\ on' = [on EXCEPT ![w] = NoTx]
    /\ attempt' = [attempt EXCEPT ![w] = 0]

SetTx(t, status) == tx' = [tx EXCEPT ![t] = status]

-----------------------------------------------------------------------------
(* payInstallment, handleCollectionsAndRetries: processGatewayCollection.    *)
(* The job picks its instalments earlier and the customer may pay one at any *)
(* time; what both have in common is the check here, that it is not PAID.    *)

Collect(w, t) ==
    /\ w \in Requests /\ Fresh(t)
    /\ inst[txInst[t]] # "PAID"
    /\ Begin(w, t, IF txInst[t] \in linked THEN "create" ELSE "overdue")
    /\ attempt' = [attempt EXCEPT ![w] = retry[txInst[t]] + 1]
    /\ UNCHANGED <<instVars, txVars, fixed, posted, money, failures>>

\* The key holds the attempt and the millisecond: no other row has it.
CreateTx(w) ==
    /\ pc[w] = "create"
    /\ SetTx(on[w], "PENDING")
    /\ Goto(w, "charge")
    /\ UNCHANGED <<instVars, hasRef, proof, fixed, posted, money, failures>>

\* chargeToken: the gateway takes the money or declines, and says so, or says
\* that it does not know yet.  (That the answer is lost is a failed call.)
Charge(w) ==
    /\ pc[w] = "charge"
    /\ \E outcome \in {"taken", "declined"} :
        /\ money' = [money EXCEPT ![on[w]] = outcome]
        /\ \/ Goto(w, IF outcome = "taken" THEN "post" ELSE "failed")
           \/ Goto(w, "pending")
    /\ UNCHANGED <<instVars, txVars, fixed, posted, failures>>

\* The charge is made, and the call dies before it hears so.
ChargeLost(w) ==
    /\ pc[w] = "charge"
    /\ failures < MaxFailures
    /\ failures' = failures + 1
    /\ \E outcome \in {"taken", "declined"} : money' = [money EXCEPT ![on[w]] = outcome]
    /\ Return(w)
    /\ UNCHANGED <<instVars, txVars, fixed, posted>>

\* result.providerReference is optional in ChargeResult: where the gateway gives
\* none, the update leaves the column as it is.
StoreRef(t) == \E given \in References : hasRef' = IF given THEN hasRef \cup {t} ELSE hasRef

MarkPending(w) ==
    /\ pc[w] = "pending"
    /\ SetTx(on[w], "PENDING_VERIFICATION")
    /\ StoreRef(on[w])
    /\ Return(w)
    /\ UNCHANGED <<instVars, proof, fixed, posted, money, failures>>

\* Slip: one attempt too many.
MarkFailedTooOften(w) ==
    /\ pc[w] = "failed"
    /\ SetTx(on[w], "FAILED")
    /\ StoreRef(on[w])
    /\ Goto(w, IF attempt[w] > 3 THEN "overdue" ELSE "retry")
    /\ UNCHANGED <<instVars, proof, fixed, posted, money, failures>>

\* A failure that is not retryable, or the third one, makes it overdue.
MarkFailed(w) ==
    /\ pc[w] = "failed"
    /\ SetTx(on[w], "FAILED")
    /\ StoreRef(on[w])
    /\ \/ Goto(w, "overdue")
       \/ attempt[w] < 3 /\ Goto(w, "retry")
    /\ UNCHANGED <<instVars, proof, fixed, posted, money, failures>>

ScheduleRetry(w) ==
    /\ pc[w] = "retry"
    /\ retry' = [retry EXCEPT ![InstOf(w)] = attempt[w]]
    /\ retrySet' = retrySet \cup {InstOf(w)}
    /\ Return(w)
    /\ UNCHANGED <<inst, txVars, fixed, posted, money, failures>>

\* markInstallmentOverdue, whatever the status is by now.
MarkOverdue(w) ==
    /\ pc[w] = "overdue"
    /\ inst' = [inst EXCEPT ![InstOf(w)] = "OVERDUE"]
    /\ retrySet' = retrySet \ {InstOf(w)}
    /\ Return(w)
    /\ UNCHANGED <<retry, txVars, fixed, posted, money, failures>>

-----------------------------------------------------------------------------
(* postInstallmentCollection, called without a transaction client *)

PostRead(w) ==
    /\ pc[w] = "post"
    /\ IF tx[on[w]] = "SETTLED" THEN Return(w) ELSE Goto(w, "ledger")
    /\ UNCHANGED <<instVars, txVars, fixed, posted, money, failures>>

PostLedger(w) ==
    /\ pc[w] = "ledger"
    /\ posted' = [posted EXCEPT ![on[w]] = @ + 1]
    /\ Goto(w, "settle")
    /\ UNCHANGED <<instVars, txVars, fixed, money, failures>>

\* Slip: the instalment is forgotten.
PostSettleOnly(w) ==
    /\ pc[w] = "settle"
    /\ SetTx(on[w], "SETTLED")
    /\ hasRef' = hasRef \cup {on[w]}
    /\ Return(w)
    /\ UNCHANGED <<instVars, proof, fixed, posted, money, failures>>

PostSettle(w) ==
    /\ pc[w] = "settle"
    /\ SetTx(on[w], "SETTLED")
    /\ hasRef' = hasRef \cup {on[w]}
    /\ Goto(w, "paid")
    /\ UNCHANGED <<instVars, proof, fixed, posted, money, failures>>

PostPaid(w) ==
    /\ pc[w] = "paid"
    /\ inst' = [inst EXCEPT ![InstOf(w)] = "PAID"]
    /\ Return(w)
    /\ UNCHANGED <<retry, retrySet, txVars, fixed, posted, money, failures>>

-----------------------------------------------------------------------------
(* The gateway's callback and the reconciliation job *)

\* Slip: a callback is taken for a success whatever it says.
WebhookAnyStatus(w, t) ==
    /\ w \in Requests
    /\ money[t] # "none" /\ posted[t] < MaxPosts
    /\ tx[t] \notin {"NONE", "SETTLED"}
    /\ Begin(w, t, "post")
    /\ UNCHANGED <<attempt, instVars, txVars, fixed, posted, money, failures>>

\* The gateway has decided and calls back, any number of times.
Webhook(w, t) ==
    /\ w \in Requests
    /\ money[t] # "none"
    /\ posted[t] < MaxPosts
    /\ tx[t] \notin {"NONE", "SETTLED"}
    /\ Begin(w, t, IF money[t] = "taken" THEN "post" ELSE "record")
    /\ UNCHANGED <<attempt, instVars, txVars, fixed, posted, money, failures>>

\* Slip: what has waited this long is taken for a failure.
ReconcileGivesUp(t) ==
    /\ tx[t] = "PENDING_VERIFICATION" /\ t \in hasRef
    /\ Begin(Job, t, "record")
    /\ UNCHANGED <<attempt, instVars, txVars, fixed, posted, money, failures>>

\* Slip: the job looks at what is still to be paid only.
ReconcileUnpaid(t) ==
    /\ tx[t] = "PENDING_VERIFICATION" /\ t \in hasRef
    /\ inst[txInst[t]] # "PAID"
    /\ Begin(Job, t, IF money[t] = "taken" THEN "post" ELSE "record")
    /\ UNCHANGED <<attempt, instVars, txVars, fixed, posted, money, failures>>

\* PENDING_VERIFICATION and a providerReference; the gateway is asked about it.
Reconcile(t) ==
    /\ tx[t] = "PENDING_VERIFICATION" /\ t \in hasRef
    /\ Begin(Job, t, IF money[t] = "taken" THEN "post" ELSE "record")
    /\ UNCHANGED <<attempt, instVars, txVars, fixed, posted, money, failures>>

\* Both record a declined charge on the transaction and nowhere else.
RecordFailed(w) ==
    /\ pc[w] = "record"
    /\ SetTx(on[w], "FAILED")
    /\ Return(w)
    /\ UNCHANGED <<instVars, hasRef, proof, fixed, posted, money, failures>>

-----------------------------------------------------------------------------
(* Manual proofs and admins *)

\* submitManualProof (behind FEATURE_MANUAL_PROOF_ENABLED)
SubmitRead(w, t) ==
    /\ w \in Requests /\ Fresh(t)
    /\ inst[txInst[t]] # "PAID"
    /\ Begin(w, t, "submit")
    /\ UNCHANGED <<attempt, instVars, txVars, fixed, posted, money, failures>>

SubmitProof(w) ==
    /\ pc[w] = "submit"
    /\ SetTx(on[w], "PENDING_MANUAL_REVIEW")
    /\ proof' = [proof EXCEPT ![on[w]] = "PENDING"]
    /\ Return(w)
    /\ UNCHANGED <<instVars, hasRef, fixed, posted, money, failures>>

\* reviewProof writes the proof first, from whatever review it had.
ReviewProof(w, t) ==
    /\ w \in Requests
    /\ proof[t] # "NONE"
    /\ \E verdict \in ProofStatuses \ {"NONE"} :
        /\ proof' = [proof EXCEPT ![t] = verdict]
        /\ IF verdict = "PENDING"
           THEN UNCHANGED <<pc, on>>
           ELSE Begin(w, t, IF verdict = "APPROVED" THEN "approve" ELSE "reject")
    /\ UNCHANGED <<attempt, tx, hasRef, instVars, fixed, posted, money, failures>>

\* ... and then the transaction: its status alone.
ReviewTx(w) ==
    /\ pc[w] \in {"approve", "reject"}
    /\ SetTx(on[w], IF pc[w] = "approve" THEN "SETTLED" ELSE "REJECTED")
    /\ Return(w)
    /\ UNCHANGED <<instVars, hasRef, proof, fixed, posted, money, failures>>

\* Slip: a status of its own for what is held.
HoldOwnStatus(t) ==
    /\ AdminActs
    /\ tx[t] \notin {"NONE", "PENDING"}
    /\ SetTx(t, "ON_HOLD")
    /\ UNCHANGED <<instVars, hasRef, proof, fixed, posted, money, callVars, failures>>

\* holdTransaction, in any status.
Hold(t) ==
    /\ AdminActs
    /\ tx[t] \notin {"NONE", "PENDING"}
    /\ SetTx(t, "PENDING")
    /\ UNCHANGED <<instVars, hasRef, proof, fixed, posted, money, callVars, failures>>

-----------------------------------------------------------------------------
(* A statement fails, or the server dies under the call. *)

Fail(w) ==
    /\ pc[w] # "idle"
    /\ failures < MaxFailures
    /\ failures' = failures + 1
    /\ Return(w)
    /\ UNCHANGED <<instVars, txVars, fixed, posted, money>>

Continue(w) ==
    \/ CreateTx(w) \/ Charge(w) \/ MarkPending(w) \/ MarkFailed(w)
    \/ ScheduleRetry(w) \/ MarkOverdue(w)
    \/ PostRead(w) \/ PostLedger(w) \/ PostSettle(w) \/ PostPaid(w)
    \/ RecordFailed(w) \/ SubmitProof(w) \/ ReviewTx(w)

Next ==
    \/ \E w \in Calls : Continue(w) \/ ChargeLost(w) \/ Fail(w)
    \/ \E w \in Requests, t \in Txs :
          Collect(w, t) \/ Webhook(w, t) \/ SubmitRead(w, t) \/ ReviewProof(w, t)
    \/ \E t \in Txs : Reconcile(t) \/ Hold(t)

Spec == Init /\ [][Next]_vars

\* A call that is in progress goes on, and the reconciliation job runs every
\* half hour.  Nothing is assumed of customers, callbacks, admins, or retries.
Fairness ==
    /\ \A w \in Calls : WF_vars(Continue(w))
    /\ \A t \in Txs : WF_vars(Reconcile(t))

FairSpec == Spec /\ Fairness

-----------------------------------------------------------------------------
(* Properties *)

\* Card transactions with the status SETTLED, instalments with the status PAID.
SettledCards == {t \in Txs : tx[t] = "SETTLED" /\ proof[t] = "NONE"}
PaidInstallments == {i \in Installments : inst[i] = "PAID"}

Books == INSTANCE Cashbook
         WITH due <- txInst, entries <- posted, settled <- SettledCards, paid <- PaidInstallments

\* Every statement moves the books by one step of Cashbook or leaves them as
\* they are, whichever calls overlap, are repeated or die half way: no charge
\* is decided twice, no booking removed, and nothing is settled or paid before
\* it is booked.
BooksSpec == Books!Spec

\* The ledger shows no collection that the gateway did not make.
PostedIsTaken == \A t \in Txs : posted[t] > 0 => money[t] = "taken"

\* An instalment that is PAID has a collection in the ledger, whatever calls
\* died half way: the ledger is written before the statuses.
PaidIsPosted ==
    \A i \in Installments : inst[i] = "PAID" => \E t \in Txs : txInst[t] = i /\ posted[t] > 0

\* A card transaction is SETTLED only once it is in the ledger, although late
\* answers, callbacks, reconciliation and admins overwrite each other's status.
CardSettledIsPosted == \A t \in Txs : tx[t] = "SETTLED" /\ proof[t] = "NONE" => posted[t] > 0

\* While no call dies, a card transaction that is SETTLED has its instalment
\* paid or about to be.
SettledGetsPaid ==
    \A t \in Txs : failures = 0 /\ tx[t] = "SETTLED" /\ proof[t] = "NONE"
                   /\ inst[txInst[t]] = "PENDING" =>
        \E w \in Calls : pc[w] = "paid" /\ InstOf(w) = txInst[t]

\* An instalment that has failed and is still PENDING has a next retry, and no
\* more than two failures: the hourly job finds it again, and handleOverdueFlagging,
\* which looks for retryAttempt >= 3, never finds anything.
RetryScheduled ==
    \A i \in Installments :
        /\ retry[i] <= 2
        /\ inst[i] = "PENDING" /\ retry[i] > 0 => i \in retrySet

\* Money taken under a late answer reaches the ledger, however often the
\* instalment is charged again meanwhile, if the gateway gave a reference and
\* unless an admin holds the transaction (then it is PENDING, and no job looks
\* at it again).  Without a reference only a callback can book it.
LateAnswerIsBooked ==
    \A t \in Txs :
        (tx[t] = "PENDING_VERIFICATION" /\ t \in hasRef /\ money[t] = "taken")
            ~> (posted[t] > 0 \/ tx[t] = "PENDING")

\* Until then it keeps its status, its money and its reference or the want of
\* one: no second collection, late failure, callback, job, review or crash
\* takes it from where callbacks (always) and the job (by the reference) find
\* it, and none but a booking makes up for a reference the gateway did not give.
LateAnswerWaits ==
    [][\A t \in Txs : tx[t] = "PENDING_VERIFICATION" /\ money[t] = "taken" =>
            \/ /\ tx'[t] = "PENDING_VERIFICATION" /\ money'[t] = "taken"
               /\ t \in hasRef' <=> t \in hasRef
            \/ posted'[t] > 0
            \/ tx'[t] = "PENDING"]_vars

-----------------------------------------------------------------------------
(* The inductive invariant *)

\* Before its row is inserted a transaction has no history.
RowInv == \A t \in Txs : tx[t] = "NONE" => money[t] = "none" /\ proof[t] = "NONE"

\* The row t is untouched by any other call than w.
SoleCall(w) == \A v \in Calls : on[v] = on[w] => v = w

\* What a call in progress may rely on.
CallInv ==
    \A w \in Calls :
        /\ pc[w] # "idle" => on[w] \in Txs
        /\ pc[w] \in {"create", "submit"} => tx[on[w]] = "NONE" /\ SoleCall(w)
        /\ pc[w] = "charge" =>
            /\ tx[on[w]] = "PENDING" /\ proof[on[w]] = "NONE" /\ money[on[w]] = "none"
            /\ SoleCall(w)
        /\ pc[w] \in {"post", "ledger"} => money[on[w]] = "taken"
        /\ pc[w] \in {"settle", "paid"} => posted[on[w]] > 0
        /\ pc[w] \in {"approve", "reject"} => proof[on[w]] # "NONE"
        /\ pc[w] = "retry" => attempt[w] <= 2

\* Everything the proofs of the properties above rest on.
IInv ==
    /\ TypeOK /\ RowInv /\ CallInv
    /\ PostedIsTaken /\ CardSettledIsPosted /\ PaidIsPosted
    /\ SettledGetsPaid /\ RetryScheduled
=============================================================================
