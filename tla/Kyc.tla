-------------------------------- MODULE Kyc --------------------------------
(***************************************************************************)
(* Identity and eligibility: the customer's profile, documents and         *)
(* submission (CustomersService), their review and the eligibility         *)
(* decision by an admin (KycService), and the check the join flow makes    *)
(* of all of it (CustomerCirclesService.evaluateCustomerEligibility).      *)
(*                                                                         *)
(* Every service reads, decides and writes by id in separate statements;   *)
(* only the profile's two writes share a transaction.  A call in progress  *)
(* is a record of what it has read so far.  The two counts of a review are *)
(* sent together (Promise.all) on two connections: either may be taken     *)
(* first, and anything may happen between them.                            *)
(*                                                                         *)
(* A document row is named by the upload that inserts it; a customer has   *)
(* one row of each type (documents_customer_id_doc_type_key).  Of a        *)
(* customer's decisions the latest counts: it is ELIGIBLE and not expired, *)
(* or not; its expiry is abstracted from the clock and comes at any time.  *)
(***************************************************************************)
EXTENDS Integers, FiniteSets

CONSTANTS
    Customers,
    Docs,           \* document rows
    Owner,          \* [Docs -> Customers]: customerId
    IdDoc, IncDoc,  \* [Customers -> Docs]: the rows the seed may have inserted
    Supplementary,  \* document types no check asks for
    Submits,        \* worker slots for submissions in progress
    Reviews,        \* worker slots for document reviews in progress
    NoOne, NoDoc    \* no customer, no document

ASSUME KycAssumption ==
    /\ Owner \in [Docs -> Customers]
    /\ IdDoc \in [Customers -> Docs] /\ IncDoc \in [Customers -> Docs]
    /\ \A q \in Customers : IdDoc[q] # IncDoc[q] /\ Owner[IdDoc[q]] = q /\ Owner[IncDoc[q]] = q
    /\ "UTILITY_BILL" \in Supplementary
    /\ NoOne \notin Customers /\ NoDoc \notin Docs

VARIABLES
    kyc,            \* [Customers -> KycStatuses]: kycStatus, NONE without a profile
    doc,            \* [Docs -> DocStatuses]: status, NONE when there is no such row
    type,           \* [Docs -> DocTypes]: docType
    approved,       \* customers whose latest decision is ELIGIBLE and has not expired
    profiling,      \* [Customers -> ProfileSteps]: the customer's open profile transaction;
                    \* its lock on the customer row keeps others out
    submitting,     \* [Submits -> Customers \cup {NoOne}]: whose submission passed the checks
    review          \* [Reviews -> ReviewCalls]

vars == <<kyc, doc, type, approved, profiling, submitting, review>>

KycStatuses == {"NONE", "NOT_STARTED", "PENDING", "UNDER_REVIEW", "APPROVED", "REJECTED"}
Verdicts    == {"PENDING", "APPROVED", "REJECTED"}
DocStatuses == {"NONE"} \cup Verdicts

IdentityTypes == {"NATIONAL_ID", "PASSPORT"}
IncomeTypes   == {"PROOF_OF_INCOME"}
DocTypes      == IdentityTypes \cup IncomeTypes \cup Supplementary

\* What an open profile transaction will write: shouldResetToPending or not.
ProfileSteps == {"idle", "reset", "keep"}

\* What a count of the documents in one status has found.  A count that finds
\* one ends what the review can write.
Counts == {"unread", "zero"}

ReviewCalls == [step : {"idle", "write", "reject", "count"},
                doc : Docs \cup {NoDoc}, verdict : Verdicts,
                pending : Counts, rejected : Counts]
Idle == [step |-> "idle", doc |-> NoDoc, verdict |-> "PENDING",
         pending |-> "unread", rejected |-> "unread"]

TypeOK ==
    /\ kyc \in [Customers -> KycStatuses]
    /\ doc \in [Docs -> DocStatuses]
    /\ type \in [Docs -> DocTypes]
    /\ approved \in SUBSET Customers
    /\ profiling \in [Customers -> ProfileSteps]
    /\ submitting \in [Submits -> Customers \cup {NoOne}]
    /\ review \in [Reviews -> ReviewCalls]
    /\ \A r \in Reviews : review[r].step # "idle" => review[r].doc \in Docs

-----------------------------------------------------------------------------
(* Derived state *)

DocsOf(q) == {d \in Docs : Owner[d] = q /\ doc[d] # "NONE"}

\* A document of one of the types T, in any status.
HasDoc(q, T) == \E d \in DocsOf(q) : type[d] \in T

NoDocIs(q, s) == \A d \in DocsOf(q) : doc[d] # s

AllApproved(q) == DocsOf(q) # {} /\ \A d \in DocsOf(q) : doc[d] = "APPROVED"

\* The steps evaluateCustomerEligibility reports as missing.
MissingSteps(q) ==
    {s \in {"identity_verification", "proof_of_income", "eligibility_decision"} :
        CASE s = "identity_verification" ->
                kyc[q] \in {"NONE", "NOT_STARTED"} \/ ~HasDoc(q, IdentityTypes)
          [] s = "proof_of_income" -> ~HasDoc(q, IncomeTypes)
          [] s = "eligibility_decision" -> q \notin approved}

Eligible(q) == MissingSteps(q) = {}

-----------------------------------------------------------------------------
(* The database at start: a customer is new, or one of those the seed      *)
(* inserts, approved, waiting for submission, or rejected.                 *)

SeedStates == {"new", "approved", "pending", "rejected"}

SeedKyc == [new |-> "NONE", approved |-> "APPROVED", pending |-> "PENDING", rejected |-> "REJECTED"]

SeedDoc(s, q, d) ==
    IF d = IdDoc[q] /\ s # "new" THEN SeedKyc[s]
    ELSE IF d = IncDoc[q] /\ s \in {"approved", "pending"} THEN SeedKyc[s]
    ELSE "NONE"

SeedType(s, q, d) ==
    IF d # IncDoc[q] THEN "NATIONAL_ID"
    ELSE IF s = "pending" THEN "UTILITY_BILL" ELSE "PROOF_OF_INCOME"

Init ==
    /\ \E s \in [Customers -> SeedStates] :
        /\ kyc = [q \in Customers |-> SeedKyc[s[q]]]
        /\ doc = [d \in Docs |-> SeedDoc(s[Owner[d]], Owner[d], d)]
        /\ type = [d \in Docs |-> SeedType(s[Owner[d]], Owner[d], d)]
        /\ approved = {q \in Customers : s[q] = "approved"}
    /\ profiling = [q \in Customers |-> "idle"]
    /\ submitting = [s \in Submits |-> NoOne]
    /\ review = [r \in Reviews |-> Idle]

-----------------------------------------------------------------------------
(* The customer *)

\* createOrUpdateProfile: the update of the customer row returns the profile
\* as it is committed now, and locks the customer row, not the profile.
ProfileRead(q) ==
    /\ profiling[q] = "idle"
    /\ profiling' = [profiling EXCEPT ![q] =
            IF kyc[q] \in {"NONE", "NOT_STARTED", "PENDING"} THEN "reset" ELSE "keep"]
    /\ UNCHANGED <<kyc, doc, type, approved, submitting, review>>

\* Slip: a profile that is written again starts from the column's default.
ProfileWriteRestarts(q) ==
    /\ profiling[q] # "idle"
    /\ kyc' = [kyc EXCEPT ![q] =
                IF kyc[q] = "NONE" THEN "PENDING"
                ELSE IF profiling[q] = "reset" THEN "NOT_STARTED" ELSE kyc[q]]
    /\ profiling' = [profiling EXCEPT ![q] = "idle"]
    /\ UNCHANGED <<doc, type, approved, submitting, review>>

\* The upsert and the commit.  Where the insert meets a profile, or the
\* update finds the status changed, what was read decides.
ProfileWrite(q) ==
    /\ profiling[q] # "idle"
    /\ kyc' = [kyc EXCEPT ![q] =
                IF kyc[q] = "NONE" \/ profiling[q] = "reset" THEN "PENDING" ELSE kyc[q]]
    /\ profiling' = [profiling EXCEPT ![q] = "idle"]
    /\ UNCHANGED <<doc, type, approved, submitting, review>>

\* The transaction fails or the server restarts: nothing was written.
ProfileFail(q) ==
    /\ profiling[q] # "idle"
    /\ profiling' = [profiling EXCEPT ![q] = "idle"]
    /\ UNCHANGED <<kyc, doc, type, approved, submitting, review>>

\* uploadDocument: a new row, whatever the customer's status.  The insert is
\* refused (P2002) where the customer has a document of the type, the rejected
\* ones included; no call deletes one.
UploadDocument(d, t) ==
    /\ doc[d] = "NONE"
    /\ ~HasDoc(Owner[d], {t})
    /\ doc' = [doc EXCEPT ![d] = "PENDING"]
    /\ type' = [type EXCEPT ![d] = t]
    /\ UNCHANGED <<kyc, approved, profiling, submitting, review>>

\* Slip: submission asks for the identity document only.
SubmitReadNoIncome(s, q) ==
    /\ submitting[s] = NoOne
    /\ kyc[q] \in {"PENDING", "REJECTED"}
    /\ HasDoc(q, IdentityTypes)
    /\ submitting' = [submitting EXCEPT ![s] = q]
    /\ UNCHANGED <<kyc, doc, type, approved, profiling, review>>

\* submitKycForReview: the checks.  A submission they refuse changes nothing.
SubmitRead(s, q) ==
    /\ submitting[s] = NoOne
    /\ kyc[q] \in {"PENDING", "REJECTED"}
    /\ HasDoc(q, IdentityTypes) /\ HasDoc(q, IncomeTypes)
    /\ submitting' = [submitting EXCEPT ![s] = q]
    /\ UNCHANGED <<kyc, doc, type, approved, profiling, review>>

\* ... and the write by customer id, whatever the status has become.
SubmitWrite(s) ==
    /\ submitting[s] # NoOne
    /\ kyc' = [kyc EXCEPT ![submitting[s]] = "UNDER_REVIEW"]
    /\ submitting' = [submitting EXCEPT ![s] = NoOne]
    /\ UNCHANGED <<doc, type, approved, profiling, review>>

-----------------------------------------------------------------------------
(* The admin *)

\* reviewDocument: the document exists; its status and the customer's are
\* not asked about.
ReviewStart(r, d, v) ==
    /\ review[r] = Idle
    /\ doc[d] # "NONE"
    /\ review' = [review EXCEPT ![r] = [Idle EXCEPT !.step = "write", !.doc = d, !.verdict = v]]
    /\ UNCHANGED <<kyc, doc, type, approved, profiling, submitting>>

\* Slip: a document an admin sends back is given the customer's status.
ReviewDocHolds(r) ==
    /\ review[r].step = "write"
    /\ doc' = [doc EXCEPT ![review[r].doc] =
            IF review[r].verdict = "PENDING" THEN "UNDER_REVIEW" ELSE review[r].verdict]
    /\ review' = [review EXCEPT ![r] = Idle]
    /\ UNCHANGED <<kyc, type, approved, profiling, submitting>>

\* The verdict is written to the document.
ReviewDoc(r) ==
    /\ review[r].step = "write"
    /\ doc' = [doc EXCEPT ![review[r].doc] = review[r].verdict]
    /\ review' = [review EXCEPT ![r] =
            IF @.verdict = "PENDING" THEN Idle
            ELSE [Idle EXCEPT !.step = IF review[r].verdict = "APPROVED" THEN "count" ELSE "reject",
                              !.doc = review[r].doc]]
    /\ UNCHANGED <<kyc, type, approved, profiling, submitting>>

\* updateKycStatus: fails where the customer has no profile.
SetKyc(q, s) == kyc' = IF kyc[q] = "NONE" THEN kyc ELSE [kyc EXCEPT ![q] = s]

\* Any rejection marks the customer REJECTED.
ReviewReject(r) ==
    /\ review[r].step = "reject"
    /\ SetKyc(Owner[review[r].doc], "REJECTED")
    /\ review' = [review EXCEPT ![r] = Idle]
    /\ UNCHANGED <<doc, type, approved, profiling, submitting>>

CountPending(r) ==
    /\ review[r].step = "count" /\ review[r].pending = "unread"
    /\ review' = [review EXCEPT ![r] =
            IF NoDocIs(Owner[@.doc], "PENDING") THEN [@ EXCEPT !.pending = "zero"] ELSE Idle]
    /\ UNCHANGED <<kyc, doc, type, approved, profiling, submitting>>

CountRejected(r) ==
    /\ review[r].step = "count" /\ review[r].rejected = "unread"
    /\ review' = [review EXCEPT ![r] =
            IF NoDocIs(Owner[@.doc], "REJECTED") THEN [@ EXCEPT !.rejected = "zero"] ELSE Idle]
    /\ UNCHANGED <<kyc, doc, type, approved, profiling, submitting>>

\* Slip: only a customer under review is approved.
ReviewApproveReviewed(r) ==
    /\ review[r].step = "count" /\ review[r].pending = "zero" /\ review[r].rejected = "zero"
    /\ kyc' = [kyc EXCEPT ![Owner[review[r].doc]] = IF @ = "UNDER_REVIEW" THEN "APPROVED" ELSE @]
    /\ review' = [review EXCEPT ![r] = Idle]
    /\ UNCHANGED <<doc, type, approved, profiling, submitting>>

\* Both counts were zero.
ReviewApprove(r) ==
    /\ review[r].step = "count" /\ review[r].pending = "zero" /\ review[r].rejected = "zero"
    /\ SetKyc(Owner[review[r].doc], "APPROVED")
    /\ review' = [review EXCEPT ![r] = Idle]
    /\ UNCHANGED <<doc, type, approved, profiling, submitting>>

\* createEligibilityDecision: a new row, the latest from now on.  The admin
\* sets its status and expiry freely.
CreateDecision(q, eligible) ==
    /\ approved' = IF eligible THEN approved \cup {q} ELSE approved \ {q}
    /\ UNCHANGED <<kyc, doc, type, profiling, submitting, review>>

\* Its expiresAt passes.
Lapse(q) ==
    /\ q \in approved
    /\ approved' = approved \ {q}
    /\ UNCHANGED <<kyc, doc, type, profiling, submitting, review>>

-----------------------------------------------------------------------------
ReviewStep(r) ==
    \/ ReviewDoc(r) \/ ReviewReject(r)
    \/ CountPending(r) \/ CountRejected(r) \/ ReviewApprove(r)

Next ==
    \/ \E q \in Customers : ProfileRead(q) \/ ProfileWrite(q) \/ ProfileFail(q) \/ Lapse(q)
    \/ \E q \in Customers, eligible \in BOOLEAN : CreateDecision(q, eligible)
    \/ \E d \in Docs, t \in DocTypes : UploadDocument(d, t)
    \/ \E s \in Submits, q \in Customers : SubmitRead(s, q)
    \/ \E s \in Submits : SubmitWrite(s)
    \/ \E r \in Reviews, d \in Docs, v \in Verdicts : ReviewStart(r, d, v)
    \/ \E r \in Reviews : ReviewStep(r)

Spec == Init /\ [][Next]_vars

\* A review that has begun goes on to its end.  Nobody has to begin one.
Fairness == \A r \in Reviews : WF_vars(ReviewStep(r))

FairSpec == Spec /\ Fairness

-----------------------------------------------------------------------------
(* Properties *)

\* A customer under review has an identity and an income document, although
\* submitKycForReview writes the status by id some time after it looked.
UnderReviewIsComplete ==
    \A q \in Customers : kyc[q] = "UNDER_REVIEW" => HasDoc(q, IdentityTypes) /\ HasDoc(q, IncomeTypes)

\* The strengthening that makes it inductive: what a submission has seen
\* stays there until it writes.
CompleteInv ==
    /\ UnderReviewIsComplete
    /\ \A s \in Submits, q \in Customers :
            submitting[s] = q => HasDoc(q, IdentityTypes) /\ HasDoc(q, IncomeTypes)

\* Only a decision, or its expiry, makes an eligible customer ineligible: no
\* rejection, new upload, rewritten profile or resubmission does, although
\* evaluateCustomerEligibility looks at all of them.
EligibilityIsDecided ==
    [][\A q \in Customers : Eligible(q) /\ ~Eligible(q)' => q \notin approved']_vars

\* The approval of a customer's last open document approves the customer:
\* reviews running at the same time do not each leave it to the other.
LastApprovalDecides ==
    \A q \in Customers, r \in Reviews :
        ( /\ review[r].step = "count" /\ Owner[review[r].doc] = q
          /\ review[r].pending = "unread" /\ review[r].rejected = "unread"
          /\ AllApproved(q) /\ kyc[q] # "NONE" )
        ~> (kyc[q] = "APPROVED" \/ ~AllApproved(q))
=============================================================================
