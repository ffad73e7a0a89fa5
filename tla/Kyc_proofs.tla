----------------------------- MODULE Kyc_proofs -----------------------------
(***************************************************************************)
(* Theorems about Kyc, for any customers, documents and calls in progress. *)
(* Every proof rests on one fact about the code, stated as lemma           *)
(* DocumentsStay: no step of any handler removes a document or changes its *)
(* type, so that what a call has seen of them still holds when it writes.  *)
(***************************************************************************)
EXTENDS Kyc, TLAPS

USE DEF KycStatuses, Verdicts, DocStatuses, DocTypes, ProfileSteps, Counts

\* The records a review moves through are well typed.
LEMMA ReviewTypes ==
    /\ Idle \in ReviewCalls
    /\ \A d \in Docs, v \in Verdicts :
            [Idle EXCEPT !.step = "write", !.doc = d, !.verdict = v] \in ReviewCalls
    /\ \A d \in Docs, s \in {"reject", "count"} :
            /\ [Idle EXCEPT !.step = s, !.doc = d] \in ReviewCalls
            /\ [Idle EXCEPT !.step = s, !.doc = d].doc = d
    /\ \A c \in ReviewCalls :
            /\ [c EXCEPT !.pending = "zero"] \in ReviewCalls
            /\ [c EXCEPT !.rejected = "zero"] \in ReviewCalls
            /\ [c EXCEPT !.pending = "zero"].doc = c.doc
            /\ [c EXCEPT !.rejected = "zero"].doc = c.doc
            /\ c.verdict \in Verdicts
BY DEF ReviewCalls, Idle

\* The document of a review in progress is a document.
LEMMA ReviewedDoc ==
    ASSUME TypeOK, NEW r \in Reviews, review[r].step # "idle"
    PROVE  review[r].doc \in Docs /\ Owner[review[r].doc] \in Customers
BY KycAssumption DEF TypeOK

\* Every reachable state of profiles, documents, decisions and calls is well
\* typed: the Prisma enums of kycStatus and of a document's status.
THEOREM TypeCorrect == Spec => []TypeOK
<1>1. Init => TypeOK
  <2> SUFFICES ASSUME Init PROVE TypeOK
    OBVIOUS
  <2>1. PICK s \in [Customers -> SeedStates] :
            /\ kyc = [q \in Customers |-> SeedKyc[s[q]]]
            /\ doc = [d \in Docs |-> SeedDoc(s[Owner[d]], Owner[d], d)]
            /\ type = [d \in Docs |-> SeedType(s[Owner[d]], Owner[d], d)]
    BY DEF Init
  <2>2. \A x \in SeedStates : SeedKyc[x] \in KycStatuses /\ (x # "new" => SeedKyc[x] \in Verdicts)
    BY DEF SeedStates, SeedKyc
  <2>3. kyc \in [Customers -> KycStatuses]
    BY <2>1, <2>2
  <2>4. doc \in [Docs -> DocStatuses] /\ type \in [Docs -> DocTypes]
    BY <2>1, <2>2, KycAssumption DEF SeedDoc, SeedType, IdentityTypes, IncomeTypes
  <2> QED BY <2>3, <2>4, ReviewTypes DEF Init, TypeOK, Idle
<1>2. TypeOK /\ [Next]_vars => TypeOK'
  <2> SUFFICES ASSUME TypeOK, [Next]_vars PROVE TypeOK'
    OBVIOUS
  <2> USE DEF TypeOK
  <2>1. ASSUME NEW q \in Customers, ProfileRead(q) PROVE TypeOK'
    BY <2>1 DEF ProfileRead
  <2>2. ASSUME NEW q \in Customers, ProfileWrite(q) PROVE TypeOK'
    BY <2>2 DEF ProfileWrite
  <2>3. ASSUME NEW q \in Customers, ProfileFail(q) PROVE TypeOK'
    BY <2>3 DEF ProfileFail
  <2>4. ASSUME NEW q \in Customers, Lapse(q) PROVE TypeOK'
    BY <2>4 DEF Lapse
  <2>5. ASSUME NEW q \in Customers, NEW e \in BOOLEAN, CreateDecision(q, e) PROVE TypeOK'
    BY <2>5 DEF CreateDecision
  <2>6. ASSUME NEW d \in Docs, NEW t \in DocTypes, UploadDocument(d, t) PROVE TypeOK'
    BY <2>6 DEF UploadDocument
  <2>7. ASSUME NEW s \in Submits, NEW q \in Customers, SubmitRead(s, q) PROVE TypeOK'
    BY <2>7 DEF SubmitRead
  <2>8. ASSUME NEW s \in Submits, SubmitWrite(s) PROVE TypeOK'
    BY <2>8 DEF SubmitWrite
  <2>9. ASSUME NEW r \in Reviews, NEW d \in Docs, NEW v \in Verdicts, ReviewStart(r, d, v)
        PROVE TypeOK'
    <3> DEFINE c == [Idle EXCEPT !.step = "write", !.doc = d, !.verdict = v]
    <3>1. c \in ReviewCalls /\ c.doc = d
      BY ReviewTypes DEF Idle
    <3> HIDE DEF c
    <3>2. review' = [review EXCEPT ![r] = c]
      BY <2>9 DEF ReviewStart, c
    <3> QED BY <2>9, <3>1, <3>2 DEF ReviewStart
  <2>10. ASSUME NEW r \in Reviews, ReviewDoc(r) PROVE TypeOK'
    <3>1. review[r].doc \in Docs /\ review[r].verdict \in Verdicts
      BY <2>10, ReviewedDoc, ReviewTypes DEF ReviewDoc
    <3>2. PICK c \in ReviewCalls : /\ review' = [review EXCEPT ![r] = c]
                                   /\ c.step # "idle" => c.doc \in Docs
      <4>1. CASE review[r].verdict = "REJECTED"
        <5>1. review' = [review EXCEPT ![r] = [Idle EXCEPT !.step = "reject", !.doc = review[r].doc]]
          BY <4>1, <2>10 DEF ReviewDoc
        <5> DEFINE c == [Idle EXCEPT !.step = "reject", !.doc = review[r].doc]
        <5>2. c \in ReviewCalls /\ c.doc \in Docs
          BY <3>1, ReviewTypes
        <5> HIDE DEF c
        <5>3. review' = [review EXCEPT ![r] = c]
          BY <5>1 DEF c
        <5> QED BY <5>2, <5>3
      <4>2. CASE review[r].verdict = "APPROVED"
        <5>1. review' = [review EXCEPT ![r] = [Idle EXCEPT !.step = "count", !.doc = review[r].doc]]
          BY <4>2, <2>10 DEF ReviewDoc
        <5> DEFINE c == [Idle EXCEPT !.step = "count", !.doc = review[r].doc]
        <5>2. c \in ReviewCalls /\ c.doc \in Docs
          BY <3>1, ReviewTypes
        <5> HIDE DEF c
        <5>3. review' = [review EXCEPT ![r] = c]
          BY <5>1 DEF c
        <5> QED BY <5>2, <5>3
      <4>3. CASE review[r].verdict = "PENDING"
        BY <4>3, <2>10, ReviewTypes DEF ReviewDoc, Idle
      <4> QED BY <3>1, <4>1, <4>2, <4>3
    <3> QED BY <2>10, <3>1, <3>2 DEF ReviewDoc
  <2>11. ASSUME NEW r \in Reviews, ReviewReject(r) \/ ReviewApprove(r) PROVE TypeOK'
    <3>1. review' = [review EXCEPT ![r] = Idle] /\ UNCHANGED <<doc, type, approved, profiling, submitting>>
      BY <2>11 DEF ReviewReject, ReviewApprove
    <3>2. kyc' \in [Customers -> KycStatuses]
      BY <2>11 DEF ReviewReject, ReviewApprove, SetKyc
    <3>3. review' \in [Reviews -> ReviewCalls]
      BY <3>1, ReviewTypes
    <3>4. \A x \in Reviews : review'[x].step # "idle" => review'[x].doc \in Docs
      BY <3>1 DEF Idle
    <3> QED BY <3>1, <3>2, <3>3, <3>4
  <2>12. ASSUME NEW r \in Reviews, CountPending(r) \/ CountRejected(r) PROVE TypeOK'
    <3>1. /\ review[r] \in ReviewCalls /\ review[r].doc \in Docs
          /\ review \in [Reviews -> ReviewCalls]
          /\ \A x \in Reviews : review[x].step # "idle" => review[x].doc \in Docs
      <4>1. review[r].step # "idle"
        BY <2>12 DEF CountPending, CountRejected
      <4>2. review[r].doc \in Docs
        BY <2>12, <4>1
      <4>3. review[r] \in ReviewCalls
        BY <2>12
      <4> QED BY <4>2, <4>3
    <3>2. UNCHANGED <<kyc, doc, type, approved, profiling, submitting>>
      BY <2>12 DEF CountPending, CountRejected
    <3> HIDE DEF TypeOK
    <3> DEFINE Typed == /\ review' \in [Reviews -> ReviewCalls]
                        /\ \A x \in Reviews : review'[x].step # "idle" => review'[x].doc \in Docs
    <3>3. ASSUME NEW c \in ReviewCalls, c.step # "idle" => c.doc \in Docs,
                 review' = [review EXCEPT ![r] = c]
          PROVE  Typed
      BY <2>12, <3>1, <3>3
    <3>4. ASSUME review' = [review EXCEPT ![r] = Idle] PROVE Typed
      <4>1. Idle \in ReviewCalls /\ Idle.step = "idle"
        BY ReviewTypes DEF Idle
      <4> HIDE DEF Typed
      <4> QED BY <3>3, <3>4, <4>1
    <3>5. ASSUME review' = [review EXCEPT ![r] = [review[r] EXCEPT !.pending = "zero"]] PROVE Typed
      <4> DEFINE c == [review[r] EXCEPT !.pending = "zero"]
      <4>1. c \in ReviewCalls /\ c.doc \in Docs
        BY <3>1, ReviewTypes
      <4>2. review' = [review EXCEPT ![r] = c]
        BY <3>5
      <4> HIDE DEF c, Typed
      <4> QED BY <3>3, <4>1, <4>2
    <3>6. ASSUME review' = [review EXCEPT ![r] = [review[r] EXCEPT !.rejected = "zero"]] PROVE Typed
      <4> DEFINE c == [review[r] EXCEPT !.rejected = "zero"]
      <4>1. c \in ReviewCalls /\ c.doc \in Docs
        BY <3>1, ReviewTypes
      <4>2. review' = [review EXCEPT ![r] = c]
        BY <3>6
      <4> HIDE DEF c, Typed
      <4> QED BY <3>3, <4>1, <4>2
    <3>7. Typed
      <4> HIDE DEF Typed
      <4> QED BY <2>12, <3>4, <3>5, <3>6 DEF CountPending, CountRejected
    <3> QED BY <3>2, <3>7 DEF TypeOK
  <2>13. CASE UNCHANGED vars
    BY <2>13 DEF vars
  <2> QED BY <2>1, <2>2, <2>3, <2>4, <2>5, <2>6, <2>7, <2>8, <2>9, <2>10, <2>11, <2>12, <2>13
          DEF Next, ReviewStep
<1> QED BY <1>1, <1>2, PTL DEF Spec

-----------------------------------------------------------------------------
\* No handler deletes a document or changes its type, and none takes a
\* customer's profile away or back to NOT_STARTED.
LEMMA DocumentsStay ==
    ASSUME TypeOK, [Next]_vars
    PROVE  /\ \A d \in Docs : doc[d] # "NONE" => doc'[d] # "NONE" /\ type'[d] = type[d]
           /\ \A q \in Customers : kyc[q] \notin {"NONE", "NOT_STARTED"}
                                        => kyc'[q] \notin {"NONE", "NOT_STARTED"}
<1> USE DEF TypeOK
<1>1. CASE UNCHANGED <<kyc, doc, type>>
  BY <1>1
<1>2. ASSUME NEW q \in Customers, ProfileWrite(q) PROVE UNCHANGED <<doc, type>> /\
        \A p \in Customers : kyc[p] \notin {"NONE", "NOT_STARTED"}
                                => kyc'[p] \notin {"NONE", "NOT_STARTED"}
  BY <1>2 DEF ProfileWrite
<1>3. ASSUME NEW d \in Docs, NEW t \in DocTypes, UploadDocument(d, t) PROVE UNCHANGED kyc /\
        \A e \in Docs : doc[e] # "NONE" => doc'[e] # "NONE" /\ type'[e] = type[e]
  BY <1>3 DEF UploadDocument
<1>4. ASSUME NEW s \in Submits, SubmitWrite(s) PROVE UNCHANGED <<doc, type>> /\
        \A p \in Customers : kyc[p] \notin {"NONE", "NOT_STARTED"}
                                => kyc'[p] \notin {"NONE", "NOT_STARTED"}
  BY <1>4 DEF SubmitWrite
<1>5. ASSUME NEW r \in Reviews, ReviewDoc(r) PROVE UNCHANGED <<kyc, type>> /\
        \A e \in Docs : doc[e] # "NONE" => doc'[e] # "NONE"
  BY <1>5, ReviewTypes DEF ReviewDoc
<1>6. ASSUME NEW r \in Reviews, ReviewReject(r) \/ ReviewApprove(r) PROVE
        UNCHANGED <<doc, type>> /\
        \A p \in Customers : kyc[p] \notin {"NONE", "NOT_STARTED"}
                                => kyc'[p] \notin {"NONE", "NOT_STARTED"}
  <2>1. Owner[review[r].doc] \in Customers
    BY <1>6, ReviewedDoc DEF ReviewReject, ReviewApprove
  <2> QED BY <1>6, <2>1 DEF ReviewReject, ReviewApprove, SetKyc
<1> QED
  BY <1>1, <1>2, <1>3, <1>4, <1>5, <1>6
     DEF Next, ReviewStep, vars, ProfileRead, ProfileFail, Lapse, CreateDecision, SubmitRead,
         ReviewStart, CountPending, CountRejected

\* What a customer has uploaded stays uploaded.
LEMMA HasDocStays ==
    ASSUME TypeOK, [Next]_vars, NEW q \in Customers, NEW T, HasDoc(q, T)
    PROVE  HasDoc(q, T)'
BY DocumentsStay DEF HasDoc, DocsOf

\* A customer under review has the documents submitKycForReview asks for.
THEOREM ReviewedAreComplete == Spec => []UnderReviewIsComplete
<1> DEFINE Both(q) == HasDoc(q, IdentityTypes) /\ HasDoc(q, IncomeTypes)
<1>1. Init => CompleteInv
  <2> SUFFICES ASSUME Init PROVE CompleteInv
    OBVIOUS
  <2>1. \A x \in SeedStates : SeedKyc[x] # "UNDER_REVIEW"
    BY DEF SeedStates, SeedKyc
  <2>2. \A q \in Customers : kyc[q] # "UNDER_REVIEW"
    BY <2>1 DEF Init
  <2>3. \A s \in Submits : submitting[s] \notin Customers
    BY KycAssumption DEF Init
  <2> QED BY <2>2, <2>3 DEF CompleteInv, UnderReviewIsComplete
<1>2. TypeOK /\ TypeOK' /\ CompleteInv /\ [Next]_vars => CompleteInv'
  <2> SUFFICES ASSUME TypeOK, TypeOK', CompleteInv, [Next]_vars PROVE CompleteInv'
    OBVIOUS
  <2>1. \A q \in Customers : Both(q) => Both(q)'
    BY HasDocStays
  <2>2. \A q \in Customers : kyc'[q] = "UNDER_REVIEW" /\ kyc[q] # "UNDER_REVIEW"
            => \E s \in Submits : submitting[s] = q
    <3> SUFFICES ASSUME NEW q \in Customers, kyc'[q] = "UNDER_REVIEW", kyc[q] # "UNDER_REVIEW"
                 PROVE  \E s \in Submits : submitting[s] = q
      OBVIOUS
    <3>1. ASSUME NEW r \in Reviews, ReviewReject(r) \/ ReviewApprove(r) PROVE FALSE
      BY <3>1 DEF ReviewReject, ReviewApprove, SetKyc, TypeOK
    <3>2. ASSUME NEW p \in Customers, ProfileWrite(p) PROVE FALSE
      BY <3>2 DEF ProfileWrite, TypeOK
    <3>3. ASSUME NEW s \in Submits, SubmitWrite(s) PROVE submitting[s] = q
      BY <3>3 DEF SubmitWrite, TypeOK
    <3>4. kyc' # kyc
      OBVIOUS
    <3> QED
      BY <3>1, <3>2, <3>3, <3>4
         DEF Next, ReviewStep, vars, ProfileRead, ProfileFail, Lapse, CreateDecision,
             UploadDocument, SubmitRead, ReviewStart, ReviewDoc, CountPending, CountRejected
  <2>3. \A s \in Submits : submitting'[s] # NoOne /\ submitting'[s] # submitting[s]
            => submitting'[s] \in Customers /\ Both(submitting'[s])
    <3>1. ASSUME NEW u \in Submits, NEW q \in Customers, SubmitRead(u, q)
          PROVE  Both(q) /\ submitting' = [submitting EXCEPT ![u] = q]
      BY <3>1 DEF SubmitRead
    <3>2. ASSUME NEW u \in Submits, SubmitWrite(u)
          PROVE  submitting' = [submitting EXCEPT ![u] = NoOne]
      BY <3>2 DEF SubmitWrite
    <3>3. \/ UNCHANGED submitting
          \/ \E u \in Submits, q \in Customers : SubmitRead(u, q)
          \/ \E u \in Submits : SubmitWrite(u)
      BY DEF Next, ReviewStep, vars, ProfileRead, ProfileWrite, ProfileFail, Lapse,
             CreateDecision, UploadDocument, ReviewStart, ReviewDoc, ReviewReject, CountPending,
             CountRejected, ReviewApprove
    <3> HIDE DEF Both
    <3> QED BY <3>1, <3>2, <3>3 DEF TypeOK
  <2>4. ASSUME NEW s \in Submits, NEW q \in Customers, submitting'[s] = q PROVE Both(q)'
    <3>1. Both(q)
      BY <2>3, <2>4, KycAssumption DEF CompleteInv
    <3> QED BY <2>1, <3>1
  <2>5. ASSUME NEW q \in Customers, kyc'[q] = "UNDER_REVIEW" PROVE Both(q)'
    <3>1. Both(q)
      BY <2>2, <2>5 DEF CompleteInv, UnderReviewIsComplete
    <3> QED BY <2>1, <3>1
  <2> QED BY <2>4, <2>5 DEF CompleteInv, UnderReviewIsComplete
<1>3. CompleteInv => UnderReviewIsComplete
  BY DEF CompleteInv
<1> QED BY <1>1, <1>2, <1>3, TypeCorrect, PTL DEF Spec

\* An eligible customer stays eligible until a decision says otherwise or
\* expires, whatever happens to profile and documents.
THEOREM OnlyDecisionsEndEligibility == Spec => EligibilityIsDecided
<1>1. TypeOK /\ [Next]_vars =>
        \A q \in Customers : Eligible(q) /\ ~Eligible(q)' => q \notin approved'
  <2> SUFFICES ASSUME TypeOK, [Next]_vars, NEW q \in Customers, Eligible(q), q \in approved'
               PROVE  Eligible(q)'
    OBVIOUS
  <2>1. kyc[q] \notin {"NONE", "NOT_STARTED"} /\ HasDoc(q, IdentityTypes) /\ HasDoc(q, IncomeTypes)
    BY DEF Eligible, MissingSteps
  <2>2. HasDoc(q, IdentityTypes)' /\ HasDoc(q, IncomeTypes)'
    BY <2>1, HasDocStays
  <2>3. kyc'[q] \notin {"NONE", "NOT_STARTED"}
    BY <2>1, DocumentsStay
  <2> QED BY <2>2, <2>3 DEF Eligible, MissingSteps
<1> QED BY <1>1, TypeCorrect, PTL DEF Spec, EligibilityIsDecided

-----------------------------------------------------------------------------
(* The last approval *)

\* A count is as it was, or has found that no document is in its status.
CountGoesOn(r) ==
    review'[r] \in {review[r], [review[r] EXCEPT !.pending = "zero"],
                    [review[r] EXCEPT !.rejected = "zero"]}

\* The safety half of LastApprovalDecides: while all documents of a customer
\* with a profile are approved, no step takes from a review that counts them
\* what it has found, or ends it, except the one that approves the customer.
LastApprovalIsKept ==
    [][\A q \in Customers, r \in Reviews :
            review[r].step = "count" /\ Owner[review[r].doc] = q /\ AllApproved(q) /\ kyc[q] # "NONE"
                => CountGoesOn(r) \/ (review'[r] = Idle /\ kyc'[q] = "APPROVED")]_vars

\* Only its own next statement moves a review that counts.
LEMMA CountsAreLeftAlone ==
    ASSUME TypeOK, [Next]_vars, NEW r \in Reviews, review[r].step = "count"
    PROVE  review'[r] = review[r] \/ CountPending(r) \/ CountRejected(r) \/ ReviewApprove(r)
<1>1. ASSUME NEW s \in Reviews, NEW d \in Docs, NEW v \in Verdicts, ReviewStart(s, d, v)
      PROVE  review'[r] = review[r]
  BY <1>1 DEF ReviewStart, Idle, TypeOK
<1>2. ASSUME NEW s \in Reviews, ReviewDoc(s) PROVE review'[r] = review[r]
  BY <1>2 DEF ReviewDoc, TypeOK
<1>3. ASSUME NEW s \in Reviews, ReviewReject(s) PROVE review'[r] = review[r]
  BY <1>3 DEF ReviewReject, TypeOK
<1>4. ASSUME NEW s \in Reviews, s # r, CountPending(s) \/ CountRejected(s) \/ ReviewApprove(s)
      PROVE  review'[r] = review[r]
  BY <1>4 DEF CountPending, CountRejected, ReviewApprove, TypeOK
<1>5. \/ review' = review
      \/ \E s \in Reviews, d \in Docs, v \in Verdicts : ReviewStart(s, d, v)
      \/ \E s \in Reviews : ReviewStep(s)
  BY DEF Next, vars, ProfileRead, ProfileWrite, ProfileFail, Lapse, CreateDecision,
         UploadDocument, SubmitRead, SubmitWrite
<1> QED
  BY <1>1, <1>2, <1>3, <1>4, <1>5 DEF ReviewStep

\* Approving the last open document approves the customer, unless a document
\* changes in between: the counts of concurrent reviews never undo each other.
THEOREM LastApprovalNotDropped == Spec => LastApprovalIsKept
<1>1. TypeOK /\ [Next]_vars =>
        \A q \in Customers, r \in Reviews :
            review[r].step = "count" /\ Owner[review[r].doc] = q /\ AllApproved(q) /\ kyc[q] # "NONE"
                => CountGoesOn(r) \/ (review'[r] = Idle /\ kyc'[q] = "APPROVED")
  <2> SUFFICES ASSUME TypeOK, [Next]_vars, NEW q \in Customers, NEW r \in Reviews,
                      review[r].step = "count", Owner[review[r].doc] = q, AllApproved(q),
                      kyc[q] # "NONE"
               PROVE  CountGoesOn(r) \/ (review'[r] = Idle /\ kyc'[q] = "APPROVED")
    OBVIOUS
  <2>1. NoDocIs(q, "PENDING") /\ NoDocIs(q, "REJECTED")
    BY DEF AllApproved, NoDocIs
  <2>2. CASE CountPending(r)
    <3>1. review' = [review EXCEPT ![r] = [review[r] EXCEPT !.pending = "zero"]]
      BY <2>1, <2>2 DEF CountPending
    <3> QED
      BY <3>1 DEF CountGoesOn, TypeOK
  <2>3. CASE CountRejected(r)
    <3>1. review' = [review EXCEPT ![r] = [review[r] EXCEPT !.rejected = "zero"]]
      BY <2>1, <2>3 DEF CountRejected
    <3> QED
      BY <3>1 DEF CountGoesOn, TypeOK
  <2>4. CASE ReviewApprove(r)
    BY <2>4 DEF ReviewApprove, SetKyc, TypeOK
  <2> QED
    BY <2>2, <2>3, <2>4, CountsAreLeftAlone DEF CountGoesOn
<1> QED
  BY <1>1, TypeCorrect, PTL DEF Spec, LastApprovalIsKept
=============================================================================
