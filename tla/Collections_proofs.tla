-------------------------- MODULE Collections_proofs --------------------------
(* What Collections guarantees for every number of instalments, transactions, *)
(* calls and failures.                                                        *)
EXTENDS Collections, TLAPS

LEMMA InitIInv == Init => IInv
<1> SUFFICES ASSUME Init PROVE IInv
  OBVIOUS
<1>1. TypeOK
  BY DEF Init, TypeOK, TxStatuses, ProofStatuses, Steps
<1>2. RowInv /\ CallInv
  BY DEF Init, RowInv, CallInv
<1>3. PostedIsTaken /\ CardSettledIsPosted /\ PaidIsPosted /\ SettledGetsPaid /\ RetryScheduled
  BY DEF Init, PostedIsTaken, CardSettledIsPosted, PaidIsPosted, SettledGetsPaid, RetryScheduled
<1> QED
  BY <1>1, <1>2, <1>3 DEF IInv

-----------------------------------------------------------------------------
(* Types *)

LEMMA NextTypes == IInv /\ [Next]_vars => TypeOK'
<1> SUFFICES ASSUME IInv, [Next]_vars PROVE TypeOK'
  OBVIOUS
<1>0. TypeOK /\ \A w \in Calls : pc[w] # "idle" => on[w] \in Txs
  BY DEF IInv, CallInv
<1> USE <1>0 DEF TypeOK, instVars, txVars, fixed, callVars, Goto, Return, Begin, SetTx, InstOf
<1>1. ASSUME NEW w \in Calls, Continue(w) PROVE TypeOK'
  <2>1. CASE CreateTx(w)
    BY <2>1 DEF CreateTx, TxStatuses, Steps
  <2>2. CASE Charge(w)
    BY <2>2 DEF Charge, Steps
  <2>3. CASE MarkPending(w) \/ MarkFailed(w)
    <3>1. on[w] \in Txs
      BY <2>3 DEF MarkPending, MarkFailed
    <3>2. hasRef' \in SUBSET Txs
      BY <2>3, <3>1 DEF MarkPending, MarkFailed, StoreRef
    <3> QED
      BY <2>3, <3>1, <3>2 DEF MarkPending, MarkFailed, TxStatuses, Steps
  <2>4. CASE ScheduleRetry(w) \/ MarkOverdue(w)
    BY <2>4 DEF ScheduleRetry, MarkOverdue, Steps
  <2>5. CASE PostRead(w)
    BY <2>5 DEF PostRead, Steps
  <2>6. CASE PostLedger(w)
    BY <2>6 DEF PostLedger, Steps
  <2>7. CASE PostSettle(w) \/ PostPaid(w)
    BY <2>7 DEF PostSettle, PostPaid, TxStatuses, Steps
  <2>8. CASE RecordFailed(w) \/ SubmitProof(w) \/ ReviewTx(w)
    BY <2>8 DEF RecordFailed, SubmitProof, ReviewTx, TxStatuses, ProofStatuses, Steps
  <2> QED
    BY <1>1, <2>1, <2>2, <2>3, <2>4, <2>5, <2>6, <2>7, <2>8 DEF Continue
<1>2. ASSUME NEW w \in Calls, ChargeLost(w) \/ Fail(w) PROVE TypeOK'
  BY <1>2 DEF ChargeLost, Fail, Steps
<1>3. ASSUME NEW w \in Requests, NEW t \in Txs, Collect(w, t) PROVE TypeOK'
  BY <1>3 DEF Collect, Calls, Steps
<1>4. ASSUME NEW w \in Requests, NEW t \in Txs, Webhook(w, t) \/ SubmitRead(w, t) PROVE TypeOK'
  BY <1>4 DEF Webhook, SubmitRead, Calls, Steps
<1>5. ASSUME NEW w \in Requests, NEW t \in Txs, ReviewProof(w, t) PROVE TypeOK'
  BY <1>5 DEF ReviewProof, Calls, Steps, ProofStatuses
<1>6. ASSUME NEW t \in Txs, Reconcile(t) \/ Hold(t) PROVE TypeOK'
  BY <1>6 DEF Reconcile, Hold, Calls, Steps, TxStatuses
<1>7. CASE UNCHANGED vars
  BY <1>7 DEF vars
<1> QED
  BY <1>1, <1>2, <1>3, <1>4, <1>5, <1>6, <1>7 DEF Next

-----------------------------------------------------------------------------
(* Calls in progress *)

LEMMA NextCalls == IInv /\ [Next]_vars => RowInv' /\ CallInv'
<1> SUFFICES ASSUME IInv, [Next]_vars PROVE RowInv' /\ CallInv'
  OBVIOUS
<1>0. TypeOK /\ RowInv /\ CallInv /\ RetryScheduled
  BY DEF IInv
<1> USE CollectionsAssumption
<1> USE <1>0 DEF TypeOK, RowInv, CallInv, SoleCall,
                 instVars, txVars, fixed, callVars, Goto, Return, Begin, SetTx, InstOf
<1>1. ASSUME NEW w \in Calls, Continue(w) PROVE RowInv' /\ CallInv'
  <2>1. CASE CreateTx(w)
    BY <2>1 DEF CreateTx
  <2>2. CASE Charge(w)
    BY <2>2 DEF Charge
  <2>3. CASE MarkPending(w)
    BY <2>3 DEF MarkPending
  <2>4. CASE MarkFailed(w)
    BY <2>4 DEF MarkFailed
  <2>5. CASE ScheduleRetry(w) \/ MarkOverdue(w)
    BY <2>5 DEF ScheduleRetry, MarkOverdue
  <2>6. CASE PostRead(w)
    BY <2>6 DEF PostRead
  <2>7. CASE PostLedger(w)
    BY <2>7 DEF PostLedger
  <2>8. CASE PostSettle(w)
    BY <2>8 DEF PostSettle
  <2>9. CASE PostPaid(w)
    BY <2>9 DEF PostPaid
  <2>10. CASE RecordFailed(w) \/ ReviewTx(w)
    BY <2>10 DEF RecordFailed, ReviewTx
  <2>11. CASE SubmitProof(w)
    BY <2>11 DEF SubmitProof
  <2> QED
    BY <1>1, <2>1, <2>2, <2>3, <2>4, <2>5, <2>6, <2>7, <2>8, <2>9, <2>10, <2>11 DEF Continue
<1>2. ASSUME NEW w \in Calls, ChargeLost(w) \/ Fail(w) PROVE RowInv' /\ CallInv'
  BY <1>2 DEF ChargeLost, Fail
<1>3. ASSUME NEW w \in Requests, NEW t \in Txs, Collect(w, t) PROVE RowInv' /\ CallInv'
  <2>1. RowInv'
    BY <1>3 DEF Collect
  <2>2. CallInv'
    BY <1>3 DEF Collect, Calls, Fresh
  <2> HIDE DEF RowInv, CallInv
  <2> QED
    BY <2>1, <2>2
<1>4. ASSUME NEW w \in Requests, NEW t \in Txs, Webhook(w, t) PROVE RowInv' /\ CallInv'
  <2>1. RowInv'
    BY <1>4 DEF Webhook
  <2>2. CallInv'
    BY <1>4 DEF Webhook, Calls
  <2> HIDE DEF RowInv, CallInv
  <2> QED
    BY <2>1, <2>2
<1>5. ASSUME NEW w \in Requests, NEW t \in Txs, SubmitRead(w, t) PROVE RowInv' /\ CallInv'
  <2>1. RowInv'
    BY <1>5 DEF SubmitRead
  <2>2. CallInv'
    BY <1>5 DEF SubmitRead, Calls, Fresh
  <2> HIDE DEF RowInv, CallInv
  <2> QED
    BY <2>1, <2>2
<1>6. ASSUME NEW w \in Requests, NEW t \in Txs, ReviewProof(w, t) PROVE RowInv' /\ CallInv'
  <2>1. RowInv'
    BY <1>6 DEF ReviewProof
  <2>2. CallInv'
    BY <1>6 DEF ReviewProof, Calls
  <2> HIDE DEF RowInv, CallInv
  <2> QED
    BY <2>1, <2>2
<1>7. ASSUME NEW t \in Txs, Reconcile(t) PROVE RowInv' /\ CallInv'
  BY <1>7 DEF Reconcile, Calls
<1>8. ASSUME NEW t \in Txs, Hold(t) PROVE RowInv' /\ CallInv'
  BY <1>8 DEF Hold
<1>9. CASE UNCHANGED vars
  BY <1>9 DEF vars
<1> QED
  BY <1>1, <1>2, <1>3, <1>4, <1>5, <1>6, <1>7, <1>8, <1>9 DEF Next

-----------------------------------------------------------------------------
(* The ledger, the gateway and the statuses *)

\* The gateway decides about a transaction once, and ledger entries stay.
LEMMA NothingTakenBack ==
    ASSUME IInv, [Next]_vars, NEW t \in Txs
    PROVE  /\ posted'[t] >= posted[t]
           /\ money[t] # "none" => money'[t] = money[t]
           /\ posted'[t] > posted[t] => money[t] = "taken"
<1>0. TypeOK /\ CallInv
  BY DEF IInv
<1> USE <1>0 DEF TypeOK, instVars, txVars, fixed, callVars
<1>1. ASSUME NEW w \in Calls, Continue(w) \/ ChargeLost(w)
      PROVE  /\ posted'[t] >= posted[t]
             /\ money[t] # "none" => money'[t] = money[t]
             /\ posted'[t] > posted[t] => money[t] = "taken"
  <2>1. CASE Charge(w) \/ ChargeLost(w)
    BY <2>1 DEF Charge, ChargeLost, CallInv
  <2>2. CASE PostLedger(w)
    BY <2>2 DEF PostLedger, CallInv
  <2>3. CASE UNCHANGED <<posted, money>>
    BY <2>3
  <2> QED
    BY <1>1, <2>1, <2>2, <2>3
       DEF Continue, CreateTx, MarkPending, MarkFailed, ScheduleRetry, MarkOverdue,
           PostRead, PostSettle, PostPaid, RecordFailed, SubmitProof, ReviewTx
<1>2. CASE UNCHANGED <<posted, money>>
  BY <1>2
<1> QED
  BY <1>1, <1>2 DEF Next, vars, Fail, Collect, Webhook, SubmitRead, ReviewProof, Reconcile, Hold

LEMMA NextPostings == IInv /\ [Next]_vars => PostedIsTaken'
<1> SUFFICES ASSUME IInv, [Next]_vars, NEW t \in Txs, posted'[t] > 0
             PROVE  money'[t] = "taken"
  BY DEF PostedIsTaken
<1>1. posted[t] \in Nat /\ posted'[t] \in Nat /\ (posted[t] > 0 => money[t] = "taken")
  BY NextTypes DEF IInv, TypeOK, PostedIsTaken
<1> QED
  BY <1>1, NothingTakenBack

\* A transaction becomes SETTLED, or ceases to be a card transaction, only so.
LEMMA NextSettled == IInv /\ [Next]_vars => CardSettledIsPosted'
<1> SUFFICES ASSUME IInv, [Next]_vars, NEW t \in Txs, tx'[t] = "SETTLED", proof'[t] = "NONE"
             PROVE  posted'[t] > 0
  BY DEF CardSettledIsPosted
<1>0. TypeOK /\ CallInv /\ CardSettledIsPosted
  BY DEF IInv
<1>1. posted[t] \in Nat /\ posted'[t] \in Nat /\ posted'[t] >= posted[t]
  BY <1>0, NextTypes, NothingTakenBack DEF TypeOK
<1>2. CASE tx[t] = "SETTLED" /\ proof[t] = "NONE"
  BY <1>0, <1>1, <1>2 DEF CardSettledIsPosted
<1>3. CASE ~(tx[t] = "SETTLED" /\ proof[t] = "NONE")
  <2> USE <1>0, <1>1, <1>3 DEF TypeOK, instVars, txVars, fixed, SetTx
  <2>1. ASSUME NEW w \in Calls, Continue(w) PROVE posted'[t] > 0
    <3>1. CASE PostSettle(w)
      BY <3>1 DEF PostSettle, CallInv
    <3>2. CASE ReviewTx(w)
      BY <3>2 DEF ReviewTx, CallInv
    <3>3. CASE SubmitProof(w)
      BY <3>3 DEF SubmitProof, CallInv
    <3>4. CASE CreateTx(w) \/ MarkPending(w) \/ MarkFailed(w) \/ RecordFailed(w)
      BY <3>4 DEF CreateTx, MarkPending, MarkFailed, RecordFailed
    <3> QED
      BY <2>1, <3>1, <3>2, <3>3, <3>4
         DEF Continue, Charge, ScheduleRetry, MarkOverdue, PostRead, PostLedger, PostPaid
  <2>2. ASSUME NEW w \in Requests, NEW u \in Txs, ReviewProof(w, u) PROVE posted'[t] > 0
    BY <2>2 DEF ReviewProof
  <2>3. ASSUME NEW u \in Txs, Hold(u) PROVE posted'[t] > 0
    BY <2>3 DEF Hold
  <2> QED
    BY <2>1, <2>2, <2>3 DEF Next, vars, ChargeLost, Fail, Collect, Webhook, SubmitRead, Reconcile
<1> QED
  BY <1>2, <1>3

\* No step changes which instalment a transaction is for.
LEMMA LinksStay == [Next]_vars => txInst' = txInst
<1> SUFFICES ASSUME [Next]_vars PROVE txInst' = txInst
  OBVIOUS
<1> USE DEF fixed
<1>1. ASSUME NEW w \in Calls, Continue(w) PROVE txInst' = txInst
  <2>1. CASE CreateTx(w) \/ Charge(w) \/ MarkPending(w) \/ MarkFailed(w) \/ ScheduleRetry(w)
    BY <2>1 DEF CreateTx, Charge, MarkPending, MarkFailed, ScheduleRetry
  <2>2. CASE MarkOverdue(w) \/ RecordFailed(w) \/ SubmitProof(w) \/ ReviewTx(w)
    BY <2>2 DEF MarkOverdue, RecordFailed, SubmitProof, ReviewTx
  <2>3. CASE PostRead(w) \/ PostLedger(w) \/ PostSettle(w) \/ PostPaid(w)
    BY <2>3 DEF PostRead, PostLedger, PostSettle, PostPaid
  <2> QED
    BY <1>1, <2>1, <2>2, <2>3 DEF Continue
<1>2. ASSUME NEW w \in Calls, ChargeLost(w) \/ Fail(w) PROVE txInst' = txInst
  BY <1>2 DEF ChargeLost, Fail
<1>3. ASSUME NEW w \in Calls, NEW t \in Txs,
             Collect(w, t) \/ Webhook(w, t) \/ SubmitRead(w, t) \/ ReviewProof(w, t)
      PROVE  txInst' = txInst
  BY <1>3 DEF Collect, Webhook, SubmitRead, ReviewProof
<1>4. ASSUME NEW t \in Txs, Reconcile(t) \/ Hold(t) PROVE txInst' = txInst
  BY <1>4 DEF Reconcile, Hold
<1>5. CASE UNCHANGED vars
  BY <1>5 DEF vars
<1> HIDE DEF fixed
<1> QED
  BY <1>1, <1>2, <1>3, <1>4, <1>5 DEF Next, Calls

\* An instalment becomes PAID only by postInstallmentCollection.
LEMMA NextPaid == IInv /\ [Next]_vars => PaidIsPosted'
<1> SUFFICES ASSUME IInv, [Next]_vars, NEW i \in Installments, inst'[i] = "PAID"
             PROVE  \E t \in Txs : txInst'[t] = i /\ posted'[t] > 0
  BY DEF PaidIsPosted
<1>0. TypeOK /\ CallInv /\ PaidIsPosted
  BY DEF IInv
<1>1. \A t \in Txs : posted[t] \in Nat /\ posted'[t] \in Nat /\ posted'[t] >= posted[t]
  BY <1>0, NextTypes, NothingTakenBack DEF TypeOK
<1> USE DEF instVars, txVars, fixed
<1>2. txInst' = txInst
  BY LinksStay
<1>3. CASE inst[i] = "PAID"
  <2>1. PICK t \in Txs : txInst[t] = i /\ posted[t] > 0
    BY <1>0, <1>3 DEF PaidIsPosted
  <2> QED
    BY <1>1, <1>2, <2>1
<1>4. ASSUME NEW w \in Calls, PostPaid(w), inst[i] # "PAID"
      PROVE  \E t \in Txs : txInst'[t] = i /\ posted'[t] > 0
  <2>1. on[w] \in Txs /\ posted[on[w]] > 0 /\ txInst[on[w]] = i
    BY <1>0, <1>4 DEF PostPaid, CallInv, InstOf, TypeOK
  <2> QED
    BY <1>1, <1>2, <2>1
<1>5. ASSUME NEW w \in Calls, MarkOverdue(w), inst[i] # "PAID" PROVE FALSE
  BY <1>0, <1>5 DEF MarkOverdue, TypeOK
<1> QED
  BY <1>3, <1>4, <1>5
     DEF Next, vars, Continue, CreateTx, Charge, MarkPending, MarkFailed, ScheduleRetry,
         PostRead, PostLedger, PostSettle, RecordFailed, SubmitProof, ReviewTx,
         ChargeLost, Fail, Collect, Webhook, SubmitRead, ReviewProof, Reconcile, Hold

\* Until a call dies, whoever settles a transaction goes on to its instalment.
LEMMA NextGetsPaid == IInv /\ [Next]_vars => SettledGetsPaid'
<1> SUFFICES ASSUME IInv, [Next]_vars, NEW t \in Txs,
                    failures' = 0, tx'[t] = "SETTLED", proof'[t] = "NONE",
                    inst'[txInst'[t]] = "PENDING"
             PROVE  \E w \in Calls : pc'[w] = "paid" /\ txInst'[on'[w]] = txInst'[t]
  BY DEF SettledGetsPaid, InstOf
<1>0. TypeOK /\ CallInv /\ SettledGetsPaid
  BY DEF IInv
<1> USE DEF instVars, txVars, fixed, callVars, SetTx, Goto, Return, Begin, InstOf
<1>1. txInst' = txInst
  BY LinksStay
<1> DEFINE Paying(w) == pc[w] = "paid" /\ txInst[on[w]] = txInst[t]
<1>2. ASSUME NEW w \in Calls, Continue(w)
      PROVE  \E v \in Calls : pc'[v] = "paid" /\ txInst'[on'[v]] = txInst'[t]
  <2>1. CASE PostSettle(w) /\ on[w] = t
    BY <1>0, <1>1, <2>1 DEF PostSettle, TypeOK
  <2>2. CASE PostPaid(w)
    <3>1. txInst[on[w]] # txInst[t] /\ inst[txInst[t]] = "PENDING" /\ tx' = tx /\ proof' = proof
      BY <1>0, <1>1, <2>2 DEF PostPaid, TypeOK, CallInv
    <3>2. failures = 0
      BY <2>2 DEF PostPaid
    <3>3. PICK v \in Calls : Paying(v)
      BY <1>0, <1>1, <3>1, <3>2 DEF SettledGetsPaid
    <3>4. v # w
      BY <3>1, <3>3
    <3> QED
      BY <1>0, <1>1, <2>2, <3>3, <3>4 DEF PostPaid, TypeOK
  <2>3. CASE ~PostPaid(w) /\ ~(PostSettle(w) /\ on[w] = t)
    <3> USE <1>0, <2>3 DEF TypeOK
    <3>1. tx[t] = "SETTLED" /\ proof[t] = "NONE"
      <4>1. CASE CreateTx(w) \/ MarkPending(w) \/ MarkFailed(w) \/ PostSettle(w)
        BY <4>1 DEF CreateTx, MarkPending, MarkFailed, PostSettle
      <4>2. CASE RecordFailed(w) \/ SubmitProof(w)
        BY <4>2 DEF RecordFailed, SubmitProof
      <4>3. CASE ReviewTx(w)
        BY <4>3 DEF ReviewTx, CallInv
      <4> QED
        BY <1>2, <4>1, <4>2, <4>3
           DEF Continue, Charge, ScheduleRetry, MarkOverdue, PostRead, PostLedger
    <3>2. inst[txInst[t]] = "PENDING"
      BY <1>1, <1>2
         DEF Continue, CreateTx, Charge, MarkPending, MarkFailed, ScheduleRetry, MarkOverdue,
             PostRead, PostLedger, PostSettle, RecordFailed, SubmitProof, ReviewTx
    <3>3. failures = 0
      BY <1>2 DEF Continue, CreateTx, Charge, MarkPending, MarkFailed, ScheduleRetry,
          MarkOverdue, PostRead, PostLedger, PostSettle, RecordFailed, SubmitProof, ReviewTx
    <3>4. PICK v \in Calls : Paying(v)
      BY <3>1, <3>2, <3>3 DEF SettledGetsPaid
    <3>5. pc[w] # "paid" /\ \A u \in Calls : u # w => pc'[u] = pc[u] /\ on'[u] = on[u]
      BY <1>2
         DEF Continue, CreateTx, Charge, MarkPending, MarkFailed, ScheduleRetry, MarkOverdue,
             PostRead, PostLedger, PostSettle, RecordFailed, SubmitProof, ReviewTx
    <3> QED
      BY <1>1, <3>4, <3>5
  <2> QED
    BY <2>1, <2>2, <2>3
<1>3. ASSUME NEW w \in Calls, ChargeLost(w) \/ Fail(w) PROVE FALSE
  BY <1>0, <1>3 DEF ChargeLost, Fail, TypeOK
<1>4. ASSUME NEW w \in Calls, pc[w] = "idle",
             \A u \in Calls \ {w} : pc'[u] = pc[u] /\ on'[u] = on[u],
             UNCHANGED <<tx, inst, failures>>, proof[t] = "NONE"
      PROVE  \E v \in Calls : pc'[v] = "paid" /\ txInst'[on'[v]] = txInst'[t]
  <2>1. PICK v \in Calls : Paying(v)
    BY <1>0, <1>1, <1>4 DEF SettledGetsPaid
  <2> QED
    BY <1>1, <1>4, <2>1
<1>5. ASSUME NEW w \in Requests, NEW u \in Txs,
             Collect(w, u) \/ Webhook(w, u) \/ SubmitRead(w, u)
      PROVE  \E v \in Calls : pc'[v] = "paid" /\ txInst'[on'[v]] = txInst'[t]
  BY <1>0, <1>4, <1>5 DEF Collect, Webhook, SubmitRead, Calls, TypeOK
<1>6. ASSUME NEW u \in Txs, Reconcile(u)
      PROVE  \E v \in Calls : pc'[v] = "paid" /\ txInst'[on'[v]] = txInst'[t]
  BY <1>0, <1>4, <1>6 DEF Reconcile, Calls, TypeOK
<1>7. ASSUME UNCHANGED <<pc, on, inst, failures>>, tx[t] = "SETTLED", proof[t] = "NONE"
      PROVE  \E v \in Calls : pc'[v] = "paid" /\ txInst'[on'[v]] = txInst'[t]
  BY <1>0, <1>1, <1>7 DEF SettledGetsPaid
<1>8. ASSUME NEW w \in Requests, NEW u \in Txs, ReviewProof(w, u)
      PROVE  \E v \in Calls : pc'[v] = "paid" /\ txInst'[on'[v]] = txInst'[t]
  <2>1. UNCHANGED <<tx, inst, failures>> /\ proof[t] = "NONE"
    BY <1>0, <1>8 DEF ReviewProof, TypeOK
  <2>2. CASE UNCHANGED <<pc, on>>
    BY <1>7, <2>1, <2>2
  <2>3. CASE /\ w \in Calls /\ pc[w] = "idle"
             /\ \A v \in Calls \ {w} : pc'[v] = pc[v] /\ on'[v] = on[v]
    BY <1>4, <2>1, <2>3
  <2> QED
    BY <1>0, <1>8, <2>2, <2>3 DEF ReviewProof, Calls, TypeOK
<1>9. ASSUME NEW u \in Txs, Hold(u)
      PROVE  \E v \in Calls : pc'[v] = "paid" /\ txInst'[on'[v]] = txInst'[t]
  BY <1>0, <1>7, <1>9 DEF Hold, TypeOK
<1>10. CASE UNCHANGED vars
  BY <1>7, <1>10 DEF vars
<1> QED
  BY <1>2, <1>3, <1>5, <1>6, <1>8, <1>9, <1>10 DEF Next

\* Failures are counted to two and always come with a date for the next try.
LEMMA NextRetries == IInv /\ [Next]_vars => RetryScheduled'
<1> SUFFICES ASSUME IInv, [Next]_vars PROVE RetryScheduled'
  OBVIOUS
<1>0. TypeOK /\ CallInv /\ RetryScheduled
  BY DEF IInv
<1> USE DEF instVars
<1>1. CASE UNCHANGED instVars
  BY <1>0, <1>1 DEF RetryScheduled
<1>2. ASSUME NEW w \in Calls, ScheduleRetry(w) PROVE RetryScheduled'
  BY <1>0, <1>2 DEF ScheduleRetry, RetryScheduled, CallInv, InstOf, TypeOK
<1>3. ASSUME NEW w \in Calls, MarkOverdue(w) PROVE RetryScheduled'
  BY <1>0, <1>3 DEF MarkOverdue, RetryScheduled, TypeOK
<1>4. ASSUME NEW w \in Calls, PostPaid(w) PROVE RetryScheduled'
  BY <1>0, <1>4 DEF PostPaid, RetryScheduled, TypeOK
<1> QED
  BY <1>1, <1>2, <1>3, <1>4
     DEF Next, vars, Continue, CreateTx, Charge, MarkPending, MarkFailed,
         PostRead, PostLedger, PostSettle, RecordFailed, SubmitProof, ReviewTx,
         ChargeLost, Fail, Collect, Webhook, SubmitRead, ReviewProof, Reconcile, Hold

-----------------------------------------------------------------------------
(* The theorems *)

\* IInv holds in every reachable state.
THEOREM Inductive == Spec => []IInv
<1>1. IInv /\ [Next]_vars => IInv'
  BY NextTypes, NextCalls, NextPostings, NextSettled, NextPaid, NextGetsPaid, NextRetries DEF IInv
<1> QED
  BY InitIInv, <1>1, PTL DEF Spec

\* Every variable keeps its type.
THEOREM TypeCorrect == Spec => []TypeOK
<1>1. IInv => TypeOK
  BY DEF IInv
<1> QED
  BY <1>1, Inductive, PTL

\* The ledger never shows a collection that the gateway did not make.
THEOREM LedgerShowsTakenMoney == Spec => []PostedIsTaken
<1>1. IInv => PostedIsTaken
  BY DEF IInv
<1> QED
  BY <1>1, Inductive, PTL

\* A paid instalment has a collection in the ledger: whatever the number of
\* payments, callbacks, reconciliations, reviews, holds and dying calls.
THEOREM PaidInstalmentsAreBooked == Spec => []PaidIsPosted
<1>1. IInv => PaidIsPosted
  BY DEF IInv
<1> QED
  BY <1>1, Inductive, PTL

\* A settled card payment is in the ledger.
THEOREM SettledCardsAreBooked == Spec => []CardSettledIsPosted
<1>1. IInv => CardSettledIsPosted
  BY DEF IInv
<1> QED
  BY <1>1, Inductive, PTL

\* While no call dies, a settled card payment pays its instalment.
THEOREM SettledCardsPay == Spec => []SettledGetsPaid
<1>1. IInv => SettledGetsPaid
  BY DEF IInv
<1> QED
  BY <1>1, Inductive, PTL

\* No failed instalment is forgotten, and none reaches a third counted failure.
THEOREM RetriesAreScheduled == Spec => []RetryScheduled
<1>1. IInv => RetryScheduled
  BY DEF IInv
<1> QED
  BY <1>1, Inductive, PTL

-----------------------------------------------------------------------------
(* Collections implements Cashbook *)

LEMMA InitialBooks == Init => Books!Init
BY DEF Init, Books!Init, SettledCards, PaidInstallments

\* What moves nothing in the books.
LEMMA QuietStep ==
    ASSUME TypeOK, UNCHANGED <<txInst, money, posted>>,
           UNCHANGED inst \/ PaidInstallments' = PaidInstallments,
           UNCHANGED <<tx, proof>> \/ SettledCards' = SettledCards
    PROVE  UNCHANGED Books!vars
BY DEF Books!vars, SettledCards, PaidInstallments

\* A status written over whatever was there, and not SETTLED.
LEMMA OtherStatus ==
    ASSUME TypeOK, NEW t \in Txs, NEW st \in TxStatuses \ {"SETTLED"}, SetTx(t, st),
           UNCHANGED <<inst, proof, txInst, money, posted>>
    PROVE  Books!Next
<1>1. \A u \in Txs : tx'[u] = IF u = t THEN st ELSE tx[u]
  BY DEF SetTx, TypeOK
<1>2. SettledCards' = SettledCards \ {t} /\ PaidInstallments' = PaidInstallments
  BY <1>1 DEF SettledCards, PaidInstallments
<1>3. Books!Unsettle(t)
  BY <1>2 DEF Books!Unsettle
<1> QED
  BY <1>3 DEF Books!Next

LEMMA ContinueBooks ==
    ASSUME IInv, NEW w \in Calls, Continue(w)
    PROVE  Books!Next \/ UNCHANGED Books!vars
<1>0. /\ TypeOK /\ CallInv /\ CardSettledIsPosted
      /\ pc[w] # "idle" => on[w] \in Txs /\ InstOf(w) \in Installments
  BY DEF IInv, CallInv, TypeOK, InstOf
<1> DEFINE t == on[w]
           i == InstOf(w)
<1>1. CASE CreateTx(w)
  BY <1>0, <1>1, OtherStatus DEF CreateTx, instVars, fixed, TxStatuses
<1>2. CASE Charge(w)
  <2>1. t \in Txs /\ money[t] = "none"
    BY <1>0, <1>2 DEF Charge, CallInv
  <2>2. PICK outcome \in {"taken", "declined"} : money' = [money EXCEPT ![t] = outcome]
    BY <1>2 DEF Charge
  <2>3. UNCHANGED <<txInst, posted, SettledCards, PaidInstallments>>
    BY <1>2 DEF Charge, instVars, txVars, fixed, SettledCards, PaidInstallments
  <2>4. Books!Decide(t, outcome)
    BY <2>1, <2>2, <2>3 DEF Books!Decide
  <2> QED
    BY <2>1, <2>4 DEF Books!Next
<1>3. CASE MarkPending(w)
  BY <1>0, <1>3, OtherStatus DEF MarkPending, instVars, fixed, TxStatuses
<1>4. CASE MarkFailed(w)
  BY <1>0, <1>4, OtherStatus DEF MarkFailed, instVars, fixed, TxStatuses
<1>5. CASE ScheduleRetry(w) \/ PostRead(w)
  BY <1>0, <1>5, QuietStep DEF ScheduleRetry, PostRead, instVars, txVars, fixed
<1>6. CASE MarkOverdue(w)
  <2>1. i \in Installments
    BY <1>0, <1>6 DEF MarkOverdue
  <2>2. PaidInstallments' = PaidInstallments \ {i}
    BY <1>0, <1>6, <2>1 DEF MarkOverdue, PaidInstallments, TypeOK
  <2>3. UNCHANGED <<txInst, money, posted, SettledCards>>
    BY <1>6 DEF MarkOverdue, txVars, fixed, SettledCards
  <2>4. Books!Unpay(i)
    BY <2>2, <2>3 DEF Books!Unpay
  <2> QED
    BY <2>1, <2>4 DEF Books!Next
<1>7. CASE PostLedger(w)
  <2>1. t \in Txs /\ money[t] = "taken"
    BY <1>0, <1>7 DEF PostLedger, CallInv
  <2>2. UNCHANGED <<txInst, money, SettledCards, PaidInstallments>>
    BY <1>7 DEF PostLedger, instVars, txVars, fixed, SettledCards, PaidInstallments
  <2>3. Books!Book(t)
    BY <1>7, <2>1, <2>2 DEF PostLedger, Books!Book
  <2> QED
    BY <2>1, <2>3 DEF Books!Next
<1>8. CASE PostSettle(w)
  <2>1. t \in Txs /\ posted[t] > 0
    BY <1>0, <1>8 DEF PostSettle, CallInv
  <2>2. UNCHANGED <<txInst, money, posted, PaidInstallments, proof>>
    BY <1>8 DEF PostSettle, instVars, fixed, PaidInstallments
  <2>3. \A u \in Txs : tx'[u] = IF u = t THEN "SETTLED" ELSE tx[u]
    BY <1>0, <1>8 DEF PostSettle, SetTx, TypeOK
  <2>4. CASE proof[t] = "NONE"
    <3>1. SettledCards' = SettledCards \cup {t}
      BY <2>1, <2>2, <2>3, <2>4 DEF SettledCards
    <3>2. Books!Settle(t)
      BY <2>1, <2>2, <3>1 DEF Books!Settle
    <3> QED
      BY <2>1, <3>2 DEF Books!Next
  <2>5. CASE proof[t] # "NONE"
    <3>1. SettledCards' = SettledCards
      BY <2>2, <2>3, <2>5 DEF SettledCards
    <3> QED
      BY <2>2, <3>1 DEF Books!vars
  <2> QED
    BY <2>4, <2>5
<1>9. CASE PostPaid(w)
  <2>1. t \in Txs /\ posted[t] > 0 /\ i \in Installments /\ txInst[t] = i
    BY <1>0, <1>9 DEF PostPaid, CallInv, InstOf
  <2>2. PaidInstallments' = PaidInstallments \cup {i}
    BY <1>0, <1>9, <2>1 DEF PostPaid, PaidInstallments, TypeOK
  <2>3. UNCHANGED <<txInst, money, posted, SettledCards>>
    BY <1>9 DEF PostPaid, txVars, fixed, SettledCards
  <2>4. Books!Pay(i)
    BY <2>1, <2>2, <2>3 DEF Books!Pay
  <2> QED
    BY <2>1, <2>4 DEF Books!Next
<1>10. CASE RecordFailed(w)
  BY <1>0, <1>10, OtherStatus DEF RecordFailed, instVars, fixed, TxStatuses
<1>11. CASE SubmitProof(w)
  <2>1. t \in Txs /\ tx[t] = "NONE" /\ UNCHANGED <<inst, txInst, money, posted>>
    BY <1>0, <1>11 DEF SubmitProof, CallInv, instVars, fixed
  <2>2. \A u \in Txs : /\ tx'[u] = IF u = t THEN "PENDING_MANUAL_REVIEW" ELSE tx[u]
                       /\ u # t => proof'[u] = proof[u]
    BY <1>0, <1>11 DEF SubmitProof, SetTx, TypeOK
  <2>3. SettledCards' = SettledCards
    BY <2>1, <2>2 DEF SettledCards
  <2> QED
    BY <1>0, <2>1, <2>3, QuietStep
<1>12. CASE ReviewTx(w)
  <2>1. /\ t \in Txs /\ proof[t] # "NONE" /\ UNCHANGED <<inst, proof, txInst, money, posted>>
        /\ \A u \in Txs : u # t => tx'[u] = tx[u]
    BY <1>0, <1>12 DEF ReviewTx, CallInv, SetTx, TypeOK, instVars, fixed
  <2>2. SettledCards' = SettledCards
    BY <2>1 DEF SettledCards
  <2> QED
    BY <1>0, <2>1, <2>2, QuietStep
<1> QED
  BY <1>1, <1>2, <1>3, <1>4, <1>5, <1>6, <1>7, <1>8, <1>9, <1>10, <1>11, <1>12 DEF Continue

LEMMA NextBooks == IInv /\ [Next]_vars => [Books!Next]_(Books!vars)
<1> SUFFICES ASSUME IInv, [Next]_vars PROVE Books!Next \/ UNCHANGED Books!vars
  OBVIOUS
<1>0. TypeOK /\ CallInv
  BY DEF IInv
<1>1. ASSUME NEW w \in Calls, Continue(w) PROVE Books!Next \/ UNCHANGED Books!vars
  BY <1>1, ContinueBooks
<1>2. ASSUME NEW w \in Calls, ChargeLost(w) PROVE Books!Next
  <2>1. on[w] \in Txs /\ money[on[w]] = "none"
    BY <1>0, <1>2 DEF ChargeLost, CallInv
  <2>2. PICK outcome \in {"taken", "declined"} : money' = [money EXCEPT ![on[w]] = outcome]
    BY <1>2 DEF ChargeLost
  <2>3. UNCHANGED <<txInst, posted, SettledCards, PaidInstallments>>
    BY <1>2 DEF ChargeLost, instVars, txVars, fixed, SettledCards, PaidInstallments
  <2>4. Books!Decide(on[w], outcome)
    BY <2>1, <2>2, <2>3 DEF Books!Decide
  <2> QED
    BY <2>1, <2>4 DEF Books!Next
<1>3. ASSUME NEW w \in Calls, Fail(w) PROVE UNCHANGED Books!vars
  BY <1>0, <1>3, QuietStep DEF Fail, instVars, txVars, fixed
<1>4. ASSUME NEW w \in Requests, NEW t \in Txs,
             Collect(w, t) \/ Webhook(w, t) \/ SubmitRead(w, t)
      PROVE  UNCHANGED Books!vars
  BY <1>0, <1>4, QuietStep DEF Collect, Webhook, SubmitRead, instVars, txVars, fixed
<1>5. ASSUME NEW w \in Requests, NEW t \in Txs, ReviewProof(w, t) PROVE UNCHANGED Books!vars
  <2>1. /\ proof[t] # "NONE" /\ UNCHANGED <<tx, inst, txInst, money, posted>>
        /\ \A u \in Txs : proof'[u] = "NONE" <=> proof[u] = "NONE"
    BY <1>0, <1>5 DEF ReviewProof, TypeOK, instVars, fixed
  <2>2. SettledCards' = SettledCards
    BY <2>1 DEF SettledCards
  <2> QED
    BY <1>0, <2>1, <2>2, QuietStep
<1>6. ASSUME NEW t \in Txs, Reconcile(t) PROVE UNCHANGED Books!vars
  BY <1>0, <1>6, QuietStep DEF Reconcile, instVars, txVars, fixed
<1>7. ASSUME NEW t \in Txs, Hold(t) PROVE Books!Next
  BY <1>0, <1>7, OtherStatus DEF Hold, instVars, fixed, TxStatuses
<1>8. CASE UNCHANGED vars
  BY <1>0, <1>8, QuietStep DEF vars, instVars, txVars, fixed
<1> QED
  BY <1>1, <1>2, <1>3, <1>4, <1>5, <1>6, <1>7, <1>8 DEF Next

\* Collecting instalments implements the cash book: whatever calls, callbacks,
\* jobs, admins and crashes do, money is decided, booked, settled and paid in
\* this order, one statement at a time, and no decision or booking is undone.
THEOREM CollectionsKeepBooks == Spec => BooksSpec
<1>1. IInv /\ [Next]_vars => [Books!Next]_(Books!vars)
  BY NextBooks
<1> QED
  BY InitialBooks, <1>1, Inductive, PTL DEF Spec, BooksSpec, Books!Spec

-----------------------------------------------------------------------------
(* A late answer waits for the reconciliation job *)

\* A transaction whose money was taken under a late answer.
Waiting(t) == tx[t] = "PENDING_VERIFICATION" /\ money[t] = "taken"

\* It is a card transaction, whoever is about to write FAILED over its status
\* has been told that the gateway declined, and nobody else is about to write a
\* late answer to it.
WaitInv ==
    /\ \A t \in Txs : tx[t] = "PENDING_VERIFICATION" => proof[t] = "NONE" /\ money[t] # "none"
    /\ \A w \in Calls :
        /\ pc[w] \in {"pending", "failed"} => money[on[w]] # "none" /\ proof[on[w]] = "NONE"
        /\ pc[w] \in {"failed", "record"} => money[on[w]] = "declined"
        /\ pc[w] = "pending" => tx[on[w]] # "PENDING_VERIFICATION"
    /\ \A v, w \in Calls : pc[v] = "pending" /\ pc[w] = "pending" /\ on[v] = on[w] => v = w

LEMMA InitWaits == Init => WaitInv
BY DEF Init, WaitInv

LEMMA NextWaits == IInv /\ WaitInv /\ [Next]_vars => WaitInv'
<1> SUFFICES ASSUME IInv, WaitInv, [Next]_vars PROVE WaitInv'
  OBVIOUS
<1>0. TypeOK /\ RowInv /\ CallInv
  BY DEF IInv
<1> USE CollectionsAssumption
<1> USE <1>0 DEF TypeOK, RowInv, CallInv, SoleCall, WaitInv,
                 instVars, txVars, fixed, callVars, Goto, Return, Begin, SetTx, InstOf
<1>1. ASSUME NEW w \in Calls, Continue(w) PROVE WaitInv'
  <2>1. CASE CreateTx(w)
    BY <2>1 DEF CreateTx
  <2>2. CASE Charge(w)
    BY <2>2 DEF Charge
  <2>3. CASE MarkPending(w)
    BY <2>3 DEF MarkPending
  <2>4. CASE MarkFailed(w)
    BY <2>4 DEF MarkFailed
  <2>5. CASE ScheduleRetry(w) \/ MarkOverdue(w)
    BY <2>5 DEF ScheduleRetry, MarkOverdue
  <2>6. CASE PostRead(w)
    BY <2>6 DEF PostRead
  <2>7. CASE PostLedger(w)
    BY <2>7 DEF PostLedger
  <2>8. CASE PostSettle(w)
    BY <2>8 DEF PostSettle
  <2>9. CASE PostPaid(w)
    BY <2>9 DEF PostPaid
  <2>10. CASE RecordFailed(w) \/ ReviewTx(w)
    BY <2>10 DEF RecordFailed, ReviewTx
  <2>11. CASE SubmitProof(w)
    BY <2>11 DEF SubmitProof
  <2> QED
    BY <1>1, <2>1, <2>2, <2>3, <2>4, <2>5, <2>6, <2>7, <2>8, <2>9, <2>10, <2>11 DEF Continue
<1>2. ASSUME NEW w \in Calls, ChargeLost(w) \/ Fail(w) PROVE WaitInv'
  BY <1>2 DEF ChargeLost, Fail
<1>3. ASSUME NEW w \in Requests, NEW t \in Txs, Collect(w, t) PROVE WaitInv'
  BY <1>3 DEF Collect, Calls
<1>4. ASSUME NEW w \in Requests, NEW t \in Txs, Webhook(w, t) PROVE WaitInv'
  BY <1>4 DEF Webhook, Calls
<1>5. ASSUME NEW w \in Requests, NEW t \in Txs, SubmitRead(w, t) PROVE WaitInv'
  BY <1>5 DEF SubmitRead, Calls
<1>6. ASSUME NEW w \in Requests, NEW t \in Txs, ReviewProof(w, t) PROVE WaitInv'
  BY <1>6 DEF ReviewProof, Calls
<1>7. ASSUME NEW t \in Txs, Reconcile(t) PROVE WaitInv'
  BY <1>7 DEF Reconcile, Calls
<1>8. ASSUME NEW t \in Txs, Hold(t) PROVE WaitInv'
  BY <1>8 DEF Hold
<1>9. CASE UNCHANGED vars
  BY <1>9 DEF vars
<1> QED
  BY <1>1, <1>2, <1>3, <1>4, <1>5, <1>6, <1>7, <1>8, <1>9 DEF Next

LEMMA StaysWaiting ==
    ASSUME IInv, WaitInv, [Next]_vars, NEW t \in Txs, Waiting(t)
    PROVE  \/ Waiting(t)' /\ (t \in hasRef' <=> t \in hasRef)
           \/ posted'[t] > 0
           \/ tx'[t] = "PENDING"
<1>0. TypeOK /\ CallInv
  BY DEF IInv
<1>1. proof[t] = "NONE" /\ money'[t] = "taken"
  BY NothingTakenBack DEF WaitInv, Waiting
<1>2. (t \in hasRef' <=> t \in hasRef) \/ posted'[t] > 0
  <2>1. ASSUME NEW w \in Calls, MarkPending(w) \/ MarkFailed(w) PROVE t \in hasRef' <=> t \in hasRef
    <3>1. on[w] # t
      BY <2>1 DEF MarkPending, MarkFailed, WaitInv, Waiting
    <3> QED
      BY <2>1, <3>1 DEF MarkPending, MarkFailed, StoreRef
  <2>2. ASSUME NEW w \in Calls, PostSettle(w)
        PROVE  (t \in hasRef' <=> t \in hasRef) \/ posted'[t] > 0
    BY <1>0, <2>2 DEF PostSettle, CallInv
  <2>3. \/ UNCHANGED hasRef
        \/ \E w \in Calls : MarkPending(w) \/ MarkFailed(w) \/ PostSettle(w)
    BY DEF Next, vars, txVars, Continue, CreateTx, Charge, ChargeLost, ScheduleRetry, MarkOverdue,
           PostRead, PostLedger, PostPaid, RecordFailed, SubmitProof, ReviewTx, Fail, Collect,
           Webhook, SubmitRead, ReviewProof, Reconcile, Hold
  <2> QED
    BY <2>1, <2>2, <2>3
<1>3. tx'[t] = "PENDING_VERIFICATION" \/ posted'[t] > 0 \/ tx'[t] = "PENDING"
  <2> USE <1>0, <1>1 DEF TypeOK, instVars, txVars, fixed, SetTx, Waiting
  <2>1. ASSUME NEW w \in Calls, Continue(w)
        PROVE  tx'[t] = "PENDING_VERIFICATION" \/ posted'[t] > 0 \/ tx'[t] = "PENDING"
    <3>1. CASE CreateTx(w) \/ MarkPending(w)
      BY <3>1 DEF CreateTx, MarkPending
    <3>2. CASE MarkFailed(w) \/ RecordFailed(w)
      BY <3>2 DEF MarkFailed, RecordFailed, WaitInv
    <3>3. CASE PostSettle(w)
      BY <3>3 DEF PostSettle, CallInv
    <3>4. CASE SubmitProof(w) \/ ReviewTx(w)
      BY <3>4 DEF SubmitProof, ReviewTx, CallInv
    <3>5. CASE \/ Charge(w) \/ ScheduleRetry(w) \/ MarkOverdue(w)
               \/ PostRead(w) \/ PostLedger(w) \/ PostPaid(w)
      BY <3>5 DEF Charge, ScheduleRetry, MarkOverdue, PostRead, PostLedger, PostPaid
    <3> QED
      BY <2>1, <3>1, <3>2, <3>3, <3>4, <3>5 DEF Continue
  <2>2. ASSUME NEW w \in Calls, ChargeLost(w) \/ Fail(w) PROVE tx' = tx
    BY <2>2 DEF ChargeLost, Fail
  <2>3. ASSUME NEW w \in Requests, NEW u \in Txs,
               Collect(w, u) \/ Webhook(w, u) \/ SubmitRead(w, u) \/ ReviewProof(w, u)
        PROVE  tx' = tx
    BY <2>3 DEF Collect, Webhook, SubmitRead, ReviewProof
  <2>4. ASSUME NEW u \in Txs, Reconcile(u) \/ Hold(u) PROVE tx'[t] = tx[t] \/ tx'[t] = "PENDING"
    BY <2>4 DEF Reconcile, Hold
  <2>5. CASE UNCHANGED vars
    BY <2>5 DEF vars
  <2> QED
    BY <2>1, <2>2, <2>3, <2>4, <2>5 DEF Next
<1> QED
  BY <1>1, <1>2, <1>3 DEF Waiting

\* The safety half of LateAnswerIsBooked, for late answers with and without a
\* reference: until it is booked or an admin holds it, a transaction whose money
\* was taken keeps the status by which a callback books it and, if it has one,
\* the reference by which the job finds it; without one it never gets one.
THEOREM LateAnswersWait == Spec => LateAnswerWaits
<1>1. IInv /\ WaitInv /\ [Next]_vars =>
        [\A t \in Txs : tx[t] = "PENDING_VERIFICATION" /\ money[t] = "taken" =>
            \/ /\ tx'[t] = "PENDING_VERIFICATION" /\ money'[t] = "taken"
               /\ t \in hasRef' <=> t \in hasRef
            \/ posted'[t] > 0
            \/ tx'[t] = "PENDING"]_vars
  BY StaysWaiting DEF Waiting
<1> QED
  BY InitWaits, NextWaits, <1>1, Inductive, PTL DEF Spec, LateAnswerWaits
=============================================================================
