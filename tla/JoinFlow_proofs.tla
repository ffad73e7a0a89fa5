-------------------------- MODULE JoinFlow_proofs --------------------------
(***************************************************************************)
(* Proofs about JoinFlow: the inductive invariant IInv and the properties  *)
(* it gives, for any number of customers, circles, requests and seeds.     *)
(* The last part proves that JoinFlow implements SeatSale.                 *)
(***************************************************************************)
EXTENDS JoinFlowSale, FiniteSetTheorems, TLAPS

\* The member count of a circle is the cardinality of a finite set.
LEMMA MembersFinite ==
    ASSUME TypeOK, NEW c
    PROVE  /\ IsFiniteSet(SoldRows)
           /\ IsFiniteSet({m \in SoldRows : circle[m] = c})
           /\ Cardinality({m \in SoldRows : circle[m] = c}) \in Nat
<1>1. IsFiniteSet(signed)
  BY FS_Subset, JoinFlowAssumption DEF TypeOK
<1>2. IsFiniteSet(SoldRows)
  BY <1>1, FS_Union, JoinFlowAssumption DEF SoldRows
<1>3. IsFiniteSet({m \in SoldRows : circle[m] = c})
  BY <1>2, FS_Subset
<1> QED
  BY <1>2, <1>3, FS_CardinalityType

LEMMA InitIInv == Init => IInv
<1> SUFFICES ASSUME Init PROVE IInv
  OBVIOUS
<1> USE JoinFlowAssumption
<1>1. \A c \in Circles : InitCount(c) \in Nat
  BY FS_Subset, FS_CardinalityType DEF InitCount
<1>2. TypeOK
  BY <1>1 DEF Init, TypeOK, Ids, Statuses, JoinSteps
<1>3. SeedInv
  BY DEF Init, SeedInv, Ids
<1>4. RowInv
  BY DEF Init, RowInv, Ids, TxSteps
<1>5. HoldInv
  BY DEF Init, HoldInv, Ids
<1>6. SeatInv
  BY DEF Init, SeatInv, Rows, SameSeat, Ids
<1>7. CountIsMembers
  <2> SUFFICES ASSUME NEW c \in Circles
               PROVE  count[c] = Cardinality({m \in SoldRows : circle[m] = c})
    BY DEF CountIsMembers
  <2>1. {m \in SoldRows : circle[m] = c} = {s \in Seeds : SeedCircle[s] = c}
    BY DEF Init, SoldRows, Ids
  <2> QED
    BY <2>1 DEF Init, InitCount
<1> QED
  BY <1>2, <1>3, <1>4, <1>5, <1>6, <1>7 DEF IInv

-----------------------------------------------------------------------------
(* The statements of startJoin, by what they do *)

\* The row that j deletes was its target, is committed and carries no payout.
Drop(j, next) ==
    /\ target[j] \in Visible(j) \ signed
    /\ dels' = [dels EXCEPT ![j] = @ \cup {target[j]}]
    /\ target' = [target EXCEPT ![j] = NoId]
    /\ Goto(j, next)
    /\ UNCHANGED <<now, rows, notJoin>>

ReadSteps == {"existing", "limit", "position", "create"}

\* Every step of a join request starts it, goes on to the next statement,
\* inserts the row, picks an expired row, deletes it, commits or rolls back.
LEMMA JoinOutcome ==
    ASSUME NEW j \in Joins, JoinStep(j)
    PROVE  \/ StartJoin(j)
           \/ \E step \in ReadSteps :
                Move(j, step) /\ InTx(j) /\ (pc[j] = "circle" => ValidPos(j))
           \/ Create(j) /\ Move(j, "draft")
           \/ \E m \in Visible(j), step \in {"dropOwn", "dropHeld"} :
                ExpiredAt(m, now[j]) /\ Aim(j, m, step) /\ pc[j] \in {"existing", "position"}
           \/ \E next \in {"limit", "create"} : Drop(j, next) /\ pc[j] \in {"dropOwn", "dropHeld"}
           \/ CommitJoin(j)
           \/ Rollback(j) /\ InTx(j)
<1> USE DEF InTx, TxSteps, ReadSteps
<1>1. CASE StartJoin(j)
  BY <1>1
<1>2. CASE CheckCircle(j)
  BY <1>2 DEF CheckCircle
<1>3. CASE ReadExisting(j)
  BY <1>3 DEF ReadExisting
<1>4. CASE DropOwn(j)
  BY <1>4 DEF DropOwn, DeleteTarget, Drop
<1>5. CASE CheckLimit(j)
  BY <1>5 DEF CheckLimit
<1>6. CASE ReadPosition(j)
  BY <1>6 DEF ReadPosition
<1>7. CASE DropHeld(j)
  BY <1>7 DEF DropHeld, DeleteTarget, Drop
<1>8. CASE Create(j)
  BY <1>8 DEF Create
<1>9. CASE CommitJoin(j)
  BY <1>9
<1>10. CASE DraftMissing(j)
  BY <1>10 DEF DraftMissing
<1>11. CASE Abort(j)
  BY <1>11 DEF Abort
<1> QED
  BY <1>1, <1>2, <1>3, <1>4, <1>5, <1>6, <1>7, <1>8, <1>9, <1>10, <1>11 DEF JoinStep

-----------------------------------------------------------------------------
(* Types *)

LEMMA JoinTypes ==
    ASSUME TypeOK, NEW j \in Joins, JoinStep(j)
    PROVE  TypeOK'
<1> USE DEF TypeOK, Ids, Goto, notJoin, rows, fixed, books, adminSt
<1> USE JoinFlowAssumption
<1>1. \A step \in ReadSteps \cup {"circle", "draft", "dropOwn", "dropHeld", "joined", "refused"} :
        step \in JoinSteps
  BY DEF ReadSteps, JoinSteps, TxSteps
<1>2. CASE StartJoin(j)
  BY <1>1, <1>2 DEF StartJoin
<1>3. ASSUME NEW step \in ReadSteps \cup {"draft"}, Move(j, step) PROVE TypeOK'
  BY <1>1, <1>3 DEF Move
<1>4. ASSUME NEW m \in Visible(j), NEW step \in {"dropOwn", "dropHeld"}, Aim(j, m, step)
      PROVE  TypeOK'
  BY <1>1, <1>4 DEF Aim, Visible, Rows
<1>5. ASSUME NEW next \in {"limit", "create"}, Drop(j, next) PROVE TypeOK'
  BY <1>1, <1>5 DEF Drop, Visible, Rows, ReadSteps
<1>6. CASE CommitJoin(j)
  BY <1>1, <1>6 DEF CommitJoin, Statuses
<1>7. CASE Rollback(j)
  BY <1>1, <1>7 DEF Rollback
<1> HIDE DEF TypeOK, Ids, Goto, notJoin, rows, fixed, books, adminSt
<1> QED
  BY JoinOutcome, <1>2, <1>3, <1>4, <1>5, <1>6, <1>7

\* Cancelling a row keeps the two functions that it writes of their type.
LEMMA CancelTypes ==
  ASSUME TypeOK, NEW m \in Ids, CancelRow(m)
  PROVE  status' \in [Ids -> Statuses] /\ until' \in [Ids -> Nat]
<1>1. /\ status \in [Ids -> Statuses]
      /\ until \in [Ids -> Nat]
      /\ "CANCELLED" \in Statuses
  BY DEF TypeOK, Statuses
<1>2. \/ UNCHANGED <<status, until>>
      \/ /\ status' = [status EXCEPT ![m] = "CANCELLED"]
         /\ until' = [until EXCEPT ![m] = 0]
  BY DEF CancelRow, rows
<1> QED
  BY <1>1, <1>2

LEMMA NextTypes == IInv /\ [Next]_vars => TypeOK'
<1> SUFFICES ASSUME IInv, [Next]_vars PROVE TypeOK'
  OBVIOUS
<1> USE JoinFlowAssumption
<1>0. TypeOK
  BY DEF IInv
<1> USE DEF TypeOK, Ids, Statuses, rows, fixed, books, joinSt, adminSt
<1>1. CASE UNCHANGED vars
  BY <1>0, <1>1 DEF vars
<1>2. ASSUME NEW j \in Joins, JoinStep(j) PROVE TypeOK'
  BY <1>0, <1>2, JoinTypes
<1>3. ASSUME NEW v \in Verifies, VerifyStep(v) PROVE TypeOK'
  <2>1. ASSUME NEW m \in Ids, VerifyRead(v, m) PROVE TypeOK'
    BY <1>0, <2>1 DEF VerifyRead
  <2>2. CASE Activate(v)
    <3>1. vmem[v] \in Joins
      BY <1>0, <2>2 DEF Activate, IInv, SeedInv, Rows
    <3>2. /\ status' \in [Ids -> Statuses] /\ until' \in [Ids -> Nat]
          /\ signed' \in SUBSET Joins
      BY <1>0, <2>2, <3>1 DEF Activate
    <3>3. count' \in [Circles -> Nat] /\ vmem' \in [Verifies -> Ids \cup {NoId}]
      BY <1>0, <2>2, <3>1 DEF Activate
    <3> HIDE DEF Ids, Statuses
    <3> QED
      BY <1>0, <2>2, <3>2, <3>3 DEF Activate
  <2>3. CASE VerifyFail(v)
    BY <1>0, <2>3 DEF VerifyFail
  <2> QED
    BY <1>3, <2>1, <2>2, <2>3 DEF VerifyStep
<1>4. CASE JobScan
  BY <1>0, <1>4 DEF JobScan, ExpiredNow
<1>5. ASSUME NEW m \in Ids, JobCancel(m) PROVE TypeOK'
  <2>1. status' \in [Ids -> Statuses] /\ until' \in [Ids -> Nat]
    BY <1>0, <1>5, CancelTypes DEF JobCancel
  <2>2. batch' \in SUBSET Ids
    BY <1>0, <1>5 DEF JobCancel
  <2> HIDE DEF Statuses
  <2> QED
    BY <1>0, <1>5, <2>1, <2>2 DEF JobCancel
<1>6. ASSUME NEW m \in Ids, AdminStep(m) PROVE TypeOK'
  <2>1. CASE ReleaseRead(m)
    BY <1>0, <2>1 DEF ReleaseRead
  <2>2. CASE ReleaseWrite(m)
    <3>1. status' \in [Ids -> Statuses] /\ until' \in [Ids -> Nat]
      BY <1>0, <2>2, CancelTypes DEF ReleaseWrite
    <3>2. releasing' \in SUBSET Ids
      BY <1>0, <2>2 DEF ReleaseWrite
    <3> HIDE DEF Statuses
    <3> QED
      BY <1>0, <2>2, <3>1, <3>2 DEF ReleaseWrite
  <2>3. CASE DefaultRead(m)
    BY <1>0, <2>3 DEF DefaultRead
  <2>4. CASE DefaultWrite(m)
    BY <1>0, <2>4 DEF DefaultWrite
  <2> QED
    BY <1>6, <2>1, <2>2, <2>3, <2>4 DEF AdminStep
<1>7. ASSUME NEW c \in Circles, UpdateCircleStatus(c) PROVE TypeOK'
  BY <1>0, <1>7 DEF UpdateCircleStatus
<1>8. CASE Tick
  BY <1>0, <1>8 DEF Tick
<1>9. CASE Crash
  BY <1>0, <1>9 DEF Crash, JoinSteps
<1> QED
  BY <1>1, <1>2, <1>3, <1>4, <1>5, <1>6, <1>7, <1>8, <1>9 DEF Next

-----------------------------------------------------------------------------
(* Seeded rows *)

LEMMA NextSeeds == IInv /\ [Next]_vars => SeedInv'
<1> SUFFICES ASSUME IInv, [Next]_vars, NEW s \in Seeds
             PROVE  /\ status'[s] \in {"ACTIVE", "DEFAULTED"}
                    /\ circle'[s] = SeedCircle[s] /\ pos'[s] = SeedPos[s]
                    /\ s \notin batch' /\ s \notin releasing'
                    /\ \A v \in Verifies : vmem'[v] # s
  BY DEF SeedInv
<1>0. /\ TypeOK
      /\ status[s] \in {"ACTIVE", "DEFAULTED"}
      /\ circle[s] = SeedCircle[s] /\ pos[s] = SeedPos[s]
      /\ s \notin batch /\ s \notin releasing
      /\ \A v \in Verifies : vmem[v] # s
      /\ \A j \in Joins : s \notin dels[j] /\ j # s
      /\ s \in Ids /\ s # NoId
  BY JoinFlowAssumption DEF IInv, SeedInv, HoldInv, RanOut, Ids
<1> USE <1>0 DEF rows, fixed, books, joinSt, adminSt
<1> DEFINE Goal == /\ status'[s] \in {"ACTIVE", "DEFAULTED"}
                   /\ circle'[s] = SeedCircle[s] /\ pos'[s] = SeedPos[s]
                   /\ s \notin batch' /\ s \notin releasing'
                   /\ \A v \in Verifies : vmem'[v] # s
<1>1. CASE UNCHANGED vars
  BY <1>1 DEF vars
<1>2. ASSUME NEW j \in Joins, JoinStep(j) PROVE Goal
  <2> USE DEF notJoin
  <2>1. CASE StartJoin(j)
    BY <2>1 DEF StartJoin
  <2>2. ASSUME NEW step, Move(j, step) PROVE Goal
    BY <2>2 DEF Move
  <2>3. ASSUME NEW m, NEW step, Aim(j, m, step) PROVE Goal
    BY <2>3 DEF Aim
  <2>4. ASSUME NEW next, Drop(j, next) PROVE Goal
    BY <2>4 DEF Drop
  <2>5. CASE CommitJoin(j)
    BY <2>5 DEF CommitJoin
  <2>6. CASE Rollback(j)
    BY <2>6 DEF Rollback
  <2> HIDE DEF Goal
  <2> QED
    BY <1>2, JoinOutcome, <2>1, <2>2, <2>3, <2>4, <2>5, <2>6
<1>3. ASSUME NEW v \in Verifies, VerifyStep(v) PROVE Goal
  <2>1. ASSUME NEW m \in Ids, VerifyRead(v, m) PROVE Goal
    BY <2>1 DEF VerifyRead, Signable, TypeOK
  <2>2. CASE Activate(v)
    BY <2>2 DEF Activate, TypeOK
  <2>3. CASE VerifyFail(v)
    BY <2>3 DEF VerifyFail, TypeOK
  <2> QED
    BY <1>3, <2>1, <2>2, <2>3 DEF VerifyStep
<1>4. CASE JobScan
  BY <1>4 DEF JobScan, ExpiredNow
<1>5. ASSUME NEW m \in Ids, JobCancel(m) PROVE Goal
  BY <1>5 DEF JobCancel, CancelRow, TypeOK
<1>6. ASSUME NEW m \in Ids, AdminStep(m) PROVE Goal
  <2>1. CASE ReleaseRead(m)
    BY <2>1 DEF ReleaseRead
  <2>2. CASE ReleaseWrite(m)
    BY <2>2 DEF ReleaseWrite, CancelRow, TypeOK
  <2>3. CASE DefaultRead(m)
    BY <2>3 DEF DefaultRead
  <2>4. CASE DefaultWrite(m)
    BY <2>4 DEF DefaultWrite, TypeOK
  <2> QED
    BY <1>6, <2>1, <2>2, <2>3, <2>4 DEF AdminStep
<1>7. ASSUME NEW c \in Circles, UpdateCircleStatus(c) PROVE Goal
  BY <1>7 DEF UpdateCircleStatus
<1>8. CASE Tick
  BY <1>8 DEF Tick
<1>9. CASE Crash
  BY <1>9 DEF Crash
<1> QED
  BY <1>1, <1>2, <1>3, <1>4, <1>5, <1>6, <1>7, <1>8, <1>9 DEF Next

-----------------------------------------------------------------------------
(* Who else writes the membership table *)

\* Outside startJoin a step changes rows in one of four ways: not at all, by an
\* activation, by a cancellation, or by marking a row defaulted.  Rows come and
\* go only with a commit of startJoin.
LEMMA OtherOutcome ==
    ASSUME IInv, [Next]_vars, ~ \E j \in Joins : JoinStep(j)
    PROVE  /\ UNCHANGED fixed
           /\ \A j \in Joins : now'[j] = now[j]
           /\ clock <= clock'
           /\ \/ /\ UNCHANGED <<status, until, signed, count>>
                 /\ \/ UNCHANGED <<pc, target, dels>>
                    \/ Crash
              \/ /\ \E v \in Verifies : Activate(v)
                 /\ UNCHANGED <<pc, target, dels, clock>>
              \/ /\ \E m \in Rows : /\ status' = [status EXCEPT ![m] = "CANCELLED"]
                                    /\ until' = [until EXCEPT ![m] = 0]
                 /\ UNCHANGED <<pc, target, dels, signed, count, clock>>
              \/ /\ \E m \in Rows : status' = [status EXCEPT ![m] = "DEFAULTED"]
                 /\ UNCHANGED <<until, pc, target, dels, signed, count, clock>>
<1> USE DEF rows, fixed, books, joinSt, adminSt
<1>0. clock \in Nat
  BY DEF IInv, TypeOK
<1> DEFINE Goal ==
           /\ UNCHANGED fixed
           /\ \A j \in Joins : now'[j] = now[j]
           /\ clock <= clock'
           /\ \/ /\ UNCHANGED <<status, until, signed, count>>
                 /\ \/ UNCHANGED <<pc, target, dels>>
                    \/ Crash
              \/ /\ \E v \in Verifies : Activate(v)
                 /\ UNCHANGED <<pc, target, dels, clock>>
              \/ /\ \E m \in Rows : /\ status' = [status EXCEPT ![m] = "CANCELLED"]
                                    /\ until' = [until EXCEPT ![m] = 0]
                 /\ UNCHANGED <<pc, target, dels, signed, count, clock>>
              \/ /\ \E m \in Rows : status' = [status EXCEPT ![m] = "DEFAULTED"]
                 /\ UNCHANGED <<until, pc, target, dels, signed, count, clock>>
<1>1. CASE UNCHANGED vars
  BY <1>0, <1>1 DEF vars
<1>2. ASSUME NEW v \in Verifies, VerifyStep(v) PROVE Goal
  <2>1. ASSUME NEW m \in Ids, VerifyRead(v, m) PROVE Goal
    BY <1>0, <2>1 DEF VerifyRead
  <2>2. CASE Activate(v)
    <3>1. UNCHANGED <<fixed, now, clock, pc, target, dels>>
      BY <2>2 DEF Activate
    <3> QED
      BY <1>0, <2>2, <3>1
  <2>3. CASE VerifyFail(v)
    BY <1>0, <2>3 DEF VerifyFail
  <2> QED
    BY <1>2, <2>1, <2>2, <2>3 DEF VerifyStep
<1>3. CASE JobScan
  BY <1>0, <1>3 DEF JobScan
<1>4. ASSUME NEW m \in Ids, JobCancel(m) PROVE Goal
  BY <1>0, <1>4 DEF JobCancel, CancelRow
<1>5. ASSUME NEW m \in Ids, AdminStep(m) PROVE Goal
  <2>1. CASE ReleaseRead(m)
    BY <1>0, <2>1 DEF ReleaseRead
  <2>2. CASE ReleaseWrite(m)
    BY <1>0, <2>2 DEF ReleaseWrite, CancelRow
  <2>3. CASE DefaultRead(m)
    BY <1>0, <2>3 DEF DefaultRead
  <2>4. CASE DefaultWrite(m)
    BY <1>0, <2>4 DEF DefaultWrite
  <2> QED
    BY <1>5, <2>1, <2>2, <2>3, <2>4 DEF AdminStep
<1>6. ASSUME NEW c \in Circles, UpdateCircleStatus(c) PROVE Goal
  BY <1>0, <1>6 DEF UpdateCircleStatus
<1>7. CASE Tick
  BY <1>0, <1>7 DEF Tick
<1>8. CASE Crash
  <2>1. UNCHANGED <<fixed, now, clock, status, until, signed, count>>
    BY <1>8 DEF Crash
  <2> QED
    BY <1>0, <1>8, <2>1
<1> QED
  BY <1>1, <1>2, <1>3, <1>4, <1>5, <1>6, <1>7, <1>8 DEF Next

-----------------------------------------------------------------------------
(* Rows belong to committed requests *)

LEMMA NextRows == IInv /\ [Next]_vars => RowInv'
<1> SUFFICES ASSUME IInv, [Next]_vars PROVE RowInv'
  OBVIOUS
<1>0. TypeOK /\ SeedInv /\ RowInv /\ HoldInv
  BY DEF IInv
<1>1. ASSUME NEW j \in Joins, JoinStep(j) PROVE RowInv'
  <2> USE <1>0 DEF TypeOK, RowInv, notJoin, Goto, rows, fixed, books, Ids, ValidPos
  <2>1. CASE StartJoin(j)
    BY <2>1 DEF StartJoin, TxSteps
  <2>2. ASSUME NEW step \in ReadSteps, Move(j, step), InTx(j), pc[j] = "circle" => ValidPos(j)
        PROVE  RowInv'
    BY <2>2 DEF Move, InTx, TxSteps, ReadSteps
  <2>3. CASE Create(j) /\ Move(j, "draft")
    BY <2>3 DEF Create, Move, TxSteps
  <2>4. ASSUME NEW m, NEW step \in {"dropOwn", "dropHeld"}, Aim(j, m, step),
               pc[j] \in {"existing", "position"}
        PROVE  RowInv'
    BY <2>4 DEF Aim, TxSteps
  <2>5. ASSUME NEW next \in {"limit", "create"}, Drop(j, next), pc[j] \in {"dropOwn", "dropHeld"}
        PROVE  RowInv'
    BY <2>5 DEF Drop, TxSteps
  <2>6. CASE CommitJoin(j)
    BY <2>6 DEF CommitJoin, TxSteps, HoldInv
  <2>7. CASE Rollback(j) /\ InTx(j)
    BY <2>7 DEF Rollback, InTx, TxSteps
  <2> HIDE DEF RowInv, TypeOK, notJoin, Goto, rows, fixed, books, Ids, ValidPos
  <2> QED
    BY <1>1, JoinOutcome, <2>1, <2>2, <2>3, <2>4, <2>5, <2>6, <2>7
<1>2. CASE ~ \E j \in Joins : JoinStep(j)
  <2> USE <1>0 DEF TypeOK, RowInv, fixed, Ids, ValidPos
  <2>1. CASE UNCHANGED <<status, until, signed, count, pc, target, dels>>
    BY <1>2, <2>1, OtherOutcome
  <2>2. CASE Crash
    BY <2>2 DEF Crash, InTx, TxSteps, rows, books
  <2>3. ASSUME NEW v \in Verifies, Activate(v), UNCHANGED <<pc, target, dels>> PROVE RowInv'
    BY <2>3 DEF Activate, Rows
  <2>4. ASSUME NEW m \in Rows, UNCHANGED <<fixed, pc, signed>>,
               \/ status' = [status EXCEPT ![m] = "CANCELLED"]
               \/ status' = [status EXCEPT ![m] = "DEFAULTED"]
        PROVE  RowInv'
    BY <2>4 DEF Rows
  <2> HIDE DEF RowInv, TypeOK, fixed, Ids, ValidPos
  <2> QED
    BY <1>2, OtherOutcome, <2>1, <2>2, <2>3, <2>4
<1> QED
  BY <1>1, <1>2

-----------------------------------------------------------------------------
(* Deletions concern reservations that have run out *)

LEMMA NextHolds == IInv /\ [Next]_vars => HoldInv'
<1> SUFFICES ASSUME IInv, [Next]_vars PROVE HoldInv'
  OBVIOUS
<1>0. TypeOK /\ SeedInv /\ RowInv /\ HoldInv
  BY DEF IInv
<1> USE JoinFlowAssumption
<1>1. ASSUME NEW j \in Joins, JoinStep(j) PROVE HoldInv'
  <2> USE <1>0 DEF TypeOK, HoldInv, RanOut, notJoin, Goto, rows, books, Ids
  <2>1. CASE StartJoin(j)
    BY <2>1 DEF StartJoin, RowInv
  <2>2. ASSUME NEW step \in ReadSteps, Move(j, step), InTx(j) PROVE HoldInv'
    BY <2>2 DEF Move, InTx, TxSteps, ReadSteps
  <2>3. CASE Create(j) /\ Move(j, "draft")
    BY <2>3 DEF Create, Move
  <2>4. ASSUME NEW m \in Visible(j), NEW step \in {"dropOwn", "dropHeld"}, Aim(j, m, step),
               ExpiredAt(m, now[j]), pc[j] \in {"existing", "position"}
        PROVE  HoldInv'
    <3>1. m \in Joins /\ pc[m] = "joined" /\ now[m] + Hold <= now[j]
      <4>1. m \in Ids /\ status[m] = "PENDING_SIGNATURE" /\ until[m] <= now[j]
        BY <2>4 DEF Visible, Rows, ExpiredAt
      <4>2. m \in Joins
        BY <4>1 DEF SeedInv
      <4>3. pc[m] = "joined"
        BY <4>1, <4>2 DEF RowInv
      <4> QED
        BY <4>1, <4>2, <4>3
    <3> QED
      BY <2>4, <3>1 DEF Aim
  <2>5. ASSUME NEW next \in {"limit", "create"}, Drop(j, next), pc[j] \in {"dropOwn", "dropHeld"}
        PROVE  HoldInv'
    BY <2>5 DEF Drop, Visible, Rows
  <2>6. CASE CommitJoin(j)
    BY <2>6 DEF CommitJoin
  <2>7. CASE Rollback(j) /\ InTx(j)
    BY <2>7 DEF Rollback, InTx, TxSteps
  <2> HIDE DEF TypeOK, HoldInv, RanOut, notJoin, Goto, rows, books, Ids
  <2> QED
    BY <1>1, JoinOutcome, <2>1, <2>2, <2>3, <2>4, <2>5, <2>6, <2>7
<1>2. CASE ~ \E j \in Joins : JoinStep(j)
  <2>0. (\A j \in Joins : now'[j] = now[j]) /\ clock <= clock' /\ clock' \in Nat
    BY <1>2, OtherOutcome, NextTypes DEF TypeOK
  <2> USE <1>0, <2>0 DEF TypeOK, HoldInv, RanOut, Ids
  <2>1. CASE UNCHANGED <<status, until, signed, count, pc, target, dels>>
    BY <2>1
  <2>2. CASE Crash
    BY <2>2 DEF Crash, InTx, TxSteps, rows, books
  <2>3. ASSUME NEW v \in Verifies, Activate(v), UNCHANGED <<pc, target, dels, clock>>
        PROVE  HoldInv'
    BY <2>3 DEF Activate, Rows, Locked
  <2>4. ASSUME NEW m \in Rows, status' = [status EXCEPT ![m] = "CANCELLED"],
               until' = [until EXCEPT ![m] = 0],
               UNCHANGED <<pc, target, dels, signed>>
        PROVE  HoldInv'
    BY <2>4 DEF Rows
  <2>5. ASSUME NEW m \in Rows, status' = [status EXCEPT ![m] = "DEFAULTED"],
               UNCHANGED <<until, pc, target, dels, signed>>
        PROVE  HoldInv'
    BY <2>5 DEF Rows
  <2> HIDE DEF TypeOK, HoldInv, RanOut, Ids
  <2> QED
    BY <1>2, OtherOutcome, <2>1, <2>2, <2>3, <2>4, <2>5
<1> QED
  BY <1>1, <1>2

-----------------------------------------------------------------------------
(* One row per seat *)

LEMMA NextSeats == IInv /\ [Next]_vars => SeatInv'
<1> SUFFICES ASSUME IInv, [Next]_vars PROVE SeatInv'
  OBVIOUS
<1>0. TypeOK /\ RowInv /\ HoldInv /\ SeatInv
  BY DEF IInv
<1>1. ASSUME NEW j \in Joins, JoinStep(j) PROVE SeatInv'
  <2>0. UNCHANGED fixed
    BY <1>1, JoinOutcome DEF StartJoin, Move, Aim, Drop, CommitJoin, Rollback, notJoin
  <2> USE <1>0, <2>0 DEF TypeOK, SeatInv, SameSeat, Rows, Goto, rows, fixed, Ids
  <2>1. CASE StartJoin(j)
    BY <2>1 DEF StartJoin
  <2>2. ASSUME NEW step \in ReadSteps, Move(j, step) PROVE SeatInv'
    BY <2>2 DEF Move, ReadSteps
  <2>3. CASE Create(j) /\ Move(j, "draft")
    <3>1. /\ \A k \in Joins \ {j} : ~(pc[k] = "draft" /\ SameSeat(k, j))
          /\ \A m \in Rows : SameSeat(m, j) => m \in dels[j]
      BY <2>3 DEF Create, Move, SeatContended, Visible, Rollback
    <3> QED
      BY <2>3, <3>1 DEF Move
  <2>4. ASSUME NEW m, NEW step \in {"dropOwn", "dropHeld"}, Aim(j, m, step) PROVE SeatInv'
    BY <2>4 DEF Aim
  <2>5. ASSUME NEW next \in {"limit", "create"}, Drop(j, next) PROVE SeatInv'
    BY <2>5 DEF Drop
  <2>6. CASE CommitJoin(j)
    <3>1. /\ Rows' = (Rows \ dels[j]) \cup {j}
          /\ pc[j] = "draft" /\ pc' = [pc EXCEPT ![j] = "joined"]
          /\ dels' = [dels EXCEPT ![j] = {}]
      BY <2>6 DEF CommitJoin, HoldInv, RanOut
    <3>2. ASSUME NEW m \in Rows', NEW n \in Rows', SameSeat(m, n)' PROVE m = n
      BY <3>1, <3>2
    <3>3. ASSUME NEW k \in Joins, pc'[k] = "draft"
          PROVE  /\ \A m \in Rows' : SameSeat(m, k)' => m \in dels'[k]
                 /\ \A i \in Joins : pc'[i] = "draft" /\ SameSeat(i, k)' => i = k
      BY <3>1, <3>3
    <3> QED
      BY <3>2, <3>3
  <2>7. CASE Rollback(j)
    BY <2>7 DEF Rollback
  <2> HIDE DEF TypeOK, SeatInv, SameSeat, Rows, Goto, rows, fixed, Ids
  <2> QED
    BY <1>1, JoinOutcome, <2>1, <2>2, <2>3, <2>4, <2>5, <2>6, <2>7
<1>2. CASE ~ \E j \in Joins : JoinStep(j)
  <2>1. UNCHANGED fixed /\ Rows' = Rows
    <3>1. CASE UNCHANGED status
      BY <1>2, <3>1, OtherOutcome DEF Rows
    <3>2. ASSUME NEW v \in Verifies, Activate(v) PROVE Rows' = Rows
      BY <1>0, <3>2 DEF Activate, Rows, TypeOK
    <3>3. ASSUME NEW m \in Rows, \/ status' = [status EXCEPT ![m] = "CANCELLED"]
                                 \/ status' = [status EXCEPT ![m] = "DEFAULTED"]
          PROVE  Rows' = Rows
      BY <1>0, <3>3 DEF Rows, TypeOK
    <3> QED
      BY <1>2, OtherOutcome, <3>1, <3>2, <3>3
  <2>2. CASE UNCHANGED <<pc, dels>>
    BY <1>0, <2>1, <2>2 DEF SeatInv, SameSeat, fixed
  <2>3. CASE Crash
    BY <1>0, <2>1, <2>3 DEF Crash, SeatInv, SameSeat, fixed, InTx, TxSteps
  <2> QED
    BY <1>2, OtherOutcome, <2>2, <2>3
<1> QED
  BY <1>1, <1>2

-----------------------------------------------------------------------------
(* The member count *)

LEMMA NextCount == IInv /\ [Next]_vars => CountIsMembers'
<1> SUFFICES ASSUME IInv, [Next]_vars, NEW c \in Circles
             PROVE  count'[c] = Cardinality({m \in SoldRows' : circle'[m] = c})
  BY DEF CountIsMembers
<1>0. TypeOK /\ SeedInv /\ CountIsMembers
  BY DEF IInv
<1> DEFINE Members == {m \in SoldRows : circle[m] = c}
<1>1. count[c] = Cardinality(Members)
  BY <1>0 DEF CountIsMembers
<1>2. CASE UNCHANGED <<signed, count, circle>>
  BY <1>1, <1>2 DEF SoldRows
<1>3. ASSUME NEW v \in Verifies, Activate(v)
      PROVE  count'[c] = Cardinality({m \in SoldRows' : circle'[m] = c})
  <2> DEFINE n == vmem[v]
  <2>1. /\ n \in Joins /\ n \notin SoldRows
        /\ signed' = signed \cup {n} /\ circle' = circle
        /\ count' = [count EXCEPT ![circle[n]] = @ + 1]
    <3>1. /\ n \in Ids \ signed /\ signed' = signed \cup {n} /\ circle' = circle
          /\ count' = [count EXCEPT ![circle[n]] = @ + 1]
      BY <1>3 DEF Activate, Rows, fixed
    <3>2. n \notin Seeds
      BY <1>0 DEF SeedInv
    <3> QED
      BY <3>1, <3>2 DEF Ids, SoldRows
  <2>2. CASE circle[n] = c
    <3>1. {m \in SoldRows' : circle'[m] = c} = Members \cup {n}
      BY <2>1, <2>2 DEF SoldRows
    <3>2. Cardinality(Members \cup {n}) = Cardinality(Members) + 1
      <4>1. IsFiniteSet(Members) /\ n \notin Members
        BY <1>0, <2>1, MembersFinite
      <4> HIDE DEF Members, n
      <4> QED
        BY <4>1, FS_AddElement
    <3> QED
      BY <1>0, <1>1, <2>1, <2>2, <3>1, <3>2 DEF TypeOK
  <2>3. CASE circle[n] # c
    <3>1. {m \in SoldRows' : circle'[m] = c} = Members
      BY <2>1, <2>3 DEF SoldRows
    <3> QED
      BY <1>0, <1>1, <2>1, <2>3, <3>1 DEF TypeOK
  <2> QED
    BY <2>2, <2>3
<1>4. ASSUME NEW j \in Joins, JoinStep(j) PROVE UNCHANGED <<signed, count, circle>>
  BY <1>4, JoinOutcome
     DEF StartJoin, Move, Aim, Drop, CommitJoin, Rollback, notJoin, fixed, books
<1>5. CASE ~ \E j \in Joins : JoinStep(j)
  <2>1. CASE Crash
    BY <1>2, <2>1 DEF Crash, books, fixed
  <2> QED
    BY <1>2, <1>3, <1>5, <2>1, OtherOutcome DEF fixed
<1> QED
  BY <1>2, <1>4, <1>5

-----------------------------------------------------------------------------
(* The theorems *)

\* IInv holds in every reachable state, for every value of the constants.
THEOREM Inductive == Spec => []IInv
<1>1. IInv /\ [Next]_vars => IInv'
  BY NextTypes, NextSeeds, NextRows, NextHolds, NextSeats, NextCount DEF IInv
<1> QED
  BY InitIInv, <1>1, PTL DEF Spec

\* Every variable keeps its type, and only join requests get a contract.
THEOREM TypeCorrect == Spec => []TypeOK
<1>1. IInv => TypeOK
  BY DEF IInv
<1> QED
  BY <1>1, Inductive, PTL

\* Activated and seeded rows are never deleted.
THEOREM SoldRowsAreKept == Spec => []SoldRowsStay
<1>1. IInv => SoldRowsStay
  BY DEF IInv, TypeOK, SeedInv, RowInv, SoldRowsStay, SoldRows, Rows, Ids
<1> QED
  BY <1>1, Inductive, PTL

\* No position of a circle is ever paid out to two memberships.
THEOREM SeatsSoldOnce == Spec => []OnePayoutPerSeat
<1>1. IInv => OnePayoutPerSeat
  <2> SUFFICES ASSUME IInv PROVE OnePayoutPerSeat
    OBVIOUS
  <2>1. SoldRows \subseteq Rows
    BY DEF IInv, TypeOK, SeedInv, RowInv, SoldRows, Rows, Ids
  <2> QED
    BY <2>1 DEF IInv, SeatInv, OnePayoutPerSeat
<1> QED
  BY <1>1, Inductive, PTL

\* currentMembersCount is the number of members, whatever the interleaving.
THEOREM CountCorrect == Spec => []CountIsMembers
<1>1. IInv => CountIsMembers
  BY DEF IInv
<1> QED
  BY <1>1, Inductive, PTL

\* A circle never has more members than positions: members map one to one to
\* positions 1..durationMonths, so the count is bounded although the activation
\* does not look at the capacity.
THEOREM CirclesNeverOversold == Spec => []NeverOversold
<1>1. IInv => NeverOversold
  <2> SUFFICES ASSUME IInv, NEW c \in Circles PROVE count[c] <= Duration[c]
    BY DEF NeverOversold
  <2>0. TypeOK /\ SeedInv /\ RowInv /\ SeatInv
    BY DEF IInv
  <2> DEFINE Members == {m \in SoldRows : circle[m] = c}
             Places == 1 .. Duration[c]
             Place == [m \in Members |-> pos[m]]
  <2>1. IsFiniteSet(Members) /\ Cardinality(Members) \in Nat /\ count[c] = Cardinality(Members)
    BY <2>0, MembersFinite DEF IInv, CountIsMembers
  <2>2. Duration[c] \in Nat /\ IsFiniteSet(Places) /\ Cardinality(Places) = Duration[c]
    BY FS_Interval, JoinFlowAssumption
  <2>3. Members \subseteq Rows
    BY <2>0 DEF TypeOK, SeedInv, RowInv, SoldRows, Rows, Ids
  <2>4. ASSUME NEW m \in Members PROVE pos[m] \in Places
    <3>1. CASE m \in Seeds
      BY <2>0, <3>1, JoinFlowAssumption DEF SeedInv
    <3>2. CASE m \in signed
      <4>1. m \in Joins /\ pc[m] = "joined"
        BY <2>0, <3>2 DEF TypeOK, RowInv
      <4> QED
        BY <2>0, <4>1 DEF RowInv, ValidPos
    <3> QED
      BY <2>4, <3>1, <3>2 DEF SoldRows
  <2>5. Place \in [Members -> Places]
    BY <2>4
  <2>6. \A m, n \in Members : Place[m] = Place[n] => m = n
    BY <2>0, <2>3 DEF SeatInv, SameSeat
  <2>7. ~(Cardinality(Places) < Cardinality(Members))
    <3> HIDE DEF Members, Places, Place
    <3> QED
      BY <2>1, <2>2, <2>5, <2>6, FS_PigeonHole
  <2> HIDE DEF Members, Places, Place
  <2> QED
    BY <2>1, <2>2, <2>7
<1> QED
  BY <1>1, Inductive, PTL

\* Only an expired reservation is ever deleted, and only when the deleting
\* request itself read the clock after the reservation ran out.
THEOREM DeletionWaitsForHold == Spec => DeletedOnlyAfterHold
<1> DEFINE Waits == \A m \in Joins : m \in Rows /\ m \notin Rows' => now[m] + Hold <= clock
<1>1. IInv /\ [Next]_vars => Waits
  <2> SUFFICES ASSUME IInv, [Next]_vars, NEW m \in Joins, m \in Rows, m \notin Rows'
               PROVE  now[m] + Hold <= clock
    OBVIOUS
  <2>0. TypeOK /\ HoldInv
    BY DEF IInv
  <2>1. ASSUME NEW j \in Joins, JoinStep(j) PROVE now[m] + Hold <= clock
    <3>1. CASE CommitJoin(j)
      <4>1. m \in dels[j] /\ pc[j] = "draft"
        BY <2>0, <3>1 DEF CommitJoin, Rows, TypeOK
      <4>2. now[m] + Hold <= now[j] /\ now[j] <= clock
        BY <2>0, <4>1 DEF HoldInv, RanOut
      <4> QED
        BY <2>0, <4>2, JoinFlowAssumption DEF TypeOK
    <3>2. CASE UNCHANGED status
      BY <3>2 DEF Rows
    <3> QED
      BY <2>1, <3>1, <3>2, JoinOutcome DEF StartJoin, Move, Aim, Drop, Rollback, rows
  <2>2. CASE ~ \E j \in Joins : JoinStep(j)
    <3>1. CASE UNCHANGED status
      BY <3>1 DEF Rows
    <3>2. ASSUME NEW v \in Verifies, Activate(v) PROVE FALSE
      BY <2>0, <3>2 DEF Activate, Rows, TypeOK
    <3>3. ASSUME NEW n \in Rows, \/ status' = [status EXCEPT ![n] = "CANCELLED"]
                                 \/ status' = [status EXCEPT ![n] = "DEFAULTED"]
          PROVE  FALSE
      BY <2>0, <3>3 DEF Rows, TypeOK
    <3> QED
      BY <2>2, <3>1, <3>2, <3>3, OtherOutcome
  <2> QED
    BY <2>1, <2>2
<1> QED
  BY <1>1, Inductive, PTL DEF Spec, DeletedOnlyAfterHold

\* As long as the draft is read on a pool connection no request ever gets a row:
\* the only rows are those the database started with.
THEOREM PoolReservesNothing == Spec => []NothingReservedOnPool
<1>1. Init => NothingReservedOnPool
  BY DEF Init, NothingReservedOnPool, Rows, Ids
<1>2. IInv /\ NothingReservedOnPool /\ [Next]_vars => NothingReservedOnPool'
  <2> SUFFICES ASSUME IInv, NothingReservedOnPool, [Next]_vars, ~draftOnTx'
               PROVE  Rows' = Seeds
    BY DEF NothingReservedOnPool
  <2>0. TypeOK /\ RowInv
    BY DEF IInv
  <2>1. ASSUME UNCHANGED <<status, draftOnTx>> PROVE Rows' = Seeds
    BY <2>1 DEF NothingReservedOnPool, Rows
  <2>2. ASSUME NEW j \in Joins, JoinStep(j) PROVE UNCHANGED <<status, draftOnTx>>
    <3>1. UNCHANGED draftOnTx
      BY <2>2, JoinOutcome
         DEF StartJoin, Move, Aim, Drop, CommitJoin, Rollback, notJoin, fixed
    <3>2. CASE CommitJoin(j)
      <4>1. j \in Rows /\ pc[j] = "draft"
        BY <3>1, <3>2 DEF CommitJoin, DraftFinds
      <4> QED
        BY <2>0, <4>1 DEF RowInv, Rows
    <3> QED
      BY <2>2, <3>1, <3>2, JoinOutcome DEF StartJoin, Move, Aim, Drop, Rollback, rows
  <2>3. CASE ~ \E j \in Joins : JoinStep(j)
    <3>1. UNCHANGED draftOnTx
      BY <2>3, OtherOutcome DEF fixed
    <3>2. ASSUME NEW m \in Rows, NEW st \in {"ACTIVE", "CANCELLED", "DEFAULTED"},
                 status' = [status EXCEPT ![m] = st]
          PROVE  Rows' = Rows
      BY <2>0, <3>2 DEF Rows, TypeOK
    <3>3. ASSUME NEW v \in Verifies, Activate(v) PROVE Rows' = Rows
      <4>1. vmem[v] \in Rows /\ status' = [status EXCEPT ![vmem[v]] = "ACTIVE"]
        BY <3>3 DEF Activate
      <4> QED
        BY <3>2, <4>1
    <3>4. CASE UNCHANGED status
      BY <2>1, <3>1, <3>4
    <3>5. Rows' = Rows \/ UNCHANGED status
      BY <2>3, <3>2, <3>3, OtherOutcome
    <3> QED
      BY <3>1, <3>4, <3>5 DEF NothingReservedOnPool
  <2> QED
    BY <2>1, <2>2, <2>3
<1> QED
  BY <1>1, <1>2, Inductive, PTL DEF Spec

-----------------------------------------------------------------------------
(* A reservation runs once, and runs out *)

\* The safety half of ReservationSettled: a reservation ends at most Hold from
\* now, no step extends it, and one that was signed, cancelled, defaulted or
\* deleted never runs again, although startJoin, the activation, the job and
\* the admins all write the row by id alone.
ReservationRunsOut ==
    [][\A m \in Joins :
            /\ status[m] = "PENDING_SIGNATURE" =>
                /\ until[m] <= clock + Hold
                /\ status'[m] = "PENDING_SIGNATURE" => until'[m] = until[m]
            /\ pc[m] = "joined" /\ status[m] # "PENDING_SIGNATURE"
                => status'[m] # "PENDING_SIGNATURE"]_vars

THEOREM ReservationsRunOut == Spec => ReservationRunsOut
<1> DEFINE Once(m) == /\ status'[m] = "PENDING_SIGNATURE" => until'[m] = until[m]
                      /\ status[m] # "PENDING_SIGNATURE" => status'[m] # "PENDING_SIGNATURE"
<1>1. IInv => \A m \in Joins : status[m] = "PENDING_SIGNATURE" => until[m] <= clock + Hold
  <2> SUFFICES ASSUME IInv, NEW m \in Joins, status[m] = "PENDING_SIGNATURE"
               PROVE  until[m] <= clock + Hold
    OBVIOUS
  <2>0. TypeOK /\ RowInv /\ HoldInv
    BY DEF IInv
  <2>1. pc[m] = "joined"
    BY <2>0 DEF RowInv
  <2>2. until[m] = now[m] + Hold /\ now[m] <= clock
    BY <2>0, <2>1 DEF HoldInv
  <2> QED
    BY <2>0, <2>2, JoinFlowAssumption DEF TypeOK
<1>2. IInv /\ [Next]_vars => \A m \in Joins : pc[m] = "joined" => Once(m)
  <2> SUFFICES ASSUME IInv, [Next]_vars, NEW m \in Joins, pc[m] = "joined" PROVE Once(m)
    OBVIOUS
  <2>0. TypeOK
    BY DEF IInv
  <2>1. CASE UNCHANGED <<status, until>>
    BY <2>1
  <2>2. ASSUME NEW j \in Joins, JoinStep(j) PROVE Once(m)
    <3>1. CASE CommitJoin(j)
      <4>1. j # m
        BY <3>1 DEF CommitJoin
      <4> QED
        BY <2>0, <3>1, <4>1 DEF CommitJoin, TypeOK, Ids
    <3> QED
      BY <2>1, <2>2, <3>1, JoinOutcome DEF StartJoin, Move, Aim, Drop, Rollback, rows
  <2>3. ASSUME NEW n \in Rows, NEW st \in {"ACTIVE", "CANCELLED"},
               status' = [status EXCEPT ![n] = st], until' = [until EXCEPT ![n] = 0]
        PROVE  Once(m)
    BY <2>0, <2>3 DEF Rows, TypeOK, Ids
  <2>4. ASSUME NEW n \in Rows, status' = [status EXCEPT ![n] = "DEFAULTED"], UNCHANGED until
        PROVE  Once(m)
    BY <2>0, <2>4 DEF Rows, TypeOK, Ids
  <2>5. ASSUME NEW v \in Verifies, Activate(v) PROVE Once(m)
    BY <2>3, <2>5 DEF Activate
  <2> HIDE DEF Once
  <2> QED
    BY <2>1, <2>2, <2>3, <2>4, <2>5, OtherOutcome
<1>3. IInv /\ [Next]_vars =>
        \A m \in Joins :
            /\ status[m] = "PENDING_SIGNATURE" =>
                /\ until[m] <= clock + Hold
                /\ status'[m] = "PENDING_SIGNATURE" => until'[m] = until[m]
            /\ pc[m] = "joined" /\ status[m] # "PENDING_SIGNATURE"
                => status'[m] # "PENDING_SIGNATURE"
  <2>1. IInv => \A m \in Joins : status[m] = "PENDING_SIGNATURE" => pc[m] = "joined"
    BY DEF IInv, RowInv
  <2> QED
    BY <1>1, <1>2, <2>1
<1> QED
  BY <1>3, Inductive, PTL DEF Spec, ReservationRunsOut

-----------------------------------------------------------------------------
(* JoinFlow implements SeatSale, for every value of the constants. *)


\* Seeded seats are held from the start, each by one customer, and counted.
LEMMA InitialSale == Init => Sale!Init
<1> SUFFICES ASSUME Init PROVE Sale!Init
  OBVIOUS
<1> USE JoinFlowAssumption, NoOneAssumption
<1>0. TypeOK /\ SoldRows = Seeds /\ count = [c \in Circles |-> InitCount(c)]
  BY InitIInv DEF IInv, SoldRows, Init
<1>1. \A s \in SeatSet : SoldAt(s) = {m \in Seeds : SeedCircle[m] = s[1] /\ SeedPos[m] = s[2]}
  BY <1>0 DEF SoldAt, Init, Ids
<1>2. SeatHolder \in [SeatSet -> Customers \cup {NoOne}]
  <2>1. ASSUME NEW s \in SeatSet, SoldAt(s) # {}
        PROVE  owner[CHOOSE m \in SoldAt(s) : TRUE] \in Customers
    <3>1. (CHOOSE m \in SoldAt(s) : TRUE) \in SoldAt(s)
      BY <2>1
    <3>2. SoldAt(s) \subseteq Ids
      BY <1>0 DEF SoldAt, Ids
    <3> QED
      BY <1>0, <3>1, <3>2 DEF TypeOK
  <2> QED
    BY <2>1 DEF SeatHolder
<1>3. \A S : Sale!Cardinality(S) = Cardinality(S)
  BY Zenon DEF Sale!Cardinality, Cardinality
<1>4. ASSUME NEW c \in Circles PROVE InitCount(c) = Cardinality(Sale!SeatsHeld(c))
  <2> DEFINE S == {m \in Seeds : SeedCircle[m] = c}
             T == Sale!SeatsHeld(c)
             f == [m \in S |-> <<c, SeedPos[m]>>]
  <2>1. T = {s \in SeatSet : s[1] = c /\ SoldAt(s) # {}}
    <3>1. ASSUME NEW s \in SeatSet PROVE SeatHolder[s] # NoOne <=> SoldAt(s) # {}
      <4>1. CASE SoldAt(s) # {}
        <5>1. (CHOOSE m \in SoldAt(s) : TRUE) \in SoldAt(s)
          BY <4>1
        <5>2. SoldAt(s) \subseteq Ids
          BY <1>0 DEF SoldAt, Ids
        <5>3. owner[CHOOSE m \in SoldAt(s) : TRUE] \in Customers
          BY <1>0, <5>1, <5>2 DEF TypeOK
        <5> QED
          BY <4>1, <5>3 DEF SeatHolder
      <4>2. CASE SoldAt(s) = {}
        BY <4>2 DEF SeatHolder
      <4> QED
        BY <4>1, <4>2
    <3> QED
      BY <3>1 DEF Sale!SeatsHeld, Sale!Seats, SeatSet
  <2>2. \A m \in S : f[m] \in T
    <3> SUFFICES ASSUME NEW m \in S PROVE <<c, SeedPos[m]>> \in T
      OBVIOUS
    <3>1. <<c, SeedPos[m]>> \in SeatSet
      BY DEF SeatSet
    <3>2. m \in SoldAt(<<c, SeedPos[m]>>)
      BY <1>1, <3>1
    <3> HIDE DEF S, T
    <3> QED
      BY <2>1, <3>1, <3>2
  <2>3. \A m, n \in S : f[m] = f[n] => m = n
    OBVIOUS
  <2>4. \A t \in T : \E m \in S : f[m] = t
    <3> SUFFICES ASSUME NEW t \in T PROVE \E m \in S : f[m] = t
      OBVIOUS
    <3>1. t \in SeatSet /\ t[1] = c /\ SoldAt(t) # {}
      BY <2>1
    <3>2. t = <<t[1], t[2]>>
      BY <3>1 DEF SeatSet
    <3>3. PICK m \in SoldAt(t) : TRUE
      BY <3>1
    <3>4. m \in Seeds /\ SeedCircle[m] = c /\ SeedPos[m] = t[2]
      BY <1>1, <3>1, <3>3
    <3> QED
      BY <3>1, <3>2, <3>4
  <2>5. f \in Bijection(S, T)
    BY <2>2, <2>3, <2>4 DEF Bijection, Injection, Surjection, IsInjective
  <2>6. IsFiniteSet(S)
    BY FS_Subset
  <2>7. Cardinality(T) = Cardinality(S)
    <3> HIDE DEF S, T, f
    <3> QED
      BY <2>5, <2>6, FS_Bijection DEF ExistsBijection
  <2> QED
    BY <2>7 DEF InitCount
<1> QED
  BY <1>0, <1>2, <1>3, <1>4 DEF Sale!Init, Sale!Seats, SeatSet

\* While no one signs, no seat changes hands.
LEMMA NothingSold ==
    ASSUME UNCHANGED <<signed, owner, circle, pos>>
    PROVE  SeatHolder' = SeatHolder
BY DEF SeatHolder, SoldAt, SoldRows

\* An activation sells the seat of its row, which nobody held, to the customer
\* of that row.
LEMMA ActivationSells ==
    ASSUME IInv, IInv', NEW v \in Verifies, Activate(v)
    PROVE  Sale!Next
<1>0. TypeOK /\ SeedInv /\ RowInv /\ SeatInv
  BY DEF IInv
<1>1. PICK n, c, p : n = vmem[v] /\ c = circle[n] /\ p = pos[n]
  OBVIOUS
<1> DEFINE seat == <<c, p>>
<1>2. /\ n \in Rows \ signed /\ n \in Ids /\ n \notin Seeds
      /\ signed' = signed \cup {n}
      /\ count' = [count EXCEPT ![c] = @ + 1]
      /\ owner' = owner /\ circle' = circle /\ pos' = pos
  BY <1>0, <1>1 DEF Activate, Rows, SeedInv, fixed
<1>3. owner[n] \in Customers /\ c \in Circles /\ p \in 1 .. Duration[c]
  <2>1. n \in Joins /\ pc[n] = "joined"
    BY <1>0, <1>2 DEF RowInv, Rows, Ids
  <2> QED
    BY <1>0, <1>1, <1>2, <2>1 DEF TypeOK, RowInv, ValidPos
<1>4. seat \in SeatSet
  BY <1>3 DEF SeatSet
<1>5. SoldAt(seat) = {}
  <2> SUFFICES ASSUME NEW m \in SoldAt(seat) PROVE FALSE
    OBVIOUS
  <2>1. m \in SoldRows /\ circle[m] = c /\ pos[m] = p
    BY DEF SoldAt
  <2>2. m \in Rows
    BY <1>0, <2>1 DEF TypeOK, SeedInv, RowInv, SoldRows, Rows, Ids
  <2>3. m = n
    BY <1>0, <1>1, <1>2, <2>1, <2>2 DEF SeatInv, SameSeat
  <2> QED
    BY <1>2, <2>1, <2>3 DEF SoldRows
<1>6. SoldAt(seat)' = {n}
  <2>1. \A m \in SoldRows : ~(circle[m] = c /\ pos[m] = p)
    BY <1>5 DEF SoldAt
  <2>2. SoldRows' = SoldRows \cup {n}
    BY <1>2 DEF SoldRows
  <2>3. SoldAt(seat)' = {m \in SoldRows \cup {n} : circle[m] = c /\ pos[m] = p}
    BY <1>2, <2>2 DEF SoldAt
  <2> QED
    BY <1>1, <2>1, <2>3
<1>7. \A s \in SeatSet : s # seat => SoldAt(s)' = SoldAt(s)
  <2> SUFFICES ASSUME NEW s \in SeatSet, s # seat PROVE SoldAt(s)' = SoldAt(s)
    OBVIOUS
  <2>1. ~(c = s[1] /\ p = s[2])
    BY DEF SeatSet
  <2> QED
    BY <1>1, <1>2, <2>1 DEF SoldAt, SoldRows
<1>8. SeatHolder[seat] = NoOne
  BY <1>4, <1>5 DEF SeatHolder
<1>9. SeatHolder' = [SeatHolder EXCEPT ![seat] = owner[n]]
  <2>1. SeatHolder'[seat] = owner[n]
    BY <1>2, <1>4, <1>6 DEF SeatHolder
  <2>2. ASSUME NEW s \in SeatSet, s # seat PROVE SeatHolder'[s] = SeatHolder[s]
    <3>1. SoldAt(s)' = SoldAt(s)
      BY <1>7, <2>2
    <3>2. SeatHolder'[s] = IF SoldAt(s)' = {} THEN NoOne
                           ELSE owner[CHOOSE m \in SoldAt(s)' : TRUE]
      BY <1>2 DEF SeatHolder
    <3>3. SeatHolder[s] = IF SoldAt(s) = {} THEN NoOne
                          ELSE owner[CHOOSE m \in SoldAt(s) : TRUE]
      BY DEF SeatHolder
    <3> QED
      BY <3>1, <3>2, <3>3
  <2>3. /\ SeatHolder = [s \in SeatSet |-> SeatHolder[s]]
        /\ SeatHolder' = [s \in SeatSet |-> SeatHolder'[s]]
    BY DEF SeatHolder
  <2> HIDE DEF seat
  <2> QED
    BY <1>4, <2>1, <2>2, <2>3
<1>10. Sale!Sell(seat, owner[n])
  BY <1>2, <1>8, <1>9 DEF Sale!Sell
<1> QED
  BY <1>3, <1>4, <1>10 DEF Sale!Next, Sale!Seats, SeatSet

\* Every step of the join flow is a sale of one seat, or no step of the sale.
LEMMA NextSale == IInv /\ IInv' /\ [Next]_vars => [Sale!Next]_<<SeatHolder, count>>
<1> SUFFICES ASSUME IInv, IInv', [Next]_vars
             PROVE  Sale!Next \/ UNCHANGED <<SeatHolder, count>>
  OBVIOUS
<1>1. CASE UNCHANGED <<signed, count, owner, circle, pos>>
  BY <1>1, NothingSold
<1>2. ASSUME NEW v \in Verifies, Activate(v) PROVE Sale!Next
  BY <1>2, ActivationSells
<1>3. ASSUME NEW j \in Joins, JoinStep(j) PROVE UNCHANGED <<signed, count, owner, circle, pos>>
  BY <1>3, JoinOutcome
     DEF StartJoin, Move, Aim, Drop, CommitJoin, Rollback, notJoin, fixed, books
<1>4. CASE ~ \E j \in Joins : JoinStep(j)
  <2>1. CASE Crash
    BY <1>1, <2>1 DEF Crash, books, fixed
  <2> QED
    BY <1>1, <1>2, <1>4, <2>1, OtherOutcome DEF fixed
<1> QED
  BY <1>1, <1>3, <1>4

\* The join flow implements the sale of seats: whatever requests, jobs, admins
\* and restarts do, seats are only ever sold, one at a time, to one customer,
\* each counted once, and never resold or taken back.
THEOREM JoinFlowSells == Spec => SaleSpec
<1>1. Init => Sale!Init
  BY InitialSale
<1>2. IInv /\ IInv' /\ [Next]_vars => [Sale!Next]_<<SeatHolder, count>>
  BY NextSale
<1> QED
  BY <1>1, <1>2, Inductive, PTL DEF Spec, SaleSpec, Sale!Spec
=============================================================================
