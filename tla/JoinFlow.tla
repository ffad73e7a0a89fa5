------------------------------ MODULE JoinFlow ------------------------------
(***************************************************************************)
(* Joining a savings circle: CustomerCirclesService.startJoin,             *)
(* acceptContract and verifyContractOtpAndFinalize, the reservation-expiry *)
(* job and the admin decisions on memberships, all of them running         *)
(* concurrently against one PostgreSQL database.                           *)
(*                                                                         *)
(* Isolation.  The code opens Prisma interactive transactions without an   *)
(* isolation level, so PostgreSQL runs them READ COMMITTED: each statement *)
(* reads what is committed when it runs, a row deleted or a unique key     *)
(* inserted by an open transaction blocks whoever touches it until that    *)
(* transaction ends, and an UPDATE or DELETE "where id" re-checks the id   *)
(* only.  One statement of startJoin is one action.  The transactions of   *)
(* the other handlers write rows they lock and read nothing that could     *)
(* change in between, so each of them is one action.                       *)
(*                                                                         *)
(* A membership row is named by the join request that inserts it (its      *)
(* uuid is fresh, a request inserts at most one row); Seeds are the rows   *)
(* the database holds when the server starts.                              *)
(*                                                                         *)
(* A definition introduced by "Slip:" is no part of the model: it is the   *)
(* definition below it with one thing the code relies on left out, and     *)
(* shows which property depends on that thing.                             *)
(***************************************************************************)
EXTENDS Integers, FiniteSets, FiniteSetsExt

CONSTANTS
    Customers,      \* customers that may ask to join
    Circles,        \* circles
    Duration,       \* [Circles -> Nat]: durationMonths, which is also memberCapacity
    Contribution,   \* [Circles -> Nat]: contributionAmount
    Limit,          \* [Customers -> Nat]: participationLimit of the latest decision
    Positions,      \* positions a request may ask for, legal or not
    Joins,          \* join requests (POST /customer/circles/:id/join)
    Verifies,       \* worker slots for signature verifications in progress
    Seeds,          \* membership rows present at start, all ACTIVE (prisma/seed.ts)
    SeedOwner,      \* [Seeds -> Customers]
    SeedCircle,     \* [Seeds -> Circles]
    SeedPos,        \* [Seeds -> Positions]
    DraftModes,     \* what draftOnTx may be in this instance
    MayAbort,       \* may an open transaction hit its time limit or lose its connection?
    AdminActs,      \* do admins take membership decisions in this instance?
    Hold,           \* the 15 minutes of a reservation, in clock ticks
    MaxClock,       \* bound on the clock
    MaxCrashes,     \* bound on server restarts
    NoId            \* no membership

Ids == Joins \cup Seeds

ASSUME JoinFlowAssumption ==
    /\ IsFiniteSet(Joins) /\ IsFiniteSet(Seeds) /\ Joins \cap Seeds = {}
    /\ NoId \notin Ids
    /\ Duration \in [Circles -> Nat] /\ Contribution \in [Circles -> Nat]
    /\ Limit \in [Customers -> Nat]
    /\ SeedOwner \in [Seeds -> Customers]
    /\ SeedCircle \in [Seeds -> Circles]
    /\ SeedPos \in [Seeds -> Positions] /\ Positions \subseteq Nat
    /\ \A s \in Seeds : SeedPos[s] \in 1 .. Duration[SeedCircle[s]]
    /\ \A s, t \in Seeds : SeedCircle[s] = SeedCircle[t] /\ SeedPos[s] = SeedPos[t] => s = t
    /\ DraftModes \subseteq BOOLEAN /\ MayAbort \in BOOLEAN /\ AdminActs \in BOOLEAN
    /\ Hold \in Nat \ {0} /\ MaxClock \in Nat /\ MaxCrashes \in Nat

VARIABLES
    \* the membership table: row m, NONE when there is no such row
    status,         \* [Ids -> Statuses]
    until,          \* [Ids -> Nat]: reservedUntil, 0 for null
    owner,          \* [Ids -> Customers]: customerId (of the request, of the row)
    circle,         \* [Ids -> Circles]: circleId
    pos,            \* [Ids -> Nat]: payoutPosition
    draftOnTx,      \* does generateDraft see what the caller's transaction wrote?
    \* the other tables
    signed,         \* rows with their contract, installments and payout
    count,          \* [Circles -> Nat]: currentMembersCount
    open,           \* circles whose status is UPCOMING
    \* startJoin requests
    pc,             \* [Joins -> JoinSteps]
    now,            \* [Joins -> Nat]: the request's `now`
    target,         \* [Joins -> Ids \cup {NoId}]: expired row it is about to delete
    dels,           \* [Joins -> SUBSET Ids]: rows deleted, not yet committed
    \* verify requests
    vmem,           \* [Verifies -> Ids \cup {NoId}]: the membership it found signable
    \* the other in-flight work: what was read and not yet written
    batch,          \* rows the expiry job found and has not yet cancelled
    releasing,      \* rows an admin release found PENDING_SIGNATURE
    defaulting,     \* rows an admin mark-defaulted found in a legal status
    clock, crashes

rows    == <<status, until>>
fixed   == <<owner, circle, pos, draftOnTx>>
books   == <<signed, count>>
joinSt  == <<pc, now, target, dels>>
adminSt == <<batch, releasing, defaulting>>
vars    == <<rows, fixed, books, open, joinSt, vmem, adminSt, clock, crashes>>

Statuses == {"NONE", "PENDING_SIGNATURE", "ACTIVE", "CANCELLED", "DEFAULTED"}

\* The statements of the startJoin transaction, in program order.
TxSteps == {"circle", "existing", "dropOwn", "limit", "position", "dropHeld", "create", "draft"}
JoinSteps == {"idle", "joined", "refused"} \cup TxSteps

TypeOK ==
    /\ status \in [Ids -> Statuses]
    /\ until \in [Ids -> Nat]
    /\ owner \in [Ids -> Customers] /\ circle \in [Ids -> Circles] /\ pos \in [Ids -> Nat]
    /\ draftOnTx \in BOOLEAN
    /\ signed \in SUBSET Joins
    /\ count \in [Circles -> Nat]
    /\ open \in SUBSET Circles
    /\ pc \in [Joins -> JoinSteps]
    /\ now \in [Joins -> Nat]
    /\ target \in [Joins -> Ids \cup {NoId}]
    /\ dels \in [Joins -> SUBSET Ids]
    /\ vmem \in [Verifies -> Ids \cup {NoId}]
    /\ batch \in SUBSET Ids /\ releasing \in SUBSET Ids /\ defaulting \in SUBSET Ids
    /\ clock \in Nat /\ crashes \in Nat

-----------------------------------------------------------------------------
(* Derived state *)

Rows == {m \in Ids : status[m] # "NONE"}

SameSeat(m, n) == circle[m] = circle[n] /\ pos[m] = pos[n]

ValidPos(m) == pos[m] \in 1 .. Duration[circle[m]]

\* ACTIVE, or a reservation still running at time t.
LiveAt(m, t) ==
    \/ status[m] = "ACTIVE"
    \/ status[m] = "PENDING_SIGNATURE" /\ until[m] > t

\* Slip: any unsigned reservation counts as expired.
PendingAt(m, t) == status[m] = "PENDING_SIGNATURE" /\ t \in Nat

\* A reservation that has run out at time t and was not cleaned up.
ExpiredAt(m, t) == status[m] = "PENDING_SIGNATURE" /\ until[m] <= t

\* What the transaction of j sees: committed rows, less those it deleted.
Visible(j) == Rows \ dels[j]

InTx(j) == pc[j] \in TxSteps

\* Some other open transaction has deleted m and holds its row lock.
LockedByOther(j, m) == \E k \in Joins \ {j} : m \in dels[k]
Locked(m) == \E k \in Joins : m \in dels[k]

\* getActiveObligationTotal, read inside the transaction of j at time t.
Obligation(j, t) ==
    MapThenSumSet(LAMBDA m : Contribution[circle[m]],
                  {m \in Visible(j) : owner[m] = owner[j] /\ LiveAt(m, t)})

\* Seats that were sold: a payout is due on them.
SoldRows == Seeds \cup signed

-----------------------------------------------------------------------------
(* Initial states: the seeded rows, and any assignment of customers, circles *)
(* and positions to the requests (a position out of range included).         *)

InitCount(c) == Cardinality({s \in Seeds : SeedCircle[s] = c})

Init ==
    /\ status = [m \in Ids |-> IF m \in Seeds THEN "ACTIVE" ELSE "NONE"]
    /\ until = [m \in Ids |-> 0]
    /\ owner \in [Ids -> Customers]
    /\ circle \in [Ids -> Circles]
    /\ pos \in [Ids -> Positions]
    /\ \A s \in Seeds : owner[s] = SeedOwner[s] /\ circle[s] = SeedCircle[s] /\ pos[s] = SeedPos[s]
    /\ draftOnTx \in DraftModes
    /\ signed = {}
    /\ count = [c \in Circles |-> InitCount(c)]
    /\ open \in SUBSET Circles
    /\ pc = [j \in Joins |-> "idle"]
    /\ now = [j \in Joins |-> 0]
    /\ target = [j \in Joins |-> NoId]
    /\ dels = [j \in Joins |-> {}]
    /\ vmem = [v \in Verifies |-> NoId]
    /\ batch = {} /\ releasing = {} /\ defaulting = {}
    /\ clock = 1 /\ crashes = 0

-----------------------------------------------------------------------------
(* startJoin *)

notJoin == <<fixed, books, open, vmem, adminSt, clock, crashes>>

Goto(j, step) == pc' = [pc EXCEPT ![j] = step]

\* The request goes on to its next statement, having written nothing.
Move(j, step) == Goto(j, step) /\ UNCHANGED <<now, target, dels, rows, notJoin>>

\* ... having found the expired row m, which it deletes next.
Aim(j, m, step) ==
    /\ Goto(j, step)
    /\ target' = [target EXCEPT ![j] = m]
    /\ UNCHANGED <<now, dels, rows, notJoin>>

\* An exception inside $transaction: everything it wrote is rolled back.
Rollback(j) ==
    /\ Goto(j, "refused")
    /\ target' = [target EXCEPT ![j] = NoId]
    /\ dels' = [dels EXCEPT ![j] = {}]
    /\ UNCHANGED <<now, rows, notJoin>>

\* The customer is eligible and the payment method verified; `now` is taken
\* once and used until the end.  (A customer who is not is turned away with
\* nothing written.)  The guard on the clock only keeps reservedUntil in range.
StartJoin(j) ==
    /\ pc[j] = "idle"
    /\ clock + Hold < MaxClock
    /\ now' = [now EXCEPT ![j] = clock]
    /\ Goto(j, "circle")
    /\ UNCHANGED <<target, dels, rows, notJoin>>

\* Slip: the range of the position is not checked.
CheckCircleAnyPosition(j) ==
    /\ pc[j] = "circle"
    /\ \/ circle[j] \in open /\ count[circle[j]] < Duration[circle[j]] /\ Move(j, "existing")
       \/ Rollback(j)

\* Overdue instalments, circle status and capacity, range of the position.
\* Overdue instalments are kept elsewhere: that refusal may happen or not.
CheckCircle(j) ==
    /\ pc[j] = "circle"
    /\ \/ /\ circle[j] \in open
          /\ count[circle[j]] < Duration[circle[j]]
          /\ ValidPos(j)
          /\ Move(j, "existing")
       \/ Rollback(j)

\* findFirst({circleId, customerId}): any one of the customer's rows here.
ReadExisting(j) ==
    /\ pc[j] = "existing"
    /\ LET mine == {m \in Visible(j) : owner[m] = owner[j] /\ circle[m] = circle[j]} IN
       \/ /\ \/ mine = {}
             \/ \E m \in mine : ~LiveAt(m, now[j]) /\ ~ExpiredAt(m, now[j])
          /\ Move(j, "limit")
       \/ /\ \E m \in mine : LiveAt(m, now[j])          \* already_member
          /\ Rollback(j)
       \/ \E m \in mine :
          /\ ExpiredAt(m, now[j])
          /\ Aim(j, m, "dropOwn")

\* Slip: the tables that refer to a membership cascade its deletion.
DeleteCascades(j, next) ==
    /\ ~LockedByOther(j, target[j])
    /\ target[j] \in Visible(j)
    /\ dels' = [dels EXCEPT ![j] = @ \cup {target[j]}]
    /\ target' = [target EXCEPT ![j] = NoId]
    /\ Goto(j, next)
    /\ UNCHANGED <<now, rows, notJoin>>

\* tx.membership.delete({where: {id}}): waits for the row lock, fails when the
\* row is gone, and fails on a row that a contract, an instalment or a payout
\* refers to (ON DELETE RESTRICT).  The status is not looked at again.
DeleteTarget(j, next) ==
    /\ ~LockedByOther(j, target[j])
    /\ IF target[j] \in Visible(j) \ signed
       THEN /\ dels' = [dels EXCEPT ![j] = @ \cup {target[j]}]
            /\ target' = [target EXCEPT ![j] = NoId]
            /\ Goto(j, next)
            /\ UNCHANGED <<now, rows, notJoin>>
       ELSE Rollback(j)

DropOwn(j) == pc[j] = "dropOwn" /\ DeleteTarget(j, "limit")

\* The obligation total is computed with a clock reading of its own.
CheckLimit(j) ==
    /\ pc[j] = "limit"
    /\ IF Obligation(j, clock) + Contribution[circle[j]] > Limit[owner[j]]
       THEN Rollback(j)
       ELSE Move(j, "position")

\* findUnique({circleId, payoutPosition})
ReadPosition(j) ==
    /\ pc[j] = "position"
    /\ LET held == {m \in Visible(j) : SameSeat(m, j)} IN
       \/ /\ \A m \in held : ~LiveAt(m, now[j]) /\ ~ExpiredAt(m, now[j])
          /\ Move(j, "create")
       \/ /\ \E m \in held : LiveAt(m, now[j])          \* position_taken
          /\ Rollback(j)
       \/ \E m \in held :
          /\ ExpiredAt(m, now[j])
          /\ Aim(j, m, "dropHeld")

DropHeld(j) == pc[j] = "dropHeld" /\ DeleteTarget(j, "create")

\* Slips: no unique index at all; a check that sees committed rows only, as one
\* made in the code would.
CreateUnindexed(j) == pc[j] = "create" /\ Move(j, "draft")
NeverContended(j) == j \notin Joins

\* The unique index on (circle_id, payout_position): an insert waits for the
\* open transactions that inserted the key or deleted the row that has it.
SeatContended(j) ==
    \E k \in Joins \ {j} :
        \/ pc[k] = "draft" /\ SameSeat(k, j)
        \/ \E m \in dels[k] : SameSeat(m, j)

Create(j) ==
    /\ pc[j] = "create"
    /\ ~SeatContended(j)
    /\ IF \E m \in Visible(j) : SameSeat(m, j)
       THEN Rollback(j)                                 \* P2002: position_taken
       ELSE Move(j, "draft")

\* generateDraft reads the membership through the pool, not through tx, and
\* another connection sees committed rows only: draftOnTx is FALSE in the code
\* as it stands.  TRUE is the code with the draft the tests put in its place
\* (they mock generateDraft), where the rest of the flow can be reached.
DraftFinds(j) == draftOnTx \/ j \in Rows

\* The draft and the fee preview succeed and the transaction commits.
CommitJoin(j) ==
    /\ pc[j] = "draft"
    /\ DraftFinds(j)
    /\ Goto(j, "joined")
    /\ status' = [m \in Ids |-> IF m = j THEN "PENDING_SIGNATURE"
                                ELSE IF m \in dels[j] THEN "NONE" ELSE status[m]]
    /\ until' = [until EXCEPT ![j] = now[j] + Hold]
    /\ dels' = [dels EXCEPT ![j] = {}]
    /\ UNCHANGED <<now, target, notJoin>>

\* generateDraft throws NotFoundException inside the transaction.
DraftMissing(j) ==
    /\ pc[j] = "draft"
    /\ ~DraftFinds(j)
    /\ Rollback(j)

\* The 5 second limit of an interactive transaction, PostgreSQL's deadlock
\* detector, a lost connection.
Abort(j) == MayAbort /\ InTx(j) /\ Rollback(j)

JoinStep(j) ==
    \/ StartJoin(j) \/ CheckCircle(j) \/ ReadExisting(j) \/ DropOwn(j) \/ CheckLimit(j)
    \/ ReadPosition(j) \/ DropHeld(j) \/ Create(j) \/ CommitJoin(j) \/ DraftMissing(j)
    \/ Abort(j)

-----------------------------------------------------------------------------
(* acceptContract and verifyContractOtpAndFinalize.  acceptContract changes  *)
(* only the one-time code; that code is keyed by the customer's number, not  *)
(* by the membership, so here a verification may always pass the code check. *)

\* Slip: the status is not checked before signing.
SignableAnyStatus(m) == LiveAt(m, clock)

Signable(m) == LiveAt(m, clock) /\ status[m] = "PENDING_SIGNATURE"

\* The reads and checks made before the transaction, and verifyOtp.
VerifyRead(v, m) ==
    /\ vmem[v] = NoId
    /\ Signable(m)
    /\ vmem' = [vmem EXCEPT ![v] = m]
    /\ UNCHANGED <<rows, fixed, books, open, joinSt, adminSt, clock, crashes>>

\* Slip: payouts.membership_id is not unique, a second activation goes through.
ActivateAgain(v) ==
    LET m == vmem[v] IN
    /\ m # NoId
    /\ ~Locked(m) /\ m \in Rows
    /\ status' = [status EXCEPT ![m] = "ACTIVE"]
    /\ until' = [until EXCEPT ![m] = 0]
    /\ signed' = signed \cup {m}
    /\ count' = [count EXCEPT ![circle[m]] = @ + 1]
    /\ vmem' = [vmem EXCEPT ![v] = NoId]
    /\ UNCHANGED <<fixed, open, joinSt, adminSt, clock, crashes>>

\* The activation transaction: contract, status ACTIVE by id alone, the
\* instalments and the payout, currentMembersCount.  payouts.membership_id is
\* unique, so a second activation of the same row rolls back.
Activate(v) ==
    LET m == vmem[v] IN
    /\ m # NoId
    /\ ~Locked(m)
    /\ m \in Rows \ signed
    /\ status' = [status EXCEPT ![m] = "ACTIVE"]
    /\ until' = [until EXCEPT ![m] = 0]
    /\ signed' = signed \cup {m}
    /\ count' = [count EXCEPT ![circle[m]] = @ + 1]
    /\ vmem' = [vmem EXCEPT ![v] = NoId]
    /\ UNCHANGED <<fixed, open, joinSt, adminSt, clock, crashes>>

\* A wrong code, the row or the payout constraint in the way, a lost
\* connection: the transaction leaves nothing behind.
VerifyFail(v) ==
    /\ vmem[v] # NoId
    /\ vmem' = [vmem EXCEPT ![v] = NoId]
    /\ UNCHANGED <<rows, fixed, books, open, joinSt, adminSt, clock, crashes>>

-----------------------------------------------------------------------------
(* ReservationExpiryJob, every minute.  Runs may overlap; batch is what they *)
(* have found and not yet handled.                                           *)

\* Slip: only the reservations that end in this very minute are looked for.
ExpiredThisMinute == {m \in Ids : status[m] = "PENDING_SIGNATURE" /\ until[m] = clock}

ExpiredNow == {m \in Ids : status[m] = "PENDING_SIGNATURE" /\ until[m] < clock}

JobScan ==
    /\ ~(ExpiredNow \subseteq batch)
    /\ batch' = batch \cup ExpiredNow
    /\ UNCHANGED <<rows, fixed, books, open, joinSt, vmem, releasing, defaulting, clock, crashes>>

\* status CANCELLED and reservedUntil null, by id alone; a row that is gone
\* makes the update fail, and the job goes on with the next one.
CancelRow(m) ==
    /\ ~Locked(m)
    /\ IF m \in Rows
       THEN /\ status' = [status EXCEPT ![m] = "CANCELLED"]
            /\ until' = [until EXCEPT ![m] = 0]
       ELSE UNCHANGED rows

JobCancel(m) ==
    /\ m \in batch
    /\ CancelRow(m)
    /\ batch' = batch \ {m}
    /\ UNCHANGED <<fixed, books, open, joinSt, vmem, releasing, defaulting, clock, crashes>>

-----------------------------------------------------------------------------
(* AdminMembershipsService *)

ReleaseRead(m) ==
    /\ AdminActs
    /\ m \notin releasing
    /\ status[m] = "PENDING_SIGNATURE"
    /\ releasing' = releasing \cup {m}
    /\ UNCHANGED <<rows, fixed, books, open, joinSt, vmem, batch, defaulting, clock, crashes>>

ReleaseWrite(m) ==
    /\ m \in releasing
    /\ CancelRow(m)
    /\ releasing' = releasing \ {m}
    /\ UNCHANGED <<fixed, books, open, joinSt, vmem, batch, defaulting, clock, crashes>>

DefaultRead(m) ==
    /\ AdminActs
    /\ m \notin defaulting
    /\ status[m] \in {"ACTIVE", "PENDING_SIGNATURE"}
    /\ defaulting' = defaulting \cup {m}
    /\ UNCHANGED <<rows, fixed, books, open, joinSt, vmem, batch, releasing, clock, crashes>>

\* reservedUntil is left as it is.
DefaultWrite(m) ==
    /\ m \in defaulting
    /\ ~Locked(m)
    /\ status' = IF m \in Rows THEN [status EXCEPT ![m] = "DEFAULTED"] ELSE status
    /\ defaulting' = defaulting \ {m}
    /\ UNCHANGED <<until, fixed, books, open, joinSt, vmem, batch, releasing, clock, crashes>>

-----------------------------------------------------------------------------
(* Surroundings *)

\* updateCircleStatus writes by id a transition it checked on an earlier read: a
\* circle enters and leaves UPCOMING, whoever is in the middle of joining.
UpdateCircleStatus(c) ==
    /\ open' = IF c \in open THEN open \ {c} ELSE open \cup {c}
    /\ UNCHANGED <<rows, fixed, books, joinSt, vmem, adminSt, clock, crashes>>

Tick ==
    /\ clock < MaxClock
    /\ clock' = clock + 1
    /\ UNCHANGED <<rows, fixed, books, open, joinSt, vmem, adminSt, crashes>>

\* The server restarts: requests in progress and job state are lost, open
\* transactions roll back, the tables stay.
Crash ==
    /\ crashes < MaxCrashes
    /\ crashes' = crashes + 1
    /\ pc' = [j \in Joins |-> IF InTx(j) THEN "refused" ELSE pc[j]]
    /\ target' = [j \in Joins |-> NoId]
    /\ dels' = [j \in Joins |-> {}]
    /\ vmem' = [v \in Verifies |-> NoId]
    /\ batch' = {} /\ releasing' = {} /\ defaulting' = {}
    /\ UNCHANGED <<now, rows, fixed, books, open, clock>>

VerifyStep(v) == (\E m \in Ids : VerifyRead(v, m)) \/ Activate(v) \/ VerifyFail(v)

AdminStep(m) == ReleaseRead(m) \/ ReleaseWrite(m) \/ DefaultRead(m) \/ DefaultWrite(m)

Next ==
    \/ \E j \in Joins : JoinStep(j)
    \/ \E v \in Verifies : VerifyStep(v)
    \/ JobScan
    \/ \E m \in Ids : JobCancel(m) \/ AdminStep(m)
    \/ \E c \in Circles : UpdateCircleStatus(c)
    \/ Tick
    \/ Crash

Spec == Init /\ [][Next]_vars

\* Time passes, cron fires every minute and handles what it finds, and no
\* transaction stays open for longer than its time limit.
Fairness ==
    /\ WF_vars(Tick)
    /\ WF_vars(JobScan)
    /\ \A m \in Ids : WF_vars(JobCancel(m))
    /\ \A j \in Joins : WF_vars(Abort(j))

FairSpec == Spec /\ Fairness

-----------------------------------------------------------------------------
(* Properties *)

\* No seat of a circle is sold twice: two rows with a contract and a payout
\* (or seeded) never share circle and position, although expired rows are
\* deleted, positions reused, rows cancelled and resurrected by requests that
\* read them earlier (startJoin, verifyContractOtpAndFinalize).
OnePayoutPerSeat == \A m, n \in SoldRows : SameSeat(m, n) => m = n

\* currentMembersCount is exactly the number of members who hold a payout (or
\* were seeded): concurrent verifications of one reservation count it once.
CountIsMembers ==
    \A c \in Circles : count[c] = Cardinality({m \in SoldRows : circle[m] = c})

\* A circle never has more members than positions.  The activation never looks
\* at the capacity again; only the positions handed out keep the bound.
NeverOversold == \A c \in Circles : count[c] <= Duration[c]

\* A row that was activated stays in the table, whatever a startJoin that saw
\* it expired goes on to delete.
SoldRowsStay == \A m \in SoldRows : m \in Rows

\* A step deletes a row only after its 15 minutes have run out, even where the
\* deleting request has used one clock reading all along.
DeletedOnlyAfterHold ==
    [][\A m \in Joins : m \in Rows /\ m \notin Rows' => now[m] + Hold <= clock]_vars

\* Every reservation is settled: signed, released, defaulted, or expired by the
\* job, even across restarts.
ReservationSettled ==
    \A m \in Joins : status[m] = "PENDING_SIGNATURE" ~> status[m] # "PENDING_SIGNATURE"

\* With the draft read on the pool connection nothing is ever reserved.
NothingReservedOnPool == ~draftOnTx => Rows = Seeds

-----------------------------------------------------------------------------
(* The inductive invariant *)

\* Seeded rows are never deleted, never become reservations, and nothing that
\* acts on reservations ever gets hold of one.
SeedInv ==
    \A s \in Seeds :
        /\ status[s] \in {"ACTIVE", "DEFAULTED"}
        /\ circle[s] = SeedCircle[s] /\ pos[s] = SeedPos[s]
        /\ s \notin batch /\ s \notin releasing
        /\ \A v \in Verifies : vmem[v] # s

\* Only a request that committed has a row, and only within the positions.
RowInv ==
    /\ \A j \in Joins : pc[j] # "joined" => status[j] = "NONE"
    /\ \A j \in Joins : pc[j] \in (TxSteps \ {"circle"}) \cup {"joined"} => ValidPos(j)
    /\ \A m \in signed : status[m] # "NONE"

\* What a request deletes, or is about to delete, is the row of a reservation
\* whose time had run out when the request took its clock reading.
RanOut(m, j) == m \in Joins /\ pc[m] = "joined" /\ now[m] + Hold <= now[j]

HoldInv ==
    \A j \in Joins :
        /\ pc[j] = "idle" => target[j] = NoId /\ dels[j] = {}
        /\ pc[j] # "idle" => now[j] <= clock
        /\ status[j] = "PENDING_SIGNATURE" => until[j] = now[j] + Hold
        /\ target[j] # NoId => RanOut(target[j], j)
        /\ \A m \in dels[j] : RanOut(m, j) /\ m \notin signed

\* One committed row per seat; an uncommitted row collides with no other
\* uncommitted row, nor with a committed one that its transaction leaves.
SeatInv ==
    /\ \A m, n \in Rows : SameSeat(m, n) => m = n
    /\ \A j \in Joins : pc[j] = "draft" =>
        /\ \A m \in Rows : SameSeat(m, j) => m \in dels[j]
        /\ \A k \in Joins : pc[k] = "draft" /\ SameSeat(k, j) => k = j

\* Everything the proofs of the properties above rest on.
IInv == TypeOK /\ SeedInv /\ RowInv /\ HoldInv /\ SeatInv /\ CountIsMembers

-----------------------------------------------------------------------------
(* What the repository says and the code does not do *)

\* join-flow.spec.ts:201 "should successfully reserve position and return draft
\* contract reference": a request that inserted its row and asks for the draft
\* is not turned away.
DraftSucceeds == [][\A j \in Joins : pc[j] = "draft" => pc'[j] # "refused"]_vars
=============================================================================
