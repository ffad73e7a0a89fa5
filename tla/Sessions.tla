------------------------------ MODULE Sessions ------------------------------
(***************************************************************************)
(* The refresh tokens of customers (AuthService) and admins                *)
(* (AdminAuthService), one row each, and what ends them: rotation, logout, *)
(* an admin's suspension (AdminUsersService) or new password               *)
(* (AdminProfileService), expiry, and the daily cleanup                    *)
(* (SessionCleanupService).  Access tokens are not stored: the guards look *)
(* up the owner's status with every request.                               *)
(*                                                                         *)
(* Every call reads and writes in separate statements.  bcrypt compares    *)
(* the first 72 bytes of a token, which are the same for all tokens of one *)
(* owner: the row a refresh finds is any live one of the owner's.          *)
(*                                                                         *)
(* A row that is revoked or expired is dead, and stale once the cleanup's  *)
(* 30 or 7 days are over; no call takes that long.                         *)
(***************************************************************************)
EXTENDS Naturals

CONSTANTS
    Customers, Admins,
    Rows,       \* rows of refresh_tokens
    Calls,      \* worker slots for sign-ins and refreshes
    Closers,    \* worker slots for calls that revoke an admin's tokens
    NoOne, NoRow

Owners == Customers \cup Admins

ASSUME SessionsAssumption ==
    Customers \cap Admins = {} /\ NoOne \notin Owners /\ NoRow \notin Rows

VARIABLES
    active,     \* [Owners -> BOOLEAN]: status ACTIVE, as the guards ask for it
    row,        \* [Rows -> RowStates]
    owner,      \* [Rows -> Owners \cup {NoOne}]: customerId or adminId
    call,       \* [Calls -> CallRecords]
    closing     \* [Closers -> Owners \cup {NoOne}]: whose tokens are about to be revoked

vars == <<active, row, owner, call, closing>>

RowStates == {"none", "live", "dead", "stale"}

CallRecords == [step : {"idle", "revoke", "create"},
                owner : Owners \cup {NoOne}, row : Rows \cup {NoRow}]
Quiet == [step |-> "idle", owner |-> NoOne, row |-> NoRow]

TypeOK ==
    /\ active \in [Owners -> BOOLEAN]
    /\ row \in [Rows -> RowStates]
    /\ owner \in [Rows -> Owners \cup {NoOne}]
    /\ call \in [Calls -> CallRecords]
    /\ closing \in [Closers -> Admins \cup {NoOne}]
    /\ \A r \in Rows : row[r] # "none" => owner[r] \in Owners
    /\ \A k \in Calls : call[k].step # "idle" => call[k].owner \in Owners
    /\ \A k \in Calls : call[k].step = "revoke" => call[k].row \in Rows

LiveRows(o) == {r \in Rows : row[r] = "live" /\ owner[r] = o}

\* updateMany by owner, where revokedAt is null.
RevokedFor(o) == [r \in Rows |-> IF r \in LiveRows(o) THEN "dead" ELSE row[r]]

\* The seed's accounts have no tokens.
Init ==
    /\ active = [o \in Owners |-> TRUE]
    /\ row = [r \in Rows |-> "none"]
    /\ owner = [r \in Rows |-> NoOne]
    /\ call = [k \in Calls |-> Quiet]
    /\ closing = [w \in Closers |-> NoOne]

-----------------------------------------------------------------------------
(* Sign-in and refresh *)

\* A code has passed (module SignIn); the customer's status is not asked for.
SignIn(k, c) ==
    /\ call[k] = Quiet
    /\ call' = [call EXCEPT ![k] = [step |-> "create", owner |-> c, row |-> NoRow]]
    /\ UNCHANGED <<active, row, owner, closing>>

\* AdminAuthService.login: the admin is ACTIVE and the password right.
Login(k, a) ==
    /\ call[k] = Quiet
    /\ active[a]
    /\ call' = [call EXCEPT ![k] = [step |-> "create", owner |-> a, row |-> NoRow]]
    /\ UNCHANGED <<active, row, owner, closing>>

\* Slip: a refresh finds rows of the owner that are revoked.
RefreshReadAny(k, r) ==
    /\ call[k] = Quiet
    /\ row[r] # "none"
    /\ call' = [call EXCEPT ![k] = [step |-> "revoke", owner |-> owner[r], row |-> r]]
    /\ UNCHANGED <<active, row, owner, closing>>

\* Slip: the row to revoke is not kept.
RefreshReadOwner(k, r) ==
    /\ call[k] = Quiet
    /\ row[r] = "live"
    /\ call' = [call EXCEPT ![k] = [step |-> "revoke", owner |-> owner[r], row |-> NoRow]]
    /\ UNCHANGED <<active, row, owner, closing>>

\* refreshTokens finds a row that is neither revoked nor expired.
RefreshRead(k, r) ==
    /\ call[k] = Quiet
    /\ row[r] = "live"
    /\ call' = [call EXCEPT ![k] = [step |-> "revoke", owner |-> owner[r], row |-> r]]
    /\ UNCHANGED <<active, row, owner, closing>>

\* ... and revokes it by id, also when another call has done so.  The lookup
\* of the admin that follows asks for existence only.
RefreshRevoke(k) ==
    /\ call[k].step = "revoke"
    /\ row' = [row EXCEPT ![call[k].row] = IF @ = "live" THEN "dead" ELSE @]
    /\ call' = [call EXCEPT ![k] = IF row[call[k].row] = "none" THEN Quiet
                                   ELSE [@ EXCEPT !.step = "create", !.row = NoRow]]
    /\ UNCHANGED <<active, owner, closing>>

\* generateTokens inserts the new row.
InsertToken(k, r) ==
    /\ call[k].step = "create"
    /\ row[r] = "none"
    /\ row' = [row EXCEPT ![r] = "live"]
    /\ owner' = [owner EXCEPT ![r] = call[k].owner]
    /\ call' = [call EXCEPT ![k] = Quiet]
    /\ UNCHANGED <<active, closing>>

-----------------------------------------------------------------------------
(* What ends tokens *)

\* One statement; the guard has seen the owner's status.
Logout(o) ==
    /\ active[o]
    /\ row' = RevokedFor(o)
    /\ UNCHANGED <<active, owner, call, closing>>

\* AdminCustomersService.updateCustomerStatus leaves the tokens alone.
SetCustomerStatus(c, on) ==
    /\ active' = [active EXCEPT ![c] = on]
    /\ UNCHANGED <<row, owner, call, closing>>

\* AdminUsersService.updateStatus: the status, and next the tokens unless it
\* is ACTIVE.  INACTIVE and SUSPENDED may follow each other.
SetAdminStatus(w, a, on) ==
    /\ closing[w] = NoOne
    /\ active' = [active EXCEPT ![a] = on]
    /\ closing' = IF on THEN closing ELSE [closing EXCEPT ![w] = a]
    /\ UNCHANGED <<row, owner, call>>

\* AdminProfileService.changePassword: the hash, and next the tokens.
ChangePassword(w, a) ==
    /\ closing[w] = NoOne
    /\ active[a]
    /\ closing' = [closing EXCEPT ![w] = a]
    /\ UNCHANGED <<active, row, owner, call>>

RevokeAll(w) ==
    /\ closing[w] # NoOne
    /\ row' = RevokedFor(closing[w])
    /\ closing' = [closing EXCEPT ![w] = NoOne]
    /\ UNCHANGED <<active, owner, call>>

Expire(r) ==
    /\ row[r] = "live"
    /\ row' = [row EXCEPT ![r] = "dead"]
    /\ UNCHANGED <<active, owner, call, closing>>

\* The 7 days since expiry, or the 30 since revocation, are over.
Stale(r) ==
    /\ row[r] = "dead"
    /\ \A k \in Calls : call[k].row # r
    /\ row' = [row EXCEPT ![r] = "stale"]
    /\ UNCHANGED <<active, owner, call, closing>>

\* Slip: a row is deleted as soon as it is revoked.
CleanupAtOnce ==
    /\ row' = [r \in Rows |-> IF row[r] \in {"dead", "stale"} THEN "none" ELSE row[r]]
    /\ UNCHANGED <<active, owner, call, closing>>

\* handleSessionCleanup, one deleteMany.
Cleanup ==
    /\ row' = [r \in Rows |-> IF row[r] = "stale" THEN "none" ELSE row[r]]
    /\ UNCHANGED <<active, owner, call, closing>>

-----------------------------------------------------------------------------
(* A call fails, or the server restarts *)

CallDies(k) ==
    /\ call[k] # Quiet
    /\ call' = [call EXCEPT ![k] = Quiet]
    /\ UNCHANGED <<active, row, owner, closing>>

CloserDies(w) ==
    /\ closing[w] # NoOne
    /\ closing' = [closing EXCEPT ![w] = NoOne]
    /\ UNCHANGED <<active, row, owner, call>>

-----------------------------------------------------------------------------
Next ==
    \/ \E k \in Calls, c \in Customers : SignIn(k, c)
    \/ \E k \in Calls, a \in Admins : Login(k, a)
    \/ \E k \in Calls, r \in Rows : RefreshRead(k, r) \/ InsertToken(k, r)
    \/ \E k \in Calls : RefreshRevoke(k) \/ CallDies(k)
    \/ \E o \in Owners : Logout(o)
    \/ \E c \in Customers, on \in BOOLEAN : SetCustomerStatus(c, on)
    \/ \E w \in Closers, a \in Admins, on \in BOOLEAN : SetAdminStatus(w, a, on)
    \/ \E w \in Closers, a \in Admins : ChangePassword(w, a)
    \/ \E w \in Closers : RevokeAll(w) \/ CloserDies(w)
    \/ \E r \in Rows : Expire(r) \/ Stale(r)
    \/ Cleanup

Spec == Init /\ [][Next]_vars

-----------------------------------------------------------------------------
(* Properties *)

InProgress(o) == {k \in Calls : call[k].owner = o}

LockedOut(a) == ~active[a] /\ LiveRows(a) = {} /\ InProgress(a) = {}

\* An admin who is not ACTIVE, with no live token and no call in progress, has
\* none again before being made ACTIVE, although a refresh never asks for the
\* status: what it asks for instead, a live row, nobody can leave behind.
LockedOutStays ==
    [][\A a \in Admins : LockedOut(a) /\ ~active'[a] => LockedOut(a)']_vars

\* Who has a token that works, or is being given one.
HasAccess == {o \in Owners : LiveRows(o) # {} \/ InProgress(o) # {}}

Access == INSTANCE TokenAccess WITH holders <- HasAccess

\* Every statement takes one step of TokenAccess or none, whichever sign-ins,
\* refreshes, logouts, lock-outs and cleanups overlap or die: a refresh that
\* read its row before the owner's tokens were revoked hands on the access the
\* owner still has, and never brings it back.
AccessSpec == Access!Spec

\* The row a refresh is about to revoke is still there: the cleanup deletes
\* none that a call in progress has read.
RowsOutliveCalls ==
    \A k \in Calls : call[k].step = "revoke" =>
        row[call[k].row] # "none" /\ owner[call[k].row] = call[k].owner
=============================================================================
