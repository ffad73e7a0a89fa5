-------------------------- MODULE Sessions_proofs --------------------------
(***************************************************************************)
(* Theorems about Sessions, for any owners, rows and calls.                *)
(***************************************************************************)
EXTENDS Sessions, TLAPS

USE DEF RowStates, Owners

\* The records a call moves through are well typed.
LEMMA CallTypes ==
    /\ Quiet \in CallRecords /\ Quiet.step = "idle" /\ Quiet.row = NoRow /\ Quiet.owner = NoOne
    /\ \A o \in Owners : [step |-> "create", owner |-> o, row |-> NoRow] \in CallRecords
    /\ \A o \in Owners, r \in Rows : [step |-> "revoke", owner |-> o, row |-> r] \in CallRecords
    /\ \A c \in CallRecords :
        LET d == [c EXCEPT !.step = "create", !.row = NoRow] IN
        d \in CallRecords /\ d.step = "create" /\ d.owner = c.owner /\ d.row = NoRow
BY DEF CallRecords, Quiet

\* Every reachable state of statuses, rows and calls is well typed.
THEOREM TypeCorrect == Spec => []TypeOK
<1>1. Init => TypeOK
  <2> SUFFICES ASSUME Init PROVE TypeOK
    OBVIOUS
  <2>1. /\ Quiet \in CallRecords /\ Quiet.step = "idle"
        /\ \A k \in Calls : call[k] = Quiet
    BY CallTypes DEF Init
  <2>2. call \in [Calls -> CallRecords]
    BY <2>1 DEF Init
  <2>3. active \in [Owners -> BOOLEAN] /\ row \in [Rows -> RowStates]
    BY DEF Init
  <2>4. owner \in [Rows -> Owners \cup {NoOne}] /\ closing \in [Closers -> Admins \cup {NoOne}]
    BY DEF Init
  <2>5. \A r \in Rows : row[r] = "none"
    BY DEF Init
  <2> QED BY <2>1, <2>2, <2>3, <2>4, <2>5 DEF TypeOK
<1>2. TypeOK /\ [Next]_vars => TypeOK'
  <2> SUFFICES ASSUME TypeOK, [Next]_vars PROVE TypeOK'
    OBVIOUS
  <2> USE DEF TypeOK
  <2>1. ASSUME NEW k \in Calls, NEW o \in Owners, SignIn(k, o) \/ Login(k, o) PROVE TypeOK'
    <3> DEFINE c == [step |-> "create", owner |-> o, row |-> NoRow]
    <3>1. c \in CallRecords /\ c.step = "create" /\ c.owner \in Owners
      BY CallTypes
    <3>2. call' = [call EXCEPT ![k] = c] /\ UNCHANGED <<active, row, owner, closing>>
      BY <2>1 DEF SignIn, Login
    <3> HIDE DEF c
    <3> QED BY <3>1, <3>2
  <2>2. ASSUME NEW k \in Calls, NEW r \in Rows, RefreshRead(k, r) PROVE TypeOK'
    <3> DEFINE c == [step |-> "revoke", owner |-> owner[r], row |-> r]
    <3>1. c \in CallRecords /\ c.step = "revoke" /\ c.owner \in Owners /\ c.row = r
      BY <2>2, CallTypes DEF RefreshRead
    <3>2. call' = [call EXCEPT ![k] = c] /\ UNCHANGED <<active, row, owner, closing>>
      BY <2>2 DEF RefreshRead
    <3> HIDE DEF c
    <3> QED BY <3>1, <3>2
  <2>3. ASSUME NEW k \in Calls, RefreshRevoke(k) PROVE TypeOK'
    <3> DEFINE c == [call[k] EXCEPT !.step = "create", !.row = NoRow]
    <3>1. c \in CallRecords /\ c.step = "create" /\ c.owner \in Owners
      BY <2>3, CallTypes DEF RefreshRevoke
    <3>2. PICK d \in {c, Quiet} : call' = [call EXCEPT ![k] = d]
      BY <2>3 DEF RefreshRevoke
    <3> HIDE DEF c
    <3>3. row' \in [Rows -> RowStates] /\ \A r \in Rows : row'[r] = "none" <=> row[r] = "none"
      BY <2>3 DEF RefreshRevoke
    <3>4. d \in CallRecords /\ (d.step # "idle" => d.owner \in Owners) /\ d.step # "revoke"
      BY <3>1, <3>2, CallTypes
    <3>5. UNCHANGED <<active, owner, closing>>
      BY <2>3 DEF RefreshRevoke
    <3> QED BY <3>2, <3>3, <3>4, <3>5
  <2>4. ASSUME NEW k \in Calls, NEW r \in Rows, InsertToken(k, r) PROVE TypeOK'
    BY <2>4, CallTypes DEF InsertToken
  <2>5. ASSUME NEW k \in Calls, CallDies(k) PROVE TypeOK'
    BY <2>5, CallTypes DEF CallDies
  <2>6. ASSUME NEW o \in Owners, Logout(o) PROVE TypeOK'
    BY <2>6 DEF Logout, RevokedFor, LiveRows
  <2>7. ASSUME NEW c \in Customers, NEW on \in BOOLEAN, SetCustomerStatus(c, on) PROVE TypeOK'
    BY <2>7 DEF SetCustomerStatus
  <2>8. ASSUME NEW w \in Closers, NEW a \in Admins, NEW on \in BOOLEAN, SetAdminStatus(w, a, on)
        PROVE  TypeOK'
    BY <2>8 DEF SetAdminStatus
  <2>9. ASSUME NEW w \in Closers, NEW a \in Admins, ChangePassword(w, a) PROVE TypeOK'
    BY <2>9 DEF ChangePassword
  <2>10. ASSUME NEW w \in Closers, RevokeAll(w) PROVE TypeOK'
    BY <2>10 DEF RevokeAll, RevokedFor, LiveRows
  <2>11. ASSUME NEW w \in Closers, CloserDies(w) PROVE TypeOK'
    BY <2>11 DEF CloserDies
  <2>12. ASSUME NEW r \in Rows, Expire(r) \/ Stale(r) PROVE TypeOK'
    BY <2>12 DEF Expire, Stale
  <2>13. CASE Cleanup
    BY <2>13 DEF Cleanup
  <2>14. CASE UNCHANGED vars
    BY <2>14 DEF vars
  <2> QED BY <2>1, <2>2, <2>3, <2>4, <2>5, <2>6, <2>7, <2>8, <2>9, <2>10, <2>11, <2>12, <2>13, <2>14
        DEF Next
<1> QED BY <1>1, <1>2, PTL DEF Spec

-----------------------------------------------------------------------------
\* The row a call has read is neither gone nor about to go: what makes
\* RowsOutliveCalls inductive.
ReadRowsStay ==
    \A k \in Calls : call[k].step = "revoke" =>
        row[call[k].row] \in {"live", "dead"} /\ owner[call[k].row] = call[k].owner

LEMMA NothingReadYet == Init => ReadRowsStay
<1>1. ASSUME Init, NEW k \in Calls PROVE call[k].step # "revoke"
  <2>1. call[k] = Quiet
    BY <1>1 DEF Init
  <2> QED BY <2>1, CallTypes
<1> QED BY <1>1 DEF ReadRowsStay

\* A step that keeps the rows a call can read, and reads no other, keeps it.
LEMMA ReadRowsStep == TypeOK /\ ReadRowsStay /\ [Next]_vars => ReadRowsStay'
<1> SUFFICES ASSUME TypeOK, ReadRowsStay, [Next]_vars PROVE ReadRowsStay'
  OBVIOUS
<1> USE DEF TypeOK, ReadRowsStay
<1>1. ASSUME NEW k \in Calls, NEW o \in Owners, SignIn(k, o) \/ Login(k, o) PROVE ReadRowsStay'
  BY <1>1 DEF SignIn, Login
<1>2. ASSUME NEW k \in Calls, NEW r \in Rows, RefreshRead(k, r) PROVE ReadRowsStay'
  BY <1>2 DEF RefreshRead
<1>3. ASSUME NEW k \in Calls, RefreshRevoke(k) PROVE ReadRowsStay'
  <2>1. PICK d : call' = [call EXCEPT ![k] = d] /\ d.step # "revoke"
    BY <1>3, CallTypes DEF RefreshRevoke
  <2>2. \A r \in Rows : row[r] \in {"live", "dead"} => row'[r] \in {"live", "dead"}
    BY <1>3 DEF RefreshRevoke
  <2>3. owner' = owner
    BY <1>3 DEF RefreshRevoke
  <2> QED BY <1>3, <2>1, <2>2, <2>3
<1>4. ASSUME NEW k \in Calls, NEW r \in Rows, InsertToken(k, r) PROVE ReadRowsStay'
  BY <1>4, CallTypes DEF InsertToken
<1>5. ASSUME NEW k \in Calls, CallDies(k) PROVE ReadRowsStay'
  BY <1>5, CallTypes DEF CallDies
<1>6. ASSUME NEW o, row' = RevokedFor(o), UNCHANGED <<owner, call>> PROVE ReadRowsStay'
  BY <1>6 DEF RevokedFor, LiveRows
<1>7. ASSUME UNCHANGED <<row, owner, call>> PROVE ReadRowsStay'
  BY <1>7
<1>8. ASSUME NEW r \in Rows, Expire(r) \/ Stale(r) PROVE ReadRowsStay'
  BY <1>8 DEF Expire, Stale
<1>9. CASE Cleanup
  BY <1>9 DEF Cleanup
<1> QED BY <1>1, <1>2, <1>3, <1>4, <1>5, <1>6, <1>7, <1>8, <1>9
      DEF Next, Logout, RevokeAll, SetCustomerStatus, SetAdminStatus, ChangePassword, CloserDies, vars

\* The cleanup never deletes a row that a refresh has read: the update by id
\* that follows finds it.
THEOREM ReadRowsAreThere == Spec => []RowsOutliveCalls
<1>1. Init => ReadRowsStay
  BY NothingReadYet
<1>2. ReadRowsStay => RowsOutliveCalls
  BY DEF ReadRowsStay, RowsOutliveCalls
<1> QED BY <1>1, <1>2, ReadRowsStep, TypeCorrect, PTL DEF Spec

-----------------------------------------------------------------------------
\* No step gives a locked-out admin a live token or a call in progress.
LEMMA LockedOutStep ==
    ASSUME TypeOK, [Next]_vars, NEW a \in Admins, LockedOut(a), ~active'[a]
    PROVE  LockedOut(a)'
<1> USE DEF TypeOK, LockedOut, LiveRows, InProgress
<1>1. a # NoOne /\ a \in Owners /\ a \notin Customers
  BY SessionsAssumption
<1>2. ASSUME NEW k \in Calls, NEW c \in Customers, SignIn(k, c) PROVE LockedOut(a)'
  BY <1>1, <1>2 DEF SignIn
<1>3. ASSUME NEW k \in Calls, NEW b \in Admins, Login(k, b) PROVE LockedOut(a)'
  BY <1>1, <1>3 DEF Login
<1>4. ASSUME NEW k \in Calls, NEW r \in Rows, RefreshRead(k, r) PROVE LockedOut(a)'
  BY <1>1, <1>4 DEF RefreshRead
<1>5. ASSUME NEW k \in Calls, RefreshRevoke(k) PROVE LockedOut(a)'
  <2>1. PICK d : call' = [call EXCEPT ![k] = d] /\ d.owner \in {call[k].owner, NoOne}
    BY <1>5, CallTypes DEF RefreshRevoke
  <2>2. \A r \in Rows : row'[r] = "live" => row[r] = "live"
    BY <1>5 DEF RefreshRevoke
  <2>3. owner' = owner /\ active' = active
    BY <1>5 DEF RefreshRevoke
  <2> QED BY <1>1, <1>5, <2>1, <2>2, <2>3
<1>6. ASSUME NEW k \in Calls, NEW r \in Rows, InsertToken(k, r) PROVE LockedOut(a)'
  <2>1. Quiet.owner = NoOne
    BY CallTypes
  <2>2. call' = [call EXCEPT ![k] = Quiet] /\ owner' = [owner EXCEPT ![r] = call[k].owner]
    BY <1>6 DEF InsertToken
  <2>3. row' = [row EXCEPT ![r] = "live"] /\ active' = active
    BY <1>6 DEF InsertToken
  <2>4. call[k].owner # a
    BY <1>6
  <2>5. LiveRows(a)' = {}
    BY <1>6, <2>2, <2>3, <2>4
  <2>6. InProgress(a)' = {}
    BY <1>1, <1>6, <2>1, <2>2
  <2> HIDE DEF LiveRows, InProgress
  <2> QED BY <2>3, <2>5, <2>6
<1>7. ASSUME NEW k \in Calls, CallDies(k) PROVE LockedOut(a)'
  BY <1>1, <1>7, CallTypes DEF CallDies
<1>8. ASSUME \A r \in Rows : row'[r] = "live" => row[r] = "live", UNCHANGED <<owner, call>>
      PROVE  LockedOut(a)'
  BY <1>8
<1>9. ASSUME (\E o \in Owners : Logout(o)) \/ (\E w \in Closers : RevokeAll(w)) PROVE LockedOut(a)'
  BY <1>8, <1>9 DEF Logout, RevokeAll, RevokedFor
<1>10. ASSUME (\E r \in Rows : Expire(r) \/ Stale(r)) \/ Cleanup PROVE LockedOut(a)'
  BY <1>8, <1>10 DEF Expire, Stale, Cleanup
<1>11. ASSUME UNCHANGED <<row, owner, call>> PROVE LockedOut(a)'
  BY <1>8, <1>11
<1> QED BY <1>2, <1>3, <1>4, <1>5, <1>6, <1>7, <1>9, <1>10, <1>11
      DEF Next, SetCustomerStatus, SetAdminStatus, ChangePassword, CloserDies, vars

\* An admin who is locked out stays so until made ACTIVE again.
THEOREM LockOutLasts == Spec => LockedOutStays
<1>1. TypeOK /\ [Next]_vars => [\A a \in Admins : LockedOut(a) /\ ~active'[a] => LockedOut(a)']_vars
  BY LockedOutStep
<1> QED BY <1>1, TypeCorrect, PTL DEF Spec, LockedOutStays

-----------------------------------------------------------------------------
(* Sessions implements TokenAccess *)

Has(o) == LiveRows(o) # {} \/ InProgress(o) # {}

\* A step after which only one owner's tokens and calls may differ, and who has
\* access by it had it before or was let in, is a step of TokenAccess.
LEMMA OneOwner ==
    ASSUME NEW o \in Owners, UNCHANGED active,
           \A p \in Owners \ {o} : Has(p)' <=> Has(p),
           Has(o)' => Has(o) \/ o \in Customers \/ active[o]
    PROVE  Access!Next \/ UNCHANGED Access!vars
<1>0. /\ HasAccess = {p \in Owners : Has(p)}
      /\ HasAccess' = {p \in Owners : Has(p)'}
  BY DEF HasAccess, Has
<1> HIDE DEF Owners
<1>1. CASE Has(o)' /\ Has(o)
  <2>1. HasAccess' = HasAccess
    BY <1>0, <1>1
  <2> QED BY <2>1 DEF Access!vars
<1>2. CASE Has(o)' /\ ~Has(o)
  <2>1. HasAccess' = HasAccess \cup {o}
    BY <1>0, <1>2
  <2>2. Access!Enter(o)
    BY <1>2, <2>1 DEF Access!Enter
  <2> QED BY <2>2 DEF Access!Next, Owners
<1>3. CASE ~Has(o)'
  <2>1. HasAccess' = HasAccess \ {o}
    BY <1>0, <1>3
  <2>2. Access!Leave(o)
    BY <2>1 DEF Access!Leave
  <2> QED BY <2>2 DEF Access!Next, Owners
<1> QED BY <1>1, <1>2, <1>3

\* A step that ends tokens of one owner, or calls, and starts none.
LEMMA Leaving ==
    ASSUME NEW o \in Owners, UNCHANGED active,
           \A p \in Owners \ {o} : LiveRows(p)' = LiveRows(p) /\ InProgress(p)' = InProgress(p),
           LiveRows(o)' \subseteq LiveRows(o), InProgress(o)' \subseteq InProgress(o)
    PROVE  Access!Next \/ UNCHANGED Access!vars
<1>1. \A p \in Owners \ {o} : Has(p)' <=> Has(p)
  BY DEF Has
<1>2. Has(o)' => Has(o)
  BY DEF Has
<1> HIDE DEF Owners
<1> QED BY <1>1, <1>2, OneOwner

\* A step that leaves live rows and calls alone, but perhaps a status.
LEMMA SameAccess ==
    ASSUME \A p \in Owners : LiveRows(p)' = LiveRows(p) /\ InProgress(p)' = InProgress(p)
    PROVE  HasAccess' = HasAccess
<1>1. \A p \in Owners : Has(p)' <=> Has(p)
  BY DEF Has
<1>2. /\ HasAccess = {p \in Owners : Has(p)}
      /\ HasAccess' = {p \in Owners : Has(p)'}
  BY DEF HasAccess, Has
<1> HIDE DEF Owners
<1> QED BY <1>1, <1>2

\* A statement of a sign-in or a refresh: the owner it works for comes in, or
\* has had access before.
LEMMA CallAccess ==
    ASSUME TypeOK, ReadRowsStay, NEW k \in Calls,
           \/ \E c \in Customers : SignIn(k, c)
           \/ \E a \in Admins : Login(k, a)
           \/ \E r \in Rows : RefreshRead(k, r) \/ InsertToken(k, r)
           \/ RefreshRevoke(k) \/ CallDies(k)
    PROVE  Access!Next \/ UNCHANGED Access!vars
<1>0. /\ call \in [Calls -> CallRecords] /\ row \in [Rows -> RowStates]
      /\ owner \in [Rows -> Owners \cup {NoOne}]
      /\ \A r \in Rows : row[r] # "none" => owner[r] \in Owners
      /\ call[k].step # "idle" => call[k].owner \in Owners
      /\ call[k].step = "revoke" => call[k].row \in Rows
      /\ NoOne \notin Owners /\ Quiet.owner = NoOne
  BY SessionsAssumption, CallTypes DEF TypeOK
<1> HIDE DEF Owners
<1>1. ASSUME NEW o \in Owners, call[k] = Quiet, call'[k].owner = o,
             \A j \in Calls \ {k} : call'[j] = call[j], UNCHANGED <<active, row, owner>>,
             o \in Customers \/ active[o] \/ LiveRows(o) # {}
      PROVE  Access!Next \/ UNCHANGED Access!vars
  <2>1. \A p \in Owners \ {o} : LiveRows(p)' = LiveRows(p) /\ InProgress(p)' = InProgress(p)
    BY <1>0, <1>1 DEF LiveRows, InProgress
  <2>2. \A p \in Owners \ {o} : Has(p)' <=> Has(p)
    BY <2>1 DEF Has
  <2>3. Has(o) \/ o \in Customers \/ active[o]
    BY <1>1 DEF Has
  <2> QED BY <1>1, <2>2, <2>3, OneOwner
<1>2. ASSUME NEW c \in Customers, SignIn(k, c) PROVE Access!Next \/ UNCHANGED Access!vars
  <2>1. c \in Owners
    BY DEF Owners
  <2>2. /\ call[k] = Quiet /\ call'[k].owner = c
        /\ \A j \in Calls \ {k} : call'[j] = call[j]
        /\ UNCHANGED <<active, row, owner>>
    BY <1>0, <1>2 DEF SignIn
  <2> QED BY <1>1, <2>1, <2>2
<1>3. ASSUME NEW a \in Admins, Login(k, a) PROVE Access!Next \/ UNCHANGED Access!vars
  <2>1. a \in Owners /\ active[a]
    BY <1>3 DEF Owners, Login
  <2>2. /\ call[k] = Quiet /\ call'[k].owner = a
        /\ \A j \in Calls \ {k} : call'[j] = call[j]
        /\ UNCHANGED <<active, row, owner>>
    BY <1>0, <1>3 DEF Login
  <2> QED BY <1>1, <2>1, <2>2
<1>4. ASSUME NEW r \in Rows, RefreshRead(k, r) PROVE Access!Next \/ UNCHANGED Access!vars
  <2>1. owner[r] \in Owners /\ LiveRows(owner[r]) # {}
    BY <1>0, <1>4 DEF RefreshRead, LiveRows
  <2>2. /\ call[k] = Quiet /\ call'[k].owner = owner[r]
        /\ \A j \in Calls \ {k} : call'[j] = call[j]
        /\ UNCHANGED <<active, row, owner>>
    BY <1>0, <1>4 DEF RefreshRead
  <2> QED BY <1>1, <2>1, <2>2
<1>5. ASSUME NEW r \in Rows, InsertToken(k, r) PROVE Access!Next \/ UNCHANGED Access!vars
  <2> DEFINE o == call[k].owner
  <2>1. o \in Owners /\ k \in InProgress(o)
    BY <1>0, <1>5 DEF InsertToken, InProgress
  <2>2. /\ row[r] = "none" /\ row' = [row EXCEPT ![r] = "live"]
        /\ owner' = [owner EXCEPT ![r] = o]
        /\ call' = [call EXCEPT ![k] = Quiet] /\ UNCHANGED active
    BY <1>5 DEF InsertToken
  <2> HIDE DEF o
  <2>3. \A p \in Owners \ {o} : LiveRows(p)' = LiveRows(p)
    BY <1>0, <2>2 DEF LiveRows
  <2>4. \A p \in Owners \ {o} : InProgress(p)' = InProgress(p)
    BY <1>0, <2>2 DEF InProgress, o
  <2>5. \A p \in Owners \ {o} : Has(p)' <=> Has(p)
    BY <2>3, <2>4 DEF Has
  <2>6. Has(o)
    BY <2>1 DEF Has
  <2> QED BY <2>1, <2>2, <2>5, <2>6, OneOwner
<1>6. CASE RefreshRevoke(k)
  <2> DEFINE o == call[k].owner
  <2>1. o \in Owners /\ k \in InProgress(o) /\ call[k].row \in Rows /\ owner[call[k].row] = o
    BY <1>0, <1>6 DEF RefreshRevoke, InProgress, ReadRowsStay
  <2>2. PICK d : call' = [call EXCEPT ![k] = d] /\ d.owner \in {o, NoOne}
    BY <1>0, <1>6, CallTypes DEF RefreshRevoke
  <2>3. /\ row' = [row EXCEPT ![call[k].row] = IF @ = "live" THEN "dead" ELSE @]
        /\ UNCHANGED <<active, owner>>
    BY <1>6 DEF RefreshRevoke
  <2>4. \A p \in Owners \ {o} : LiveRows(p)' = LiveRows(p)
    BY <1>0, <2>1, <2>3 DEF LiveRows
  <2>5. \A p \in Owners \ {o} : InProgress(p)' = InProgress(p)
    BY <1>0, <2>2 DEF InProgress
  <2> HIDE DEF o
  <2>6. \A p \in Owners \ {o} : Has(p)' <=> Has(p)
    BY <2>4, <2>5 DEF Has
  <2>7. Has(o)
    BY <2>1 DEF Has
  <2> QED BY <2>1, <2>3, <2>6, <2>7, OneOwner
<1>7. CASE CallDies(k)
  <2> DEFINE o == call[k].owner
  <2>1. call' = [call EXCEPT ![k] = Quiet] /\ UNCHANGED <<active, row, owner>>
    BY <1>7 DEF CallDies
  <2>2. \A p \in Owners : /\ LiveRows(p)' = LiveRows(p)
                          /\ InProgress(p)' = InProgress(p) \ {k}
    BY <1>0, <2>1 DEF LiveRows, InProgress
  <2>3. \A p \in Owners \ {o} : k \notin InProgress(p)
    BY DEF InProgress
  <2> HIDE DEF o
  <2>4. CASE o \in Owners
    BY <2>1, <2>2, <2>3, <2>4, Leaving
  <2>5. CASE o \notin Owners
    <3>1. HasAccess' = HasAccess
      BY <2>2, <2>3, <2>5, SameAccess
    <3> QED BY <2>1, <3>1 DEF Access!vars
  <2> QED BY <2>4, <2>5
<1> QED BY <1>2, <1>3, <1>4, <1>5, <1>6, <1>7

\* A statement that ends the live tokens of one owner: it makes that owner
\* leave, if no call is left.
LEMMA RevokedLeave ==
    ASSUME NEW o \in Owners, row' = RevokedFor(o), UNCHANGED <<active, owner, call>>
    PROVE  Access!Next \/ UNCHANGED Access!vars
<1> HIDE DEF Owners
<1>1. \A p \in Owners \ {o} : LiveRows(p)' = LiveRows(p)
  BY DEF LiveRows, RevokedFor
<1>2. LiveRows(o)' \subseteq LiveRows(o)
  BY DEF LiveRows, RevokedFor
<1>3. \A p \in Owners : InProgress(p)' = InProgress(p)
  BY DEF InProgress
<1> QED BY <1>1, <1>2, <1>3, Leaving

\* Each step of Sessions is a step of TokenAccess, or changes nobody's access.
LEMMA NextAccess ==
    ASSUME TypeOK, ReadRowsStay, [Next]_vars
    PROVE  Access!Next \/ UNCHANGED Access!vars
<1>0. /\ row \in [Rows -> RowStates]
      /\ \A r \in Rows : row[r] # "none" => owner[r] \in Owners
      /\ closing \in [Closers -> Admins \cup {NoOne}]
      /\ Customers \subseteq Owners /\ Admins \subseteq Owners
  BY DEF TypeOK
<1> HIDE DEF Owners
<1>1. ASSUME NEW o \in Owners, Logout(o) PROVE Access!Next \/ UNCHANGED Access!vars
  BY <1>1, RevokedLeave DEF Logout
<1>2. ASSUME NEW w \in Closers, RevokeAll(w) PROVE Access!Next \/ UNCHANGED Access!vars
  <2>1. closing[w] \in Owners
    BY <1>0, <1>2 DEF RevokeAll
  <2> QED BY <1>2, <2>1, RevokedLeave DEF RevokeAll
<1>3. ASSUME UNCHANGED <<row, owner, call>> PROVE HasAccess' = HasAccess
  BY <1>3, SameAccess DEF LiveRows, InProgress
<1>4. ASSUME NEW o \in Owners, NEW on \in BOOLEAN, active' = [active EXCEPT ![o] = on],
             UNCHANGED <<row, owner, call>>
      PROVE  Access!Next \/ UNCHANGED Access!vars
  <2>1. Access!SetStatus(o, on)
    BY <1>3, <1>4 DEF Access!SetStatus
  <2> QED BY <1>4, <2>1 DEF Access!Next, Owners
<1>5. ASSUME NEW c \in Customers, NEW on \in BOOLEAN, SetCustomerStatus(c, on)
      PROVE  Access!Next \/ UNCHANGED Access!vars
  BY <1>0, <1>4, <1>5 DEF SetCustomerStatus
<1>6. ASSUME NEW w \in Closers, NEW a \in Admins, NEW on \in BOOLEAN, SetAdminStatus(w, a, on)
      PROVE  Access!Next \/ UNCHANGED Access!vars
  BY <1>0, <1>4, <1>6 DEF SetAdminStatus
<1>7. ASSUME UNCHANGED <<active, row, owner, call>> PROVE Access!Next \/ UNCHANGED Access!vars
  BY <1>3, <1>7 DEF Access!vars
<1>8. ASSUME NEW r \in Rows, Expire(r) PROVE Access!Next \/ UNCHANGED Access!vars
  <2>0. PICK o \in Owners : o = owner[r]
    BY <1>0, <1>8 DEF Expire
  <2>1. row' = [row EXCEPT ![r] = "dead"] /\ UNCHANGED <<active, owner, call>>
    BY <1>8 DEF Expire
  <2>2. \A p \in Owners \ {o} : LiveRows(p)' = LiveRows(p)
    BY <1>0, <2>0, <2>1 DEF LiveRows
  <2>3. LiveRows(o)' \subseteq LiveRows(o)
    BY <1>0, <2>0, <2>1 DEF LiveRows
  <2>4. \A p \in Owners : InProgress(p)' = InProgress(p)
    BY <2>1 DEF InProgress
  <2> QED BY <2>1, <2>2, <2>3, <2>4, Leaving
<1>9. ASSUME (\E r \in Rows : Stale(r)) \/ Cleanup PROVE Access!Next \/ UNCHANGED Access!vars
  <2>1. /\ \A r \in Rows : row'[r] = "live" <=> row[r] = "live"
        /\ UNCHANGED <<active, owner, call>>
    BY <1>0, <1>9 DEF Stale, Cleanup
  <2>2. \A p \in Owners : LiveRows(p)' = LiveRows(p) /\ InProgress(p)' = InProgress(p)
    BY <2>1 DEF LiveRows, InProgress
  <2> QED BY <2>1, <2>2, SameAccess DEF Access!vars
<1>10. ASSUME NEW k \in Calls,
              \/ \E c \in Customers : SignIn(k, c)
              \/ \E a \in Admins : Login(k, a)
              \/ \E r \in Rows : RefreshRead(k, r) \/ InsertToken(k, r)
              \/ RefreshRevoke(k) \/ CallDies(k)
       PROVE  Access!Next \/ UNCHANGED Access!vars
  BY <1>10, CallAccess
<1>11. ASSUME \/ \E w \in Closers : CloserDies(w) \/ \E a \in Admins : ChangePassword(w, a)
              \/ UNCHANGED vars
       PROVE  Access!Next \/ UNCHANGED Access!vars
  BY <1>7, <1>11 DEF CloserDies, ChangePassword, vars
<1> QED BY <1>1, <1>2, <1>5, <1>6, <1>8, <1>9, <1>10, <1>11 DEF Next

\* Sessions implements TokenAccess: whoever's last token is gone comes back in
\* by a sign-in of their own and in no other way.
THEOREM AccessIsGranted == Spec => AccessSpec
<1>1. Init => Access!Init
  <2> SUFFICES ASSUME Init PROVE Access!Init
    OBVIOUS
  <2>1. active = [o \in Customers \cup Admins |-> TRUE]
    BY DEF Init
  <2>2. \A o \in Owners : LiveRows(o) = {} /\ InProgress(o) = {}
    BY CallTypes, SessionsAssumption DEF Init, LiveRows, InProgress
  <2>3. HasAccess = {}
    BY <2>2 DEF HasAccess
  <2> QED BY <2>1, <2>3 DEF Access!Init
<1>2. Init => ReadRowsStay
  BY NothingReadYet
<1>3. TypeOK /\ ReadRowsStay /\ [Next]_vars => [Access!Next]_(Access!vars)
  BY NextAccess
<1> QED BY <1>1, <1>2, <1>3, ReadRowsStep, TypeCorrect, PTL DEF Spec, AccessSpec, Access!Spec
=============================================================================
