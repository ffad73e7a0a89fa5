------------------------------- MODULE SignIn -------------------------------
(***************************************************************************)
(* One-time codes and the accounts they open: AuthService.requestOtp and   *)
(* verifyOtp, called by a visitor who signs in with an e-mail address and  *)
(* by a member who signs a contract with a code sent to their mobile       *)
(* number (CustomerCirclesService.acceptContract and                       *)
(* verifyContractOtpAndFinalize).  The profile sets that number.           *)
(*                                                                         *)
(* No two statements of a call share a transaction: each checks what it    *)
(* read and writes later.  Mobile numbers have a unique key, e-mail        *)
(* addresses have none.  The refresh token a sign-in ends with is the      *)
(* subject of the module Sessions.                                         *)
(*                                                                         *)
(* Codes are numbered in the order of their createdAt.  The clock is       *)
(* abstracted: a code is cooling (younger than a minute), then open, then  *)
(* expired, and moves on at any time.                                      *)
(***************************************************************************)
EXTENDS Integers, FiniteSets

CONSTANTS
    Emails, Numbers,    \* addresses a code can be sent to
    Accounts,           \* customer rows
    MaxCodes,           \* bound: code rows ever inserted
    MaxAttempts,        \* maxAttempts of a code row
    Requests,           \* worker slots for code requests
    Verifies,           \* worker slots for code verifications
    MaxCalls,           \* bound: slots in use at a time
    Named,              \* bound: the purposes a visitor may name
    Nowhere             \* no address

Targets == Emails \cup Numbers
Codes == 1..MaxCodes

ASSUME SignInAssumption ==
    /\ Emails \cap Numbers = {} /\ Nowhere \notin Targets
    /\ Named \subseteq {"login", "registration"}
    /\ MaxCodes \in Nat /\ MaxCalls \in Nat /\ MaxAttempts \in Nat \ {0}
    /\ IsFiniteSet(Accounts) /\ IsFiniteSet(Requests) /\ IsFiniteSet(Verifies)
    /\ Requests # {} /\ Verifies # {}

VARIABLES
    email,      \* [Accounts -> Emails \cup {Nowhere}]
    number,     \* [Accounts -> Numbers \cup {Nowhere}]: Nowhere also for PENDING_<uuid>
    code,       \* [Codes -> CodeRows]
    request,    \* [Requests -> RequestCalls]
    verify      \* [Verifies -> VerifyCalls]

vars == <<email, number, code, request, verify>>

\* contract_signature is never resolved, only passed in.
Purposes == {"login", "registration", "contract_signature"}

CodeStates == {"none", "cooling", "open", "expired", "used"}

CodeRows == [target : Targets \cup {Nowhere}, purpose : Purposes,
             state : CodeStates, attempts : Nat]

RequestCalls == [step : {"idle", "check", "create"},
                 target : Targets \cup {Nowhere}, purpose : Purposes]
QuietRequest == [step |-> "idle", target |-> Nowhere, purpose |-> "login"]

VerifyCalls == [step : {"idle", "find", "wrong", "right", "customer", "create"},
                target : Targets \cup {Nowhere}, purpose : Purposes, code : Codes \cup {0}]
QuietVerify == [step |-> "idle", target |-> Nowhere, purpose |-> "login", code |-> 0]

TypeOK ==
    /\ email \in [Accounts -> Emails \cup {Nowhere}]
    /\ number \in [Accounts -> Numbers \cup {Nowhere}]
    /\ code \in [Codes -> CodeRows]
    /\ request \in [Requests -> RequestCalls]
    /\ verify \in [Verifies -> VerifyCalls]
    /\ \A v \in Verifies : verify[v].step \in {"wrong", "right"} => verify[v].code \in Codes
    /\ \A v \in Verifies : verify[v].step # "idle" => verify[v].target \in Targets
    /\ \A r \in Requests : request[r].step # "idle" => request[r].target \in Targets

-----------------------------------------------------------------------------
AtEmail(t) == {a \in Accounts : email[a] = t}

\* findFirst by e-mail, or findUnique by mobileNumber.
AccountsAt(t) == IF t \in Emails THEN AtEmail(t) ELSE {a \in Accounts : number[a] = t}

Vacant(a) == email[a] = Nowhere /\ number[a] = Nowhere

\* The purpose a caller asked for, or the one resolvePurpose finds.
ResolvedPurpose(t, asked) ==
    IF asked # "none" THEN asked
    ELSE IF AccountsAt(t) # {} THEN "login" ELSE "registration"

\* Who may call with what: a visitor names an e-mail address and may name a
\* purpose of OtpPurpose; a member's own number is taken for a signature.
Callable(t, asked) ==
    \/ t \in Emails /\ asked \in {"none"} \cup Named
    \/ t \in Numbers /\ AccountsAt(t) # {} /\ asked = "contract_signature"

\* Another call may begin.
MayStart ==
    LET busy == {r \in Requests : request[r].step # "idle"} \cup {v \in Verifies : verify[v].step # "idle"}
    IN Cardinality(busy) < MaxCalls

Cooling(t, p) == {c \in Codes : code[c].state = "cooling" /\ code[c].target = t /\ code[c].purpose = p}

\* Unused and unexpired.
Valid(t, p) ==
    {c \in Codes : code[c].state \in {"cooling", "open"} /\ code[c].target = t /\ code[c].purpose = p}

\* The row the next insert makes.
NextCodes == {c \in Codes : code[c].state = "none" /\ \A d \in 1..(c - 1) : code[d].state # "none"}

-----------------------------------------------------------------------------
NoCode == [target |-> Nowhere, purpose |-> "login", state |-> "none", attempts |-> 0]

\* A new database, or one with a seeded customer.
Init ==
    /\ \E seeded \in SUBSET Accounts, e \in Emails, n \in Numbers :
        /\ Cardinality(seeded) <= 1
        /\ email = [a \in Accounts |-> IF a \in seeded THEN e ELSE Nowhere]
        /\ number = [a \in Accounts |-> IF a \in seeded THEN n ELSE Nowhere]
    /\ code = [c \in Codes |-> NoCode]
    /\ request = [r \in Requests |-> QuietRequest]
    /\ verify = [v \in Verifies |-> QuietVerify]

-----------------------------------------------------------------------------
(* requestOtp *)

RequestStart(r, t, asked) ==
    /\ request[r].step = "idle" /\ MayStart
    /\ Callable(t, asked)
    /\ request' = [request EXCEPT ![r] =
            [step |-> "check", target |-> t, purpose |-> ResolvedPurpose(t, asked)]]
    /\ UNCHANGED <<email, number, code, verify>>

\* Slip: the cooldown is not looked at.
RequestCheckNot(r) ==
    /\ request[r].step = "check"
    /\ request' = [request EXCEPT ![r].step = "create"]
    /\ UNCHANGED <<email, number, code, verify>>

\* Refused while an unused code for the same purpose is cooling.
RequestCheck(r) ==
    /\ request[r].step = "check"
    /\ request' = [request EXCEPT ![r] =
            IF Cooling(@.target, @.purpose) = {} THEN [@ EXCEPT !.step = "create"] ELSE QuietRequest]
    /\ UNCHANGED <<email, number, code, verify>>

\* The row is inserted and the code sent.  Older codes stay as they are.
RequestCreate(r) ==
    /\ request[r].step = "create"
    /\ \E c \in NextCodes :
        code' = [code EXCEPT ![c] =
            [target |-> request[r].target, purpose |-> request[r].purpose,
             state |-> "cooling", attempts |-> 0]]
    /\ request' = [request EXCEPT ![r] = QuietRequest]
    /\ UNCHANGED <<email, number, verify>>

-----------------------------------------------------------------------------
(* verifyOtp *)

VerifyStart(v, t, asked) ==
    /\ verify[v].step = "idle" /\ MayStart
    /\ Callable(t, asked)
    /\ verify' = [verify EXCEPT ![v] =
            [step |-> "find", target |-> t, purpose |-> ResolvedPurpose(t, asked), code |-> 0]]
    /\ UNCHANGED <<email, number, code, request>>

\* Slip: the attempts are not looked at.
FindAnyway(v) ==
    /\ verify[v].step = "find"
    /\ \E c \in Valid(verify[v].target, verify[v].purpose), outcome \in {"wrong", "right"} :
        /\ \A d \in Valid(verify[v].target, verify[v].purpose) : d <= c
        /\ verify' = [verify EXCEPT ![v].step = outcome, ![v].code = c]
    /\ UNCHANGED <<email, number, code, request>>

\* Slip: the row found is not kept for the writes that follow.
FindForgets(v) ==
    /\ verify[v].step = "find"
    /\ \E c \in Valid(verify[v].target, verify[v].purpose), outcome \in {"wrong", "right"} :
        /\ code[c].attempts < MaxAttempts
        /\ verify' = [verify EXCEPT ![v].step = outcome]
    /\ UNCHANGED <<email, number, code, request>>

\* The latest valid code, its attempts, and the comparison with what was entered.
VerifyFind(v) ==
    /\ verify[v].step = "find"
    /\ \E c \in Valid(verify[v].target, verify[v].purpose), outcome \in {"wrong", "right"} :
        /\ \A d \in Valid(verify[v].target, verify[v].purpose) : d <= c
        /\ code[c].attempts < MaxAttempts
        /\ verify' = [verify EXCEPT ![v].step = outcome, ![v].code = c]
    /\ UNCHANGED <<email, number, code, request>>

\* No valid code, or no attempt left.
VerifyRefuse(v) ==
    /\ verify[v].step = "find"
    /\ \A c \in Valid(verify[v].target, verify[v].purpose) :
        \/ code[c].attempts >= MaxAttempts
        \/ \E d \in Valid(verify[v].target, verify[v].purpose) : d > c
    /\ verify' = [verify EXCEPT ![v] = QuietVerify]
    /\ UNCHANGED <<email, number, code, request>>

\* An atomic increment, by id.
VerifyWrong(v) ==
    /\ verify[v].step = "wrong"
    /\ code' = [code EXCEPT ![verify[v].code].attempts = @ + 1]
    /\ verify' = [verify EXCEPT ![v] = QuietVerify]
    /\ UNCHANGED <<email, number, request>>

\* Slip: the code that has passed is not marked as used.
VerifyRightUnmarked(v) ==
    /\ verify[v].step = "right"
    /\ verify' = [verify EXCEPT ![v].step = "customer"]
    /\ UNCHANGED <<email, number, code, request>>

\* Marked as used by id, whether or not another call did so since.
VerifyRight(v) ==
    /\ verify[v].step = "right"
    /\ code' = [code EXCEPT ![verify[v].code].state = "used"]
    /\ verify' = [verify EXCEPT ![v].step = "customer"]
    /\ UNCHANGED <<email, number, request>>

\* Slip: the customer is not looked for, as if the address had a unique key.
VerifyCustomerNot(v) ==
    /\ verify[v].step = "customer"
    /\ verify' = [verify EXCEPT ![v].step = "create"]
    /\ UNCHANGED <<email, number, code, request>>

\* An existing customer is signed in; otherwise one is to be created.
VerifyCustomer(v) ==
    /\ verify[v].step = "customer"
    /\ verify' = [verify EXCEPT ![v] =
            IF AccountsAt(@.target) = {} THEN [@ EXCEPT !.step = "create"] ELSE QuietVerify]
    /\ UNCHANGED <<email, number, code, request>>

\* The insert, or for a number that was taken meanwhile the fallback.
VerifyCreate(v) ==
    /\ verify[v].step = "create"
    /\ IF verify[v].target \in Numbers /\ AccountsAt(verify[v].target) # {}
       THEN UNCHANGED <<email, number>>
       ELSE \E a \in Accounts :
            /\ Vacant(a)
            /\ IF verify[v].target \in Emails
               THEN email' = [email EXCEPT ![a] = verify[v].target] /\ UNCHANGED number
               ELSE number' = [number EXCEPT ![a] = verify[v].target] /\ UNCHANGED email
    /\ verify' = [verify EXCEPT ![v] = QuietVerify]
    /\ UNCHANGED <<code, request>>

-----------------------------------------------------------------------------
(* The profile, time, and calls that die *)

\* createOrUpdateProfile: a number another account has is refused (P2002).
SetNumber(a, n) ==
    /\ ~Vacant(a)
    /\ \A b \in Accounts \ {a} : number[b] # n
    /\ number' = [number EXCEPT ![a] = n]
    /\ UNCHANGED <<email, code, request, verify>>

\* cooldownUntil, then expiresAt, passes.
Age(c) ==
    /\ code[c].state \in {"cooling", "open"}
    /\ code' = [code EXCEPT ![c].state = IF @ = "cooling" THEN "open" ELSE "expired"]
    /\ UNCHANGED <<email, number, request, verify>>

RequestDies(r) ==
    /\ request[r].step # "idle"
    /\ request' = [request EXCEPT ![r] = QuietRequest]
    /\ UNCHANGED <<email, number, code, verify>>

VerifyDies(v) ==
    /\ verify[v].step # "idle"
    /\ verify' = [verify EXCEPT ![v] = QuietVerify]
    /\ UNCHANGED <<email, number, code, request>>

-----------------------------------------------------------------------------
Asked == {"none"} \cup Purposes

Next ==
    \/ \E r \in Requests, t \in Targets, asked \in Asked : RequestStart(r, t, asked)
    \/ \E r \in Requests : RequestCheck(r) \/ RequestCreate(r) \/ RequestDies(r)
    \/ \E v \in Verifies, t \in Targets, asked \in Asked : VerifyStart(v, t, asked)
    \/ \E v \in Verifies :
        \/ VerifyFind(v) \/ VerifyRefuse(v) \/ VerifyWrong(v) \/ VerifyRight(v)
        \/ VerifyCustomer(v) \/ VerifyCreate(v) \/ VerifyDies(v)
    \/ \E a \in Accounts, n \in Numbers : SetNumber(a, n)
    \/ \E c \in Codes : Age(c)

Spec == Init /\ [][Next]_vars

-----------------------------------------------------------------------------
(* Properties *)

Comparing(c) == {v \in Verifies : verify[v].step = "wrong" /\ verify[v].code = c}

\* A code is compared with wrong entries at most maxAttempts times, and once
\* more for each other verification in progress: the check reads a counter
\* that the calls beside it have yet to increment.
AttemptsBounded ==
    \A c \in Codes : code[c].attempts <= MaxAttempts + Cardinality(Verifies) - 1

\* What makes it inductive: the increments still to come are counted too.
AttemptsInv ==
    \A c \in Codes :
        code[c].attempts + Cardinality(Comparing(c)) <= MaxAttempts + Cardinality(Verifies) - 1

Creating(t, p) == {r \in Requests : request[r].step = "create" /\ request[r].target = t
                                    /\ request[r].purpose = p}

\* Within a minute an address is sent at most one code per purpose and request
\* in progress: requests one after the other never send a second.
CooldownHolds ==
    \A t \in Targets, p \in Purposes : Cardinality(Cooling(t, p)) <= Cardinality(Requests)

\* What makes it inductive: the codes about to be inserted are counted too.
CooldownInv ==
    \A t \in Targets, p \in Purposes :
        Cardinality(Cooling(t, p)) + Cardinality(Creating(t, p)) <= Cardinality(Requests)

Opening(e) == {v \in Verifies : verify[v].step = "create" /\ verify[v].target = e}

\* An e-mail address never has more accounts than verifications run at once;
\* a mobile number never has two.
AccountsPerAddress ==
    /\ \A e \in Emails : Cardinality(AtEmail(e)) <= Cardinality(Verifies)
    /\ \A a, b \in Accounts : number[a] = number[b] /\ number[a] # Nowhere => a = b

\* What makes it inductive: the accounts about to be inserted are counted too.
AccountsInv ==
    /\ \A e \in Emails : Cardinality(AtEmail(e)) + Cardinality(Opening(e)) <= Cardinality(Verifies)
    /\ \A a, b \in Accounts : number[a] = number[b] /\ number[a] # Nowhere => a = b

SentTo == [c \in Codes |-> code[c].target]
Unspent == {c \in Codes : code[c].state \in {"cooling", "open"}}
Used == {c \in Codes : code[c].state = "used"}

OneTime == INSTANCE OneTimeCodes WITH sentTo <- SentTo, valid <- Unspent, used <- Used

\* Every statement takes one step of OneTimeCodes or none, whichever requests,
\* verifications and profiles overlap or die: a code is never valid again once
\* it was used or has expired, however late a call marks it, and whoever
\* inserts an account has had a code passed that was sent to its address.
CodesSpec == OneTime!Spec

\* What calls rely on: a code was sent to the address it is entered for, and
\* is used before anything is done with the account.
CodeCalls ==
    /\ \A c \in Codes : code[c].target = Nowhere <=> code[c].state = "none"
    /\ \A v \in Verifies :
        /\ verify[v].step \in {"wrong", "right", "customer", "create"} =>
            verify[v].code \in Codes /\ code[verify[v].code].target = verify[v].target
        /\ verify[v].step \in {"customer", "create"} => code[verify[v].code].state = "used"

\* "Upsert Customer (with DB-level unique constraint handling for race
\* conditions)": an address has one account.
OneAccountPerAddress == \A e \in Emails : Cardinality(AtEmail(e)) <= 1
=============================================================================
