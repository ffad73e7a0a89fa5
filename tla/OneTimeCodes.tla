---------------------------- MODULE OneTimeCodes ----------------------------
(***************************************************************************)
(* What one-time codes promise: the codes are sent one after the other,    *)
(* each to one address for good; a code that is used or has expired is     *)
(* never valid again; an account is opened at an address only after a code *)
(* sent there was used, and is never closed or moved to another e-mail     *)
(* address; no two accounts have one number.                               *)
(***************************************************************************)
EXTENDS Integers

CONSTANTS
    Emails, Numbers, Accounts,
    MaxCodes,       \* codes are 1..MaxCodes, in the order they are sent
    Nowhere         \* no address

VARIABLES
    email,          \* [Accounts -> Emails \cup {Nowhere}]
    number,         \* [Accounts -> Numbers \cup {Nowhere}]
    sentTo,         \* [Codes -> Emails \cup Numbers \cup {Nowhere}]
    valid, used     \* SUBSET Codes

vars == <<email, number, sentTo, valid, used>>

Codes == 1..MaxCodes

\* At most one account to begin with.
Init ==
    /\ \E seeded \in SUBSET Accounts, e \in Emails, n \in Numbers :
        /\ \A a, b \in seeded : a = b
        /\ email = [a \in Accounts |-> IF a \in seeded THEN e ELSE Nowhere]
        /\ number = [a \in Accounts |-> IF a \in seeded THEN n ELSE Nowhere]
    /\ sentTo = [c \in Codes |-> Nowhere]
    /\ valid = {} /\ used = {}

Send(c, t) ==
    /\ sentTo[c] = Nowhere
    /\ \A d \in 1..(c - 1) : sentTo[d] # Nowhere
    /\ sentTo' = [sentTo EXCEPT ![c] = t]
    /\ valid' = valid \cup {c}
    /\ UNCHANGED <<email, number, used>>

\* A code may expire while it is looked at, and two who enter it both pass.
Use(c) ==
    /\ sentTo[c] # Nowhere
    /\ used' = used \cup {c}
    /\ valid' = valid \ {c}
    /\ UNCHANGED <<email, number, sentTo>>

Expire(c) ==
    /\ valid' = valid \ {c}
    /\ UNCHANGED <<email, number, sentTo, used>>

Entitled(t) == \E c \in used : sentTo[c] = t

OpenAtEmail(a, e) ==
    /\ Entitled(e)
    /\ email[a] = Nowhere /\ number[a] = Nowhere
    /\ email' = [email EXCEPT ![a] = e]
    /\ UNCHANGED <<number, sentTo, valid, used>>

\* An account that is being opened, or one whose profile names a number.
TakeNumber(a, n) ==
    /\ email[a] # Nowhere \/ number[a] # Nowhere \/ Entitled(n)
    /\ \A b \in Accounts \ {a} : number[b] # n
    /\ number' = [number EXCEPT ![a] = n]
    /\ UNCHANGED <<email, sentTo, valid, used>>

Next ==
    \/ \E c \in Codes : Use(c) \/ Expire(c) \/ \E t \in Emails \cup Numbers : Send(c, t)
    \/ \E a \in Accounts : \/ \E e \in Emails : OpenAtEmail(a, e)
                           \/ \E n \in Numbers : TakeNumber(a, n)

Spec == Init /\ [][Next]_vars
=============================================================================
