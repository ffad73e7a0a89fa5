---------------------------- MODULE TokenAccess -----------------------------
(***************************************************************************)
(* What sign-in tokens promise: whoever is in has come in by a sign-in of  *)
(* their own, an admin while ACTIVE, and having lost the last token comes  *)
(* back in no other way.  One owner comes or goes at a time; no status     *)
(* change lets anybody in.                                                 *)
(***************************************************************************)
CONSTANTS Customers, Admins

VARIABLES
    active,     \* [Customers \cup Admins -> BOOLEAN]
    holders     \* the owners of a usable token, or of one that is being made

vars == <<active, holders>>

Init ==
    /\ active = [o \in Customers \cup Admins |-> TRUE]
    /\ holders = {}

Enter(o) ==
    /\ o \in Customers \/ active[o]
    /\ holders' = holders \cup {o}
    /\ UNCHANGED active

Leave(o) ==
    /\ holders' = holders \ {o}
    /\ UNCHANGED active

SetStatus(o, on) ==
    /\ active' = [active EXCEPT ![o] = on]
    /\ UNCHANGED holders

Next ==
    \E o \in Customers \cup Admins :
        Enter(o) \/ Leave(o) \/ \E on \in BOOLEAN : SetStatus(o, on)

Spec == Init /\ [][Next]_vars
=============================================================================
