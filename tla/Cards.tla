------------------------------- MODULE Cards -------------------------------
(***************************************************************************)
(* A customer's payment methods (PaymentMethodsService): adding one,       *)
(* choosing the default, removing one, and the join flow's use of them     *)
(* (CustomerCirclesService.startJoin).  Every statement is restricted to   *)
(* one customer, so there is one.                                          *)
(*                                                                         *)
(* Only the choice of a default is a transaction, READ COMMITTED: its      *)
(* first statement clears the rows it saw when it began, waiting for those *)
(* another transaction has locked, and its effect is seen at commit.       *)
(***************************************************************************)
EXTENDS Naturals, FiniteSets

CONSTANTS
    PaymentMethods,     \* rows
    Calls,              \* worker slots for calls in progress
    NoCard

ASSUME CardsAssumption == NoCard \notin PaymentMethods /\ IsFiniteSet(Calls) /\ Calls # {}

VARIABLES
    live,       \* SUBSET PaymentMethods: inserted, removedAt null
    removed,    \* SUBSET PaymentMethods: removedAt set
    default,    \* SUBSET PaymentMethods: isDefault
    linked,     \* SUBSET PaymentMethods: on a PENDING_SIGNATURE or ACTIVE membership
    call        \* [Calls -> CallRecords]

vars == <<live, removed, default, linked, call>>

Steps == {"idle", "insert", "insertFirst", "clear", "lock", "set", "guard", "remove", "link"}

\* seen: the rows a clearing statement saw, and then has locked.
CallRecords == [step : Steps, card : PaymentMethods \cup {NoCard}, seen : SUBSET PaymentMethods]
Quiet == [step |-> "idle", card |-> NoCard, seen |-> {}]
At(s, c) == [step |-> s, card |-> c, seen |-> {}]

TypeOK ==
    /\ live \subseteq PaymentMethods /\ removed \subseteq PaymentMethods /\ live \cap removed = {}
    /\ default \subseteq live \cup removed /\ linked \subseteq live \cup removed
    /\ call \in [Calls -> CallRecords]

\* No other transaction has locked any of these rows.
Unlocked(k, cards) == \A j \in Calls \ {k} : call[j].step = "set" => call[j].seen \cap cards = {}

\* The seed's customer has a default card and another method, one signed in
\* for the first time has none.
Init ==
    /\ \E first, second \in PaymentMethods :
        live \in {{}, {first, second}} /\ default = live \cap {first}
    /\ removed = {} /\ linked = {}
    /\ call = [k \in Calls |-> Quiet]

-----------------------------------------------------------------------------
(* verifyAndAddPaymentMethod, once the gateway has verified the card *)

AddCount(k) ==
    /\ call[k] = Quiet
    /\ call' = [call EXCEPT ![k] = At(IF live = {} THEN "insertFirst" ELSE "insert", NoCard)]
    /\ UNCHANGED <<live, removed, default, linked>>

AddInsert(k, c) ==
    /\ call[k].step \in {"insert", "insertFirst"}
    /\ c \notin live \cup removed
    /\ live' = live \cup {c}
    /\ default' = IF call[k].step = "insertFirst" THEN default \cup {c} ELSE default
    /\ call' = [call EXCEPT ![k] = Quiet]
    /\ UNCHANGED <<removed, linked>>

-----------------------------------------------------------------------------
(* setDefaultPaymentMethod *)

ChooseRead(k, c) ==
    /\ call[k] = Quiet
    /\ c \in live
    /\ call' = [call EXCEPT ![k] = At("clear", c)]
    /\ UNCHANGED <<live, removed, default, linked>>

\* The clearing statement begins ...
ClearSees(k) ==
    /\ call[k].step = "clear"
    /\ call' = [call EXCEPT ![k].step = "lock", ![k].seen = live]
    /\ UNCHANGED <<live, removed, default, linked>>

\* Slip: the transaction looks for defaults to clear only among its own card.
ClearOwn(k) ==
    /\ call[k].step = "lock"
    /\ call' = [call EXCEPT ![k].step = "set", ![k].seen = {call[k].card}]
    /\ UNCHANGED <<live, removed, default, linked>>

\* ... and has its locks, on the rows of them that are still live.
ClearLocks(k) ==
    /\ call[k].step = "lock"
    /\ Unlocked(k, call[k].seen)
    /\ call' = [call EXCEPT ![k].step = "set", ![k].seen = @ \cap live]
    /\ UNCHANGED <<live, removed, default, linked>>

\* The update by id, removed or not, and the commit.
ChooseSet(k) ==
    /\ call[k].step = "set"
    /\ Unlocked(k, {call[k].card})
    /\ default' = (default \ call[k].seen) \cup {call[k].card}
    /\ call' = [call EXCEPT ![k] = Quiet]
    /\ UNCHANGED <<live, removed, linked>>

-----------------------------------------------------------------------------
(* deletePaymentMethod *)

RemoveRead(k, c) ==
    /\ call[k] = Quiet
    /\ c \in live
    /\ call' = [call EXCEPT ![k] = At("guard", c)]
    /\ UNCHANGED <<live, removed, default, linked>>

\* Refused while a membership has the card.
RemoveGuard(k) ==
    /\ call[k].step = "guard"
    /\ call' = [call EXCEPT ![k] = IF @.card \in linked THEN Quiet ELSE At("remove", @.card)]
    /\ UNCHANGED <<live, removed, default, linked>>

\* Slip: the row is deleted, not marked.
RemoveHard(k) ==
    /\ call[k].step = "remove"
    /\ Unlocked(k, {call[k].card})
    /\ live' = live \ {call[k].card}
    /\ default' = default \ {call[k].card}
    /\ call' = [call EXCEPT ![k] = Quiet]
    /\ UNCHANGED <<removed, linked>>

\* No other card becomes the default.
RemoveWrite(k) ==
    /\ call[k].step = "remove"
    /\ Unlocked(k, {call[k].card})
    /\ live' = live \ {call[k].card}
    /\ removed' = removed \cup {call[k].card}
    /\ default' = default \ {call[k].card}
    /\ call' = [call EXCEPT ![k] = Quiet]
    /\ UNCHANGED linked

-----------------------------------------------------------------------------
(* startJoin finds the card named in the request live, and inserts the     *)
(* membership with it later; a card given inline is added first.           *)

JoinRead(k, c) ==
    /\ call[k] = Quiet
    /\ c \in live
    /\ call' = [call EXCEPT ![k] = At("link", c)]
    /\ UNCHANGED <<live, removed, default, linked>>

JoinLink(k) ==
    /\ call[k].step = "link"
    /\ linked' = linked \cup {call[k].card}
    /\ call' = [call EXCEPT ![k] = Quiet]
    /\ UNCHANGED <<live, removed, default>>

\* The last such membership of the card is cancelled, defaulted or completed.
Unlink(c) ==
    /\ c \in linked
    /\ linked' = linked \ {c}
    /\ UNCHANGED <<live, removed, default, call>>

\* A call fails, or is refused for another reason; a transaction rolls back.
Dies(k) ==
    /\ call[k] # Quiet
    /\ call' = [call EXCEPT ![k] = Quiet]
    /\ UNCHANGED <<live, removed, default, linked>>

Next ==
    \/ \E k \in Calls, c \in PaymentMethods :
        AddInsert(k, c) \/ ChooseRead(k, c) \/ RemoveRead(k, c) \/ JoinRead(k, c)
    \/ \E k \in Calls :
        \/ AddCount(k) \/ ClearSees(k) \/ ClearLocks(k) \/ ChooseSet(k)
        \/ RemoveGuard(k) \/ RemoveWrite(k) \/ JoinLink(k) \/ Dies(k)
    \/ \E c \in PaymentMethods : Unlink(c)

Spec == Init /\ [][Next]_vars

-----------------------------------------------------------------------------
(* Properties *)

\* A customer never has more default methods than calls run at once: calls
\* one after the other never leave two, although the first card is counted
\* and inserted in two statements and a choice clears only what it saw.
DefaultsBounded == Cardinality(default \cap live) <= Cardinality(Calls)

Choosing == {k \in Calls : call[k].step \in {"lock", "set"}}
InsertingFirst == {k \in Calls : call[k].step = "insertFirst"}
Seen(K) == UNION {call[k].seen : k \in K}

\* What makes it inductive: the defaults about to be inserted are counted too,
\* and each call that chooses may add one to those that no such call will clear.
DefaultsInv ==
    /\ IsFiniteSet(default \cap live)
    /\ \A K \in SUBSET Choosing :
        Cardinality((default \cap live) \ Seen(K)) + Cardinality(InsertingFirst) + Cardinality(K)
            <= Cardinality(Calls)
=============================================================================
