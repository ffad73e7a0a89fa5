---------------------------- MODULE Cards_proofs ----------------------------
(***************************************************************************)
(* Theorems about Cards, for any payment methods and calls.  That there    *)
(* are no more defaults than calls does not rest on the row locks of the   *)
(* one transaction: each call that adds a default either saw no card at    *)
(* all or clears the defaults it saw, and what it did not see was added by *)
(* other calls meanwhile.                                                  *)
(***************************************************************************)
EXTENDS Cards, FiniteSetTheorems, TLAPS

\* The records a call moves through are well typed.
LEMMA CallTypes ==
    /\ Quiet \in CallRecords
    /\ \A s \in Steps, c \in PaymentMethods \cup {NoCard} :
        /\ At(s, c) \in CallRecords
        /\ At(s, c).step = s /\ At(s, c).card = c /\ At(s, c).seen = {}
    /\ Quiet.step = "idle"
BY DEF CallRecords, Quiet, At, Steps

\* A call that is past its read has a row.
CardsKnown ==
    \A k \in Calls : call[k].step \in {"clear", "lock", "set", "guard", "remove", "link"} =>
        call[k].card \in live \cup removed

LEMMA InitCards == Init => TypeOK /\ CardsKnown
<1> SUFFICES ASSUME Init PROVE TypeOK /\ CardsKnown
  OBVIOUS
<1>1. PICK first \in PaymentMethods, second \in PaymentMethods :
        live \in {{}, {first, second}} /\ default = live \cap {first}
  BY DEF Init
<1>2. live \subseteq PaymentMethods /\ default \subseteq live
  BY <1>1
<1>3. call \in [Calls -> CallRecords] /\ \A k \in Calls : call[k].step = "idle"
  BY CallTypes DEF Init
<1> QED BY <1>2, <1>3 DEF Init, TypeOK, CardsKnown

LEMMA NextCards == TypeOK /\ CardsKnown /\ [Next]_vars => TypeOK' /\ CardsKnown'
<1> SUFFICES ASSUME TypeOK, CardsKnown, [Next]_vars PROVE TypeOK' /\ CardsKnown'
  OBVIOUS
<1> USE DEF Steps
<1>1. ASSUME NEW k \in Calls, NEW c \in PaymentMethods, AddInsert(k, c) PROVE TypeOK' /\ CardsKnown'
  <2>1. call' \in [Calls -> CallRecords]
    BY <1>1, CallTypes DEF AddInsert, TypeOK, CardsKnown
  <2>2. CardsKnown'
    BY <1>1, CallTypes DEF AddInsert, TypeOK, CardsKnown
  <2> QED BY <1>1, <2>1, <2>2 DEF AddInsert, TypeOK, CardsKnown
<1>2. ASSUME NEW k \in Calls, NEW c \in PaymentMethods, ChooseRead(k, c) PROVE TypeOK' /\ CardsKnown'
  <2>1. call' \in [Calls -> CallRecords]
    BY <1>2, CallTypes DEF ChooseRead, TypeOK, CardsKnown
  <2>2. CardsKnown'
    BY <1>2, CallTypes DEF ChooseRead, TypeOK, CardsKnown
  <2> QED BY <1>2, <2>1, <2>2 DEF ChooseRead, TypeOK, CardsKnown
<1>3. ASSUME NEW k \in Calls, NEW c \in PaymentMethods, RemoveRead(k, c) PROVE TypeOK' /\ CardsKnown'
  <2>1. call' \in [Calls -> CallRecords]
    BY <1>3, CallTypes DEF RemoveRead, TypeOK, CardsKnown
  <2>2. CardsKnown'
    BY <1>3, CallTypes DEF RemoveRead, TypeOK, CardsKnown
  <2> QED BY <1>3, <2>1, <2>2 DEF RemoveRead, TypeOK, CardsKnown
<1>4. ASSUME NEW k \in Calls, NEW c \in PaymentMethods, JoinRead(k, c) PROVE TypeOK' /\ CardsKnown'
  <2>1. call' \in [Calls -> CallRecords]
    BY <1>4, CallTypes DEF JoinRead, TypeOK, CardsKnown
  <2>2. CardsKnown'
    BY <1>4, CallTypes DEF JoinRead, TypeOK, CardsKnown
  <2> QED BY <1>4, <2>1, <2>2 DEF JoinRead, TypeOK, CardsKnown
<1>5. ASSUME NEW k \in Calls, AddCount(k) PROVE TypeOK' /\ CardsKnown'
  <2>0. PICK s \in {"insertFirst", "insert"} : call' = [call EXCEPT ![k] = At(s, NoCard)]
    BY <1>5 DEF AddCount
  <2>1. call' \in [Calls -> CallRecords]
    BY <1>5, <2>0, CallTypes DEF TypeOK
  <2>2. call'[k].step = s /\ \A j \in Calls \ {k} : call'[j] = call[j]
    BY <1>5, <2>0, CallTypes DEF TypeOK
  <2>3. UNCHANGED <<live, removed, default, linked>>
    BY <1>5 DEF AddCount
  <2>4. CardsKnown'
    BY <2>2, <2>3 DEF CardsKnown
  <2> QED BY <2>1, <2>3, <2>4 DEF TypeOK
<1>6. ASSUME NEW k \in Calls, ClearSees(k) PROVE TypeOK' /\ CardsKnown'
  <2>0. [call[k] EXCEPT !.step = "lock", !.seen = live] \in CallRecords
    BY <1>6 DEF TypeOK, CallRecords
  <2>1. call' \in [Calls -> CallRecords]
    BY <1>6, <2>0 DEF ClearSees, TypeOK
  <2>2. /\ call[k].step \in {"clear", "lock"} /\ call'[k].card = call[k].card
        /\ \A j \in Calls \ {k} : call'[j] = call[j]
        /\ UNCHANGED <<live, removed>>
    BY <1>6 DEF ClearSees, TypeOK, CallRecords
  <2>3. CardsKnown'
    BY <2>2 DEF CardsKnown
  <2> QED BY <1>6, <2>1, <2>3 DEF ClearSees, TypeOK
<1>7. ASSUME NEW k \in Calls, ClearLocks(k) PROVE TypeOK' /\ CardsKnown'
  <2>0. [call[k] EXCEPT !.step = "set", !.seen = call[k].seen \cap live] \in CallRecords
    BY <1>7 DEF TypeOK, CallRecords
  <2>1. call' \in [Calls -> CallRecords]
    BY <1>7, <2>0 DEF ClearLocks, TypeOK
  <2>2. /\ call[k].step \in {"clear", "lock"} /\ call'[k].card = call[k].card
        /\ \A j \in Calls \ {k} : call'[j] = call[j]
        /\ UNCHANGED <<live, removed>>
    BY <1>7 DEF ClearLocks, TypeOK, CallRecords
  <2>3. CardsKnown'
    BY <2>2 DEF CardsKnown
  <2> QED BY <1>7, <2>1, <2>3 DEF ClearLocks, TypeOK
<1>8. ASSUME NEW k \in Calls, ChooseSet(k) PROVE TypeOK' /\ CardsKnown'
  <2>1. call' \in [Calls -> CallRecords]
    BY <1>8, CallTypes DEF ChooseSet, TypeOK, CardsKnown
  <2>2. CardsKnown'
    BY <1>8, CallTypes DEF ChooseSet, TypeOK, CardsKnown
  <2> QED BY <1>8, <2>1, <2>2 DEF ChooseSet, TypeOK, CardsKnown
<1>9. ASSUME NEW k \in Calls, RemoveGuard(k) PROVE TypeOK' /\ CardsKnown'
  <2>1. call' \in [Calls -> CallRecords]
    BY <1>9, CallTypes DEF RemoveGuard, TypeOK, CardsKnown
  <2>2. CardsKnown'
    BY <1>9, CallTypes DEF RemoveGuard, TypeOK, CardsKnown
  <2> QED BY <1>9, <2>1, <2>2 DEF RemoveGuard, TypeOK, CardsKnown
<1>10. ASSUME NEW k \in Calls, RemoveWrite(k) PROVE TypeOK' /\ CardsKnown'
  <2>1. call' \in [Calls -> CallRecords]
    BY <1>10, CallTypes DEF RemoveWrite, TypeOK, CardsKnown
  <2>2. CardsKnown'
    BY <1>10, CallTypes DEF RemoveWrite, TypeOK, CardsKnown
  <2> QED BY <1>10, <2>1, <2>2 DEF RemoveWrite, TypeOK, CardsKnown
<1>11. ASSUME NEW k \in Calls, JoinLink(k) PROVE TypeOK' /\ CardsKnown'
  <2>1. call' \in [Calls -> CallRecords]
    BY <1>11, CallTypes DEF JoinLink, TypeOK, CardsKnown
  <2>2. CardsKnown'
    BY <1>11, CallTypes DEF JoinLink, TypeOK, CardsKnown
  <2> QED BY <1>11, <2>1, <2>2 DEF JoinLink, TypeOK, CardsKnown
<1>12. ASSUME NEW k \in Calls, Dies(k) PROVE TypeOK' /\ CardsKnown'
  <2>1. call' \in [Calls -> CallRecords]
    BY <1>12, CallTypes DEF Dies, TypeOK, CardsKnown
  <2>2. CardsKnown'
    BY <1>12, CallTypes DEF Dies, TypeOK, CardsKnown
  <2> QED BY <1>12, <2>1, <2>2 DEF Dies, TypeOK, CardsKnown
<1>13. ASSUME NEW c \in PaymentMethods, Unlink(c) PROVE TypeOK' /\ CardsKnown'
  BY <1>13 DEF Unlink, TypeOK, CardsKnown
<1>14. CASE UNCHANGED vars
  BY <1>14 DEF vars, TypeOK, CardsKnown
<1> QED BY <1>1, <1>2, <1>3, <1>4, <1>5, <1>6, <1>7, <1>8, <1>9, <1>10, <1>11, <1>12, <1>13, <1>14
      DEF Next

LEMMA Typing == Spec => [](TypeOK /\ CardsKnown)
BY InitCards, NextCards, PTL DEF Spec

\* Every reachable state of rows and calls is well typed; a card is live or
\* removed, never both, and no default or linked card is without a row.
THEOREM TypeCorrect == Spec => []TypeOK
BY Typing, PTL

-----------------------------------------------------------------------------
LEMMA SubsetCounts ==
    ASSUME NEW S, IsFiniteSet(S), NEW T, T \subseteq S
    PROVE  /\ IsFiniteSet(T) /\ Cardinality(T) <= Cardinality(S)
           /\ Cardinality(T) \in Nat /\ Cardinality(S) \in Nat
BY FS_Subset, FS_CardinalityType

\* A set that gains at most one element grows by at most one.
LEMMA GainCounts ==
    ASSUME NEW S, IsFiniteSet(S), NEW x, NEW T, T \subseteq S \cup {x}
    PROVE  IsFiniteSet(T) /\ Cardinality(T) \in Nat /\ Cardinality(T) <= Cardinality(S) + 1
<1>1. Cardinality(S) \in Nat
  BY FS_CardinalityType
<1>2. /\ IsFiniteSet(S \cup {x})
      /\ Cardinality(S \cup {x}) = IF x \in S THEN Cardinality(S) ELSE Cardinality(S) + 1
  BY FS_AddElement
<1>3. IsFiniteSet(T) /\ Cardinality(T) \in Nat /\ Cardinality(T) <= Cardinality(S \cup {x})
  BY <1>2, SubsetCounts
<1> QED BY <1>1, <1>2, <1>3

\* Two disjoint sets of calls are at most all calls together.
LEMMA DisjointCalls ==
    ASSUME NEW S, NEW T, S \subseteq Calls, T \subseteq Calls, S \cap T = {}
    PROVE  Cardinality(S) + Cardinality(T) <= Cardinality(Calls)
<1>1. IsFiniteSet(S) /\ IsFiniteSet(T) /\ Cardinality(S) \in Nat /\ Cardinality(T) \in Nat
  BY CardsAssumption, SubsetCounts
<1>2. Cardinality(S \cup T) = Cardinality(S) + Cardinality(T) - Cardinality(S \cap T)
  BY <1>1, FS_Union
<1>3. Cardinality(S \cup T) <= Cardinality(Calls)
  BY CardsAssumption, SubsetCounts
<1> QED BY <1>1, <1>2, <1>3, FS_EmptySet

\* The numbers DefaultsInv adds up.
LEMMA Counted ==
    ASSUME IsFiniteSet(default \cap live), NEW K \in SUBSET Calls
    PROVE  /\ IsFiniteSet(K) /\ IsFiniteSet((default \cap live) \ Seen(K)) /\ IsFiniteSet(InsertingFirst)
           /\ Cardinality(K) \in Nat /\ Cardinality((default \cap live) \ Seen(K)) \in Nat
           /\ Cardinality(InsertingFirst) \in Nat /\ Cardinality(Calls) \in Nat
<1>1. InsertingFirst \subseteq Calls
  BY DEF InsertingFirst
<1> QED BY <1>1, CardsAssumption, SubsetCounts

\* No first card and at most one seeded default, which is no more than there
\* are calls.
LEMMA InitDefaults == Init => DefaultsInv
<1> SUFFICES ASSUME Init PROVE DefaultsInv
  OBVIOUS
<1>1. PICK first \in PaymentMethods : default \cap live \subseteq {first}
  BY DEF Init
<1>2. IsFiniteSet({first}) /\ Cardinality({first}) = 1
  BY FS_Singleton
<1>3. Choosing = {} /\ InsertingFirst = {}
  BY DEF Init, Choosing, InsertingFirst, Quiet
<1>4. Cardinality(Calls) \in Nat /\ Cardinality(Calls) # 0
  BY CardsAssumption, FS_CardinalityType, FS_EmptySet
<1>5. \A K \in SUBSET Choosing :
        /\ Cardinality((default \cap live) \ Seen(K)) \in Nat
        /\ Cardinality((default \cap live) \ Seen(K)) <= 1
        /\ Cardinality(K) = 0
  BY <1>1, <1>2, <1>3, SubsetCounts, FS_EmptySet
<1> QED BY <1>1, <1>2, <1>3, <1>4, <1>5, SubsetCounts, FS_EmptySet DEF DefaultsInv

\* A step after which there are no more defaults, first cards to insert and
\* choices than before, and none of the remaining defaults was dropped from
\* what a choice has seen.
LEMMA NoMoreDefaults ==
    ASSUME DefaultsInv,
           default' \cap live' \subseteq default \cap live,
           InsertingFirst' \subseteq InsertingFirst, Choosing' \subseteq Choosing,
           \A k \in Choosing' : call[k].seen \cap default' \cap live' \subseteq call'[k].seen
    PROVE  DefaultsInv'
<1>1. IsFiniteSet(default' \cap live')
  BY SubsetCounts DEF DefaultsInv
<1>2. ASSUME NEW K \in SUBSET Choosing'
      PROVE  Cardinality((default' \cap live') \ Seen(K)') + Cardinality(InsertingFirst') + Cardinality(K)
                <= Cardinality(Calls)
  <2>1. (default' \cap live') \ Seen(K)' \subseteq (default \cap live) \ Seen(K)
    BY DEF Seen
  <2>2. K \in SUBSET Choosing /\ K \in SUBSET Calls
    BY DEF Choosing
  <2>3. Cardinality((default \cap live) \ Seen(K)) + Cardinality(InsertingFirst) + Cardinality(K)
            <= Cardinality(Calls)
    BY <2>2 DEF DefaultsInv
  <2>4. /\ IsFiniteSet((default \cap live) \ Seen(K)) /\ IsFiniteSet(InsertingFirst)
        /\ Cardinality(K) \in Nat /\ Cardinality(Calls) \in Nat
        /\ Cardinality((default \cap live) \ Seen(K)) \in Nat /\ Cardinality(InsertingFirst) \in Nat
    BY <2>2, Counted DEF DefaultsInv
  <2>5. /\ Cardinality((default' \cap live') \ Seen(K)') \in Nat
        /\ Cardinality((default' \cap live') \ Seen(K)') <= Cardinality((default \cap live) \ Seen(K))
        /\ Cardinality(InsertingFirst') \in Nat
        /\ Cardinality(InsertingFirst') <= Cardinality(InsertingFirst)
    BY <2>1, <2>4, SubsetCounts
  <2> QED BY <2>3, <2>4, <2>5
<1> QED BY <1>1, <1>2 DEF DefaultsInv

\* Where no default is left uncleared, first cards and choices are made by
\* different calls.
LEMMA NothingLeft ==
    ASSUME NEW D, NEW F, NEW K, D = {}, F \subseteq Calls, K \subseteq Calls, F \cap K = {}
    PROVE  Cardinality(D) + Cardinality(F) + Cardinality(K) <= Cardinality(Calls)
<1>1. Cardinality(D) = 0
  BY FS_EmptySet
<1>2. Cardinality(F) + Cardinality(K) <= Cardinality(Calls)
  BY DisjointCalls
<1>3. Cardinality(F) \in Nat /\ Cardinality(K) \in Nat /\ Cardinality(Calls) \in Nat
  BY CardsAssumption, SubsetCounts
<1> QED BY <1>1, <1>2, <1>3

\* A call finds no card: there is no default.
LEMMA CountDefaults ==
    ASSUME TypeOK, DefaultsInv, NEW k \in Calls, AddCount(k) PROVE DefaultsInv'
<1>1. CASE live # {}
  <2>1. call' = [call EXCEPT ![k] = At("insert", NoCard)] /\ UNCHANGED <<live, default>>
    BY <1>1 DEF AddCount
  <2>2. InsertingFirst' \subseteq InsertingFirst /\ Choosing' \subseteq Choosing
    BY <2>1 DEF InsertingFirst, Choosing, At, TypeOK
  <2>3. \A j \in Choosing' : call'[j] = call[j]
    BY <2>1 DEF Choosing, At, TypeOK
  <2> QED BY <2>1, <2>2, <2>3, NoMoreDefaults
<1>2. CASE live = {}
  <2>1. default' \cap live' = {}
    BY <1>2 DEF AddCount
  <2>2. InsertingFirst' \cap Choosing' = {} /\ InsertingFirst' \subseteq Calls /\ Choosing' \subseteq Calls
    BY DEF InsertingFirst, Choosing
  <2>3. \A K \in SUBSET Choosing' :
            Cardinality((default' \cap live') \ Seen(K)') + Cardinality(InsertingFirst') + Cardinality(K)
                <= Cardinality(Calls)
    BY <2>1, <2>2, NothingLeft
  <2> QED BY <2>1, <2>3, FS_EmptySet DEF DefaultsInv
<1> QED BY <1>1, <1>2

\* A choice begins: it sees every default there is.
LEMMA ClearSeesDefaults ==
    ASSUME TypeOK, DefaultsInv, NEW k \in Calls, ClearSees(k) PROVE DefaultsInv'
<1>1. /\ live' = live /\ default' = default /\ call'[k].seen = live
      /\ \A j \in Calls \ {k} : call'[j] = call[j]
      /\ InsertingFirst' = InsertingFirst /\ Choosing' = Choosing \cup {k}
  BY DEF ClearSees, TypeOK, CallRecords, InsertingFirst, Choosing
<1>2. IsFiniteSet(default' \cap live')
  BY <1>1 DEF DefaultsInv
<1>3. ASSUME NEW K \in SUBSET Choosing'
      PROVE  Cardinality((default' \cap live') \ Seen(K)') + Cardinality(InsertingFirst') + Cardinality(K)
                <= Cardinality(Calls)
  <2>1. CASE k \in K
    <3>1. (default' \cap live') \ Seen(K)' = {}
      BY <1>1, <2>1 DEF Seen
    <3>2. InsertingFirst' \cap K = {} /\ InsertingFirst' \subseteq Calls /\ K \subseteq Calls
      BY DEF InsertingFirst, Choosing
    <3> QED BY <3>1, <3>2, NothingLeft
  <2>2. CASE k \notin K
    <3>1. K \in SUBSET Choosing /\ Seen(K)' = Seen(K)
      BY <1>1, <2>2 DEF Seen, Choosing
    <3> QED BY <1>1, <3>1 DEF DefaultsInv
  <2> QED BY <2>1, <2>2
<1> QED BY <1>2, <1>3 DEF DefaultsInv

\* A first card is inserted: what was counted as to come is counted as there.
LEMMA InsertDefaults ==
    ASSUME TypeOK, DefaultsInv, NEW k \in Calls, NEW c \in PaymentMethods, AddInsert(k, c)
    PROVE  DefaultsInv'
<1>1. /\ c \notin live \cup removed /\ live' = live \cup {c}
      /\ \A j \in Calls \ {k} : call'[j] = call[j]
      /\ call'[k].step = "idle"
  BY DEF AddInsert, TypeOK, Quiet
<1>2. Choosing' \subseteq Choosing /\ \A j \in Choosing' : call'[j] = call[j]
  BY <1>1 DEF Choosing
<1>3. CASE call[k].step = "insert"
  <2>1. default' \cap live' \subseteq default \cap live
    BY <1>1, <1>3 DEF AddInsert, TypeOK
  <2>2. InsertingFirst' \subseteq InsertingFirst
    BY <1>1 DEF InsertingFirst
  <2> QED BY <1>2, <2>1, <2>2, NoMoreDefaults
<1>4. CASE call[k].step = "insertFirst"
  <2>1. default' \cap live' \subseteq (default \cap live) \cup {c}
    BY <1>1, <1>4 DEF AddInsert
  <2>2. IsFiniteSet(default' \cap live')
    BY <2>1, GainCounts DEF DefaultsInv
  <2>3. InsertingFirst' = InsertingFirst \ {k} /\ k \in InsertingFirst
    BY <1>1, <1>4 DEF InsertingFirst
  <2>4. ASSUME NEW K \in SUBSET Choosing'
        PROVE  Cardinality((default' \cap live') \ Seen(K)') + Cardinality(InsertingFirst') + Cardinality(K)
                  <= Cardinality(Calls)
    <3>1. K \in SUBSET Choosing /\ K \in SUBSET Calls /\ Seen(K)' = Seen(K)
      BY <1>2 DEF Seen, Choosing
    <3>2. (default' \cap live') \ Seen(K)' \subseteq ((default \cap live) \ Seen(K)) \cup {c}
      BY <2>1, <3>1
    <3>3. /\ IsFiniteSet((default \cap live) \ Seen(K)) /\ IsFiniteSet(InsertingFirst)
          /\ Cardinality(K) \in Nat /\ Cardinality(Calls) \in Nat
          /\ Cardinality((default \cap live) \ Seen(K)) \in Nat /\ Cardinality(InsertingFirst) \in Nat
      BY <3>1, Counted DEF DefaultsInv
    <3>4. /\ Cardinality((default' \cap live') \ Seen(K)') \in Nat
          /\ Cardinality((default' \cap live') \ Seen(K)') <= Cardinality((default \cap live) \ Seen(K)) + 1
      BY <3>2, <3>3, GainCounts
    <3>5. Cardinality(InsertingFirst') = Cardinality(InsertingFirst) - 1
      BY <2>3, <3>3, FS_RemoveElement
    <3>6. Cardinality((default \cap live) \ Seen(K)) + Cardinality(InsertingFirst) + Cardinality(K)
              <= Cardinality(Calls)
      BY <3>1 DEF DefaultsInv
    <3> QED BY <3>3, <3>4, <3>5, <3>6
  <2> QED BY <2>2, <2>4 DEF DefaultsInv
<1> QED BY <1>3, <1>4 DEF AddInsert

\* A choice is written: the call was counted, and its card takes its place.
LEMMA SetDefaults ==
    ASSUME TypeOK, DefaultsInv, NEW k \in Calls, ChooseSet(k) PROVE DefaultsInv'
<1> DEFINE c == call[k].card
<1>1. /\ live' = live /\ default' = (default \ call[k].seen) \cup {c} /\ k \in Choosing
      /\ \A j \in Calls \ {k} : call'[j] = call[j]
      /\ call'[k].step = "idle"
  BY DEF ChooseSet, TypeOK, Quiet, Choosing
<1>2. /\ Choosing' = Choosing \ {k} /\ InsertingFirst' = InsertingFirst
      /\ \A j \in Choosing' : call'[j] = call[j]
  BY <1>1 DEF Choosing, InsertingFirst
<1>3. IsFiniteSet(default' \cap live')
  <2>1. default' \cap live' \subseteq (default \cap live) \cup {c}
    BY <1>1
  <2> QED BY <2>1, GainCounts DEF DefaultsInv
<1>4. ASSUME NEW K \in SUBSET Choosing'
      PROVE  Cardinality((default' \cap live') \ Seen(K)') + Cardinality(InsertingFirst') + Cardinality(K)
                <= Cardinality(Calls)
  <2> DEFINE L == K \cup {k}
  <2>1. L \in SUBSET Choosing /\ L \in SUBSET Calls /\ K \in SUBSET Calls /\ k \notin K
    BY <1>1, <1>2 DEF Choosing
  <2>2. Seen(L) = Seen(K) \cup call[k].seen /\ Seen(K)' = Seen(K)
    BY <1>2 DEF Seen
  <2>3. (default' \cap live') \ Seen(K)' \subseteq ((default \cap live) \ Seen(L)) \cup {c}
    BY <1>1, <2>2
  <2>4. /\ IsFiniteSet(K) /\ IsFiniteSet((default \cap live) \ Seen(L))
        /\ Cardinality(K) \in Nat /\ Cardinality(Calls) \in Nat
        /\ Cardinality((default \cap live) \ Seen(L)) \in Nat /\ Cardinality(InsertingFirst) \in Nat
    BY <2>1, Counted DEF DefaultsInv
  <2>5. /\ Cardinality((default' \cap live') \ Seen(K)') \in Nat
        /\ Cardinality((default' \cap live') \ Seen(K)') <= Cardinality((default \cap live) \ Seen(L)) + 1
    <3> HIDE DEF L, c
    <3> QED BY <2>3, <2>4, GainCounts
  <2>6. Cardinality(L) = Cardinality(K) + 1
    BY <2>1, <2>4, FS_AddElement
  <2>7. Cardinality((default \cap live) \ Seen(L)) + Cardinality(InsertingFirst) + Cardinality(L)
            <= Cardinality(Calls)
    BY <2>1 DEF DefaultsInv
  <2> QED BY <1>2, <2>4, <2>5, <2>6, <2>7
<1> QED BY <1>3, <1>4 DEF DefaultsInv

\* No step takes the number of defaults, made or to come, past the number of
\* calls.
LEMMA NextDefaults == TypeOK /\ DefaultsInv /\ [Next]_vars => DefaultsInv'
<1> SUFFICES ASSUME TypeOK, DefaultsInv, [Next]_vars PROVE DefaultsInv'
  OBVIOUS
<1> USE DEF Quiet, At
<1>1. ASSUME NEW k \in Calls, NEW c \in PaymentMethods, AddInsert(k, c) PROVE DefaultsInv'
  BY <1>1, InsertDefaults
<1>2. ASSUME NEW k \in Calls, AddCount(k) PROVE DefaultsInv'
  BY <1>2, CountDefaults
<1>3. ASSUME NEW k \in Calls, ClearSees(k) PROVE DefaultsInv'
  BY <1>3, ClearSeesDefaults
<1>4. ASSUME NEW k \in Calls, ChooseSet(k) PROVE DefaultsInv'
  BY <1>4, SetDefaults
<1>5. ASSUME NEW k \in Calls, ClearLocks(k) PROVE DefaultsInv'
  <2>1. /\ live' = live /\ default' = default /\ call'[k].seen = call[k].seen \cap live
        /\ \A j \in Calls \ {k} : call'[j] = call[j]
        /\ InsertingFirst' = InsertingFirst /\ Choosing' = Choosing
    BY <1>5 DEF ClearLocks, TypeOK, CallRecords, InsertingFirst, Choosing
  <2>2. \A j \in Choosing' : call[j].seen \cap default' \cap live' \subseteq call'[j].seen
    BY <2>1 DEF Choosing
  <2> QED BY <2>1, <2>2, NoMoreDefaults
<1>6. ASSUME NEW k \in Calls, NEW s \in {"idle", "clear", "guard", "remove", "link"}, NEW c,
             default' \cap live' \subseteq default \cap live, call' = [call EXCEPT ![k] = At(s, c)]
      PROVE  DefaultsInv'
  <2>1. call'[k].step = s /\ \A j \in Calls \ {k} : call'[j] = call[j]
    BY <1>6 DEF TypeOK
  <2>2. InsertingFirst' \subseteq InsertingFirst /\ Choosing' \subseteq Choosing
    BY <2>1 DEF InsertingFirst, Choosing
  <2>3. \A j \in Choosing' : call'[j] = call[j]
    BY <2>1 DEF Choosing
  <2> QED BY <1>6, <2>2, <2>3, NoMoreDefaults
<1>7. ASSUME NEW k \in Calls, NEW c \in PaymentMethods, ChooseRead(k, c) \/ RemoveRead(k, c) \/ JoinRead(k, c)
      PROVE  DefaultsInv'
  BY <1>6, <1>7 DEF ChooseRead, RemoveRead, JoinRead
<1>8. ASSUME NEW k \in Calls, RemoveGuard(k) \/ RemoveWrite(k) \/ JoinLink(k) \/ Dies(k) PROVE DefaultsInv'
  BY <1>6, <1>8 DEF RemoveGuard, RemoveWrite, JoinLink, Dies
<1>9. ASSUME NEW c \in PaymentMethods, Unlink(c) PROVE DefaultsInv'
  BY <1>9 DEF Unlink, DefaultsInv, Choosing, InsertingFirst, Seen
<1>10. CASE UNCHANGED vars
  BY <1>10 DEF vars, DefaultsInv, Choosing, InsertingFirst, Seen
<1> QED BY <1>1, <1>2, <1>3, <1>4, <1>5, <1>7, <1>8, <1>9, <1>10 DEF Next

\* A customer has at most as many default cards as calls run at once, for any
\* number of cards and calls: verifyAndAddPaymentMethod counts and inserts in
\* two statements, setDefaultPaymentMethod clears only what it saw.
THEOREM DefaultsAreFew == Spec => []DefaultsBounded
<1>1. DefaultsInv => DefaultsBounded
  <2> SUFFICES ASSUME DefaultsInv PROVE DefaultsBounded
    OBVIOUS
  <2>1. Seen({}) = {} /\ {} \in SUBSET Choosing
    BY DEF Seen
  <2>2. Cardinality((default \cap live) \ {}) + Cardinality(InsertingFirst) + Cardinality({}) <= Cardinality(Calls)
    BY <2>1 DEF DefaultsInv
  <2>3. (default \cap live) \ {} = default \cap live
    OBVIOUS
  <2>4. /\ Cardinality((default \cap live) \ {}) \in Nat /\ Cardinality(InsertingFirst) \in Nat
        /\ Cardinality({}) = 0 /\ Cardinality(Calls) \in Nat
    BY <2>1, Counted, FS_EmptySet DEF DefaultsInv
  <2> QED BY <2>2, <2>3, <2>4 DEF DefaultsBounded
<1> QED BY <1>1, Typing, InitDefaults, NextDefaults, PTL DEF Spec
=============================================================================
