------------------------- MODULE CircleFees_proofs --------------------------
(***************************************************************************)
(* Proofs about CircleFees: the rounding of fee and net amount, the        *)
(* inductive invariant IInv and the properties it gives, for any number of *)
(* policies, circles, members and calls, and any percentages and amounts.  *)
(***************************************************************************)
EXTENDS CircleFees, TLAPS

-----------------------------------------------------------------------------
(* Rounding *)

LEMMA RoundDivInt ==
    ASSUME NEW x \in Int
    PROVE  RoundDiv(x, 10000) \in Int
  BY DEF RoundDiv

\* Two parts of a whole number of cents, rounded each for itself, make up that
\* number of cents or one more.
LEMMA RoundedParts ==
    ASSUME NEW g \in Nat, NEW x \in Int, NEW y \in Int, x + y = g * 10000
    PROVE  /\ g <= RoundDiv(x, 10000) + RoundDiv(y, 10000)
           /\ RoundDiv(x, 10000) + RoundDiv(y, 10000) <= g + 1
  BY SMTT(60) DEF RoundDiv

LEMMA FeeAndNet ==
    ASSUME NEW g \in Nat, NEW percent \in Int
    PROVE  /\ FeeAmount(g, percent) \in Int
           /\ NetAmount(g, percent) \in Int
           /\ g <= FeeAmount(g, percent) + NetAmount(g, percent)
           /\ FeeAmount(g, percent) + NetAmount(g, percent) <= g + 1
<1> DEFINE x == g * percent
           y == g * 10000 - x
<1>1. FeeAmount(g, percent) = RoundDiv(x, 10000) /\ NetAmount(g, percent) = RoundDiv(y, 10000)
  BY DEF FeeAmount, NetAmount
<1>2. x \in Int
  OBVIOUS
<1> HIDE DEF x
<1>3. y \in Int /\ x + y = g * 10000
  BY <1>2
<1> HIDE DEF y
<1>4. RoundDiv(x, 10000) \in Int /\ RoundDiv(y, 10000) \in Int
  BY <1>2, <1>3, RoundDivInt
<1>5. /\ g <= RoundDiv(x, 10000) + RoundDiv(y, 10000)
      /\ RoundDiv(x, 10000) + RoundDiv(y, 10000) <= g + 1
  BY <1>2, <1>3, RoundedParts
<1> QED
  BY <1>1, <1>4, <1>5
-----------------------------------------------------------------------------
(* Calls *)

\* The fields of a call, by its step.
LEMMA CallFields ==
    ASSUME TypeOK, NEW w \in Calls
    PROVE  /\ call[w].step \in {"find", "retire", "activate"} => call[w].policy \in Policies
           /\ call[w].step = "retire" => call[w].old \in Policies
           /\ call[w].step = "activate" => call[w].old \in Policies \cup {NoPolicy}
           /\ call[w].step = "create" => call[w].circle \in Circles /\ call[w].policy \in Policies
           /\ call[w].step = "status" => call[w].circle \in Circles /\ call[w].to \in CircleStatuses
           /\ call[w].step = "override" => call[w].circle \in Circles
           /\ call[w].step = "reserve" => call[w].member \in Members
           /\ call[w].step = "sign" => call[w].member \in Members /\ call[w].amount \in Nat
           /\ call[w].step = "confirm" => call[w].member \in Members
<1>1. call[w] \in CallStates
  BY DEF TypeOK
<1> QED
  BY <1>1 DEF CallStates, Idle

\* The states a call is put into.
LEMMA CallStateTypes ==
    /\ Idle \in CallStates
    /\ \A p \in Policies : [step |-> "find", policy |-> p] \in CallStates
    /\ \A p, q \in Policies : [step |-> "retire", policy |-> p, old |-> q] \in CallStates
    /\ \A p \in Policies, q \in Policies \cup {NoPolicy} :
        [step |-> "activate", policy |-> p, old |-> q] \in CallStates
    /\ \A c \in Circles, p \in Policies : [step |-> "create", circle |-> c, policy |-> p] \in CallStates
    /\ \A c \in Circles, t \in CircleStatuses : [step |-> "status", circle |-> c, to |-> t] \in CallStates
    /\ \A c \in Circles : [step |-> "override", circle |-> c] \in CallStates
    /\ \A m \in Members : [step |-> "reserve", member |-> m] \in CallStates
    /\ \A m \in Members, a \in Nat : [step |-> "sign", member |-> m, amount |-> a] \in CallStates
    /\ \A m \in Members : [step |-> "confirm", member |-> m] \in CallStates
  BY DEF CallStates

LEMMA TransitionTypes == \A t \in CircleStatuses : Transitions(t) \subseteq CircleStatuses \ {"NONE", "DRAFT"}
  BY DEF Transitions, CircleStatuses

\* A member belongs to a circle that has a snapshot, so that there is a rate.
LEMMA RateType ==
    ASSUME IInv, NEW m \in reserved
    PROVE  /\ m \in Members /\ CircleOf[m] \in Circles /\ circle[CircleOf[m]] # "NONE"
           /\ snapshot[CircleOf[m]] \in Policies
           /\ Rate(m) \in Int
<1>1. m \in Members /\ CircleOf[m] \in Circles /\ PositionOf[m] \in Positions
  BY CircleFeesAssumption DEF IInv, TypeOK
<1>2. circle[CircleOf[m]] # "NONE"
  BY <1>1 DEF IInv, MembersAfterDraft
<1>3. snapshot[CircleOf[m]] \in Policies
  BY <1>1, <1>2 DEF IInv, SnapshotWasActive
<1> QED
  BY <1>1, <1>2, <1>3, CircleFeesAssumption DEF Rate

LEMMA NextTypes == IInv /\ [Next]_vars => TypeOK'
<1> SUFFICES ASSUME IInv, [Next]_vars PROVE TypeOK'
  OBVIOUS
<1> USE DEF IInv, TypeOK, Begin, Goto, Return, circles, payouts, books
<1>1. ASSUME NEW p \in Policies, CreateDraft(p) PROVE TypeOK'
  BY <1>1, CircleFeesAssumption, CallFields, CallStateTypes DEF CreateDraft, PolicyStatuses
<1>2. ASSUME NEW w \in Calls, ActivateFind(w) PROVE TypeOK'
  <2>1. call[w].policy \in Policies
    BY <1>2, CallFields DEF ActivateFind
  <2>2. \E x \in CallStates : Goto(w, x)
    BY <1>2, <2>1, CallStateTypes DEF ActivateFind, Active
  <2> QED
    BY <1>2, <2>2 DEF ActivateFind
<1>3. ASSUME NEW w \in Calls, ActivateRetire(w) PROVE TypeOK'
  BY <1>3, CircleFeesAssumption, CallFields, CallStateTypes DEF ActivateRetire
<1>4. ASSUME NEW w \in Calls, ActivateWrite(w) PROVE TypeOK'
  BY <1>4, CircleFeesAssumption, CallFields, CallStateTypes DEF ActivateWrite, PolicyStatuses
<1>5. ASSUME NEW w \in Calls, CreateCircle(w) PROVE TypeOK'
  <2>1. PICK a \in Amounts : amount' = [amount EXCEPT ![call[w].circle] = a]
    BY <1>5 DEF CreateCircle
  <2>2. call[w].circle \in Circles /\ call[w].policy \in Policies /\ a \in Nat
    BY <1>5, CallFields, CircleFeesAssumption DEF CreateCircle
  <2> QED
    BY <1>5, <2>1, <2>2, CallStateTypes DEF CreateCircle, CircleStatuses
<1>6. ASSUME NEW w \in Calls, StatusWrite(w) PROVE TypeOK'
  BY <1>6, CircleFeesAssumption, CallFields, CallStateTypes DEF StatusWrite
<1>7. ASSUME NEW w \in Calls, OverrideWrite(w) PROVE TypeOK'
  BY <1>7, CircleFeesAssumption, CallFields, CallStateTypes DEF OverrideWrite
<1>8. ASSUME NEW w \in Calls, Reserve(w) PROVE TypeOK'
  BY <1>8, CircleFeesAssumption, CallFields, CallStateTypes DEF Reserve
<1>9. ASSUME NEW w \in Calls, Sign(w) PROVE TypeOK'
  <2> DEFINE m == call[w].member
             g == call[w].amount
  <2>1. m \in Members /\ g \in Nat /\ m \in reserved
    BY <1>9, CallFields DEF Sign, MemberCalls
  <2>2. FeeAmount(g, Rate(m)) \in Int /\ NetAmount(g, Rate(m)) \in Int
    BY <2>1, RateType, FeeAndNet
  <2> QED
    BY <1>9, <2>1, <2>2, CallStateTypes DEF Sign, PayoutStatuses
<1>10. ASSUME NEW w \in Calls, Confirm(w) PROVE TypeOK'
  <2> DEFINE m == call[w].member
  <2>0. TypeOK
    OBVIOUS
  <2> HIDE DEF IInv, TypeOK
  <2>1. m \in Members
    BY <1>10, <2>0, CallFields DEF Confirm
  <2>2. /\ gross[m] \in Nat /\ fee[m] \in Int /\ net[m] \in Int
        /\ \A a \in Accounts : ledger[m][a] \in Int
    BY <2>0, <2>1 DEF TypeOK
  <2> DEFINE Sum == [a \in Accounts |-> ledger[m][a] + CASE a = "ESCROW_ACCOUNT" -> gross[m]
                                                        [] a = "PAYOUT_OUTFLOW" -> -net[m]
                                                        [] a = "FEE_REVENUE" -> -fee[m]]
  <2>3. Sum \in [Accounts -> Int]
    BY <2>2 DEF Accounts
  <2>4. /\ ledger' = [ledger EXCEPT ![m] = Sum]
        /\ posted' = [posted EXCEPT ![m] = @ + 1]
        /\ payout' = [payout EXCEPT ![m] = "DISBURSED"]
        /\ call' = [call EXCEPT ![w] = Idle]
        /\ UNCHANGED <<policy, circles, reserved, gross, fee, net>>
    BY <1>10 DEF Confirm, Post
  <2> HIDE DEF Sum, m
  <2>5. ledger' \in [Members -> [Accounts -> Int]] /\ posted' \in [Members -> Nat]
    BY <2>0, <2>1, <2>3, <2>4 DEF TypeOK
  <2>6. payout' \in [Members -> PayoutStatuses] /\ call' \in [Calls -> CallStates]
    BY <1>10, <2>0, <2>1, <2>4, CallStateTypes DEF TypeOK, PayoutStatuses
  <2> QED
    BY <2>0, <2>4, <2>5, <2>6 DEF TypeOK, circles
<1>11. ASSUME NEW w \in Calls, Fail(w) PROVE TypeOK'
  BY <1>11, CircleFeesAssumption, CallFields, CallStateTypes DEF Fail
<1>12. ASSUME NEW w \in Calls, NEW p \in Policies, ActivateRead(w, p) PROVE TypeOK'
  BY <1>12, CircleFeesAssumption, CallFields, CallStateTypes DEF ActivateRead
<1>13. ASSUME NEW w \in Calls, NEW c \in Circles, CreateFind(w, c) PROVE TypeOK'
  BY <1>13, CircleFeesAssumption, CallFields, CallStateTypes DEF CreateFind, Active
<1>14. ASSUME NEW w \in Calls, NEW c \in Circles, StatusRead(w, c) PROVE TypeOK'
  <2>1. PICK t \in Transitions(circle[c]) : Begin(w, [step |-> "status", circle |-> c, to |-> t])
    BY <1>14 DEF StatusRead
  <2>2. t \in CircleStatuses
    BY <2>1, TransitionTypes
  <2> QED
    BY <1>14, <2>1, <2>2, CallStateTypes DEF StatusRead
<1>15. ASSUME NEW w \in Calls, NEW c \in Circles, OverrideRead(w, c) PROVE TypeOK'
  BY <1>15, CircleFeesAssumption, CallFields, CallStateTypes DEF OverrideRead
<1>16. ASSUME NEW w \in Calls, NEW m \in Members, ReserveRead(w, m) PROVE TypeOK'
  BY <1>16, CircleFeesAssumption, CallFields, CallStateTypes DEF ReserveRead
<1>17. ASSUME NEW w \in Calls, NEW m \in Members, SignRead(w, m) PROVE TypeOK'
  BY <1>17, CircleFeesAssumption, CallFields, CallStateTypes DEF SignRead
<1>18. ASSUME NEW w \in Calls, NEW m \in Members, ConfirmRead(w, m) PROVE TypeOK'
  BY <1>18, CircleFeesAssumption, CallFields, CallStateTypes DEF ConfirmRead
<1>19. CASE UNCHANGED vars
  BY <1>19 DEF vars, circles, payouts, books
<1> QED
  BY <1>1, <1>2, <1>3, <1>4, <1>5, <1>6, <1>7, <1>8, <1>9, <1>10, <1>11,
     <1>12, <1>13, <1>14, <1>15, <1>16, <1>17, <1>18, <1>19 DEF Next,
     Continue

LEMMA NextPolicyCalls == IInv /\ [Next]_vars => PolicyCalls'
<1> SUFFICES ASSUME IInv, [Next]_vars PROVE PolicyCalls'
  OBVIOUS
<1>a. /\ TypeOK /\ PolicyCalls
      /\ call \in [Calls -> CallStates] /\ policy \in [Policies -> PolicyStatuses]
  BY DEF IInv, TypeOK
<1> USE <1>a DEF Begin, Goto, Return, circles, payouts, books, PolicyCalls, Activated, Active, Idle
<1>1. ASSUME NEW p \in Policies, CreateDraft(p) PROVE PolicyCalls'
  BY <1>1, CallFields, CircleFeesAssumption DEF CreateDraft
<1>2. ASSUME NEW w \in Calls, ActivateFind(w) PROVE PolicyCalls'
  <2>1. PICK x : /\ call' = [call EXCEPT ![w] = x]
                 /\ x.step = "retire" => x.old \in Active
                 /\ x.step = "activate" => x.old = NoPolicy
                 /\ x.step # "create"
    BY <1>2 DEF ActivateFind
  <2> QED
    BY <1>2, <2>1 DEF ActivateFind
<1>3. ASSUME NEW w \in Calls, ActivateRetire(w) PROVE PolicyCalls'
  BY <1>3, CallFields, CircleFeesAssumption DEF ActivateRetire
<1>4. ASSUME NEW w \in Calls, ActivateWrite(w) PROVE PolicyCalls'
  BY <1>4, CallFields, CircleFeesAssumption DEF ActivateWrite
<1>5. ASSUME NEW w \in Calls, CreateCircle(w) PROVE PolicyCalls'
  BY <1>5, CallFields, CircleFeesAssumption DEF CreateCircle
<1>6. ASSUME NEW w \in Calls, StatusWrite(w) PROVE PolicyCalls'
  BY <1>6, CallFields, CircleFeesAssumption DEF StatusWrite
<1>7. ASSUME NEW w \in Calls, OverrideWrite(w) PROVE PolicyCalls'
  BY <1>7, CallFields, CircleFeesAssumption DEF OverrideWrite
<1>8. ASSUME NEW w \in Calls, Reserve(w) PROVE PolicyCalls'
  BY <1>8, CallFields, CircleFeesAssumption DEF Reserve
<1>9. ASSUME NEW w \in Calls, Sign(w) PROVE PolicyCalls'
  BY <1>9, CallFields, CircleFeesAssumption DEF Sign
<1>10. ASSUME NEW w \in Calls, Confirm(w) PROVE PolicyCalls'
  BY <1>10, CallFields, CircleFeesAssumption DEF Confirm
<1>11. ASSUME NEW w \in Calls, Fail(w) PROVE PolicyCalls'
  BY <1>11, CallFields, CircleFeesAssumption DEF Fail
<1>12. ASSUME NEW w \in Calls, NEW p \in Policies, ActivateRead(w, p) PROVE PolicyCalls'
  BY <1>12, CallFields, CircleFeesAssumption DEF ActivateRead
<1>13. ASSUME NEW w \in Calls, NEW c \in Circles, CreateFind(w, c) PROVE PolicyCalls'
  BY <1>13, CallFields, CircleFeesAssumption DEF CreateFind
<1>14. ASSUME NEW w \in Calls, NEW c \in Circles, StatusRead(w, c) PROVE PolicyCalls'
  BY <1>14, CallFields, CircleFeesAssumption DEF StatusRead
<1>15. ASSUME NEW w \in Calls, NEW c \in Circles, OverrideRead(w, c) PROVE PolicyCalls'
  BY <1>15, CallFields, CircleFeesAssumption DEF OverrideRead
<1>16. ASSUME NEW w \in Calls, NEW m \in Members, ReserveRead(w, m) PROVE PolicyCalls'
  BY <1>16, CallFields, CircleFeesAssumption DEF ReserveRead
<1>17. ASSUME NEW w \in Calls, NEW m \in Members, SignRead(w, m) PROVE PolicyCalls'
  BY <1>17, CallFields, CircleFeesAssumption DEF SignRead
<1>18. ASSUME NEW w \in Calls, NEW m \in Members, ConfirmRead(w, m) PROVE PolicyCalls'
  BY <1>18, CallFields, CircleFeesAssumption DEF ConfirmRead
<1>19. CASE UNCHANGED vars
  BY <1>19 DEF vars, circles, payouts, books
<1> QED
  BY <1>1, <1>2, <1>3, <1>4, <1>5, <1>6, <1>7, <1>8, <1>9, <1>10, <1>11,
     <1>12, <1>13, <1>14, <1>15, <1>16, <1>17, <1>18, <1>19 DEF Next,
     Continue

LEMMA NextCircleCalls == IInv /\ [Next]_vars => CircleCalls'
<1> SUFFICES ASSUME IInv, [Next]_vars PROVE CircleCalls'
  OBVIOUS
<1>a. /\ TypeOK /\ CircleCalls /\ MembersAfterDraft
      /\ call \in [Calls -> CallStates] /\ circle \in [Circles -> CircleStatuses]
  BY DEF IInv, TypeOK
<1> USE <1>a DEF Begin, Goto, Return, circles, payouts, books, CircleCalls, Idle
<1>0. ASSUME NEW w \in Calls, NEW x, call' = [call EXCEPT ![w] = x],
             x.step \notin {"create", "status", "reserve"}, UNCHANGED circle
      PROVE  CircleCalls'
  BY <1>0
<1>1. ASSUME NEW p \in Policies, CreateDraft(p) PROVE CircleCalls'
  BY <1>1, CallFields, TransitionTypes DEF CreateDraft
<1>2. ASSUME NEW w \in Calls, ActivateFind(w) PROVE CircleCalls'
  <2>1. PICK x : call' = [call EXCEPT ![w] = x] /\ x.step \in {"activate", "retire"}
    BY <1>2 DEF ActivateFind
  <2> QED
    BY <1>2, <2>1 DEF ActivateFind
<1>3. ASSUME NEW w \in Calls, ActivateRetire(w) PROVE CircleCalls'
  <2>1. call' = [call EXCEPT ![w] = [step |-> "activate", policy |-> call[w].policy, old |-> call[w].old]] /\ UNCHANGED circle
    BY <1>3 DEF ActivateRetire
  <2> QED
    BY <1>0, <1>3, <2>1
<1>4. ASSUME NEW w \in Calls, ActivateWrite(w) PROVE CircleCalls'
  <2>1. call' = [call EXCEPT ![w] = Idle] /\ UNCHANGED circle
    BY <1>4 DEF ActivateWrite
  <2> QED
    BY <1>0, <1>4, <2>1
<1>5. ASSUME NEW w \in Calls, CreateCircle(w) PROVE CircleCalls'
  BY <1>5, CallFields, TransitionTypes DEF CreateCircle
<1>6. ASSUME NEW w \in Calls, StatusWrite(w) PROVE CircleCalls'
  BY <1>6, CallFields, TransitionTypes DEF StatusWrite
<1>7. ASSUME NEW w \in Calls, OverrideWrite(w) PROVE CircleCalls'
  <2>1. call' = [call EXCEPT ![w] = Idle] /\ UNCHANGED circle
    BY <1>7 DEF OverrideWrite
  <2> QED
    BY <1>0, <1>7, <2>1
<1>8. ASSUME NEW w \in Calls, Reserve(w) PROVE CircleCalls'
  <2>1. call' = [call EXCEPT ![w] = Idle] /\ UNCHANGED circle
    BY <1>8 DEF Reserve
  <2> QED
    BY <1>0, <1>8, <2>1
<1>9. ASSUME NEW w \in Calls, Sign(w) PROVE CircleCalls'
  <2>1. call' = [call EXCEPT ![w] = Idle] /\ UNCHANGED circle
    BY <1>9 DEF Sign
  <2> QED
    BY <1>0, <1>9, <2>1
<1>10. ASSUME NEW w \in Calls, Confirm(w) PROVE CircleCalls'
  <2>1. call' = [call EXCEPT ![w] = Idle] /\ UNCHANGED circle
    BY <1>10 DEF Confirm
  <2> QED
    BY <1>0, <1>10, <2>1
<1>11. ASSUME NEW w \in Calls, Fail(w) PROVE CircleCalls'
  <2>1. call' = [call EXCEPT ![w] = Idle] /\ UNCHANGED circle
    BY <1>11 DEF Fail
  <2> QED
    BY <1>0, <1>11, <2>1
<1>12. ASSUME NEW w \in Calls, NEW p \in Policies, ActivateRead(w, p) PROVE CircleCalls'
  <2>1. call' = [call EXCEPT ![w] = [step |-> "find", policy |-> p]] /\ UNCHANGED circle
    BY <1>12 DEF ActivateRead
  <2> QED
    BY <1>0, <1>12, <2>1
<1>13. ASSUME NEW w \in Calls, NEW c \in Circles, CreateFind(w, c) PROVE CircleCalls'
  BY <1>13, CallFields, TransitionTypes DEF CreateFind
<1>14. ASSUME NEW w \in Calls, NEW c \in Circles, StatusRead(w, c) PROVE CircleCalls'
  <2>1. PICK t \in Transitions(circle[c]) : Begin(w, [step |-> "status", circle |-> c, to |-> t])
    BY <1>14 DEF StatusRead
  <2>2. t \notin {"NONE", "DRAFT"} /\ circle[c] # "NONE"
    BY <2>1, TransitionTypes DEF Transitions
  <2> QED
    BY <1>14, <2>1, <2>2 DEF StatusRead
<1>15. ASSUME NEW w \in Calls, NEW c \in Circles, OverrideRead(w, c) PROVE CircleCalls'
  <2>1. call' = [call EXCEPT ![w] = [step |-> "override", circle |-> c]] /\ UNCHANGED circle
    BY <1>15 DEF OverrideRead
  <2> QED
    BY <1>0, <1>15, <2>1
<1>16. ASSUME NEW w \in Calls, NEW m \in Members, ReserveRead(w, m) PROVE CircleCalls'
  BY <1>16, CallFields, TransitionTypes DEF ReserveRead
<1>17. ASSUME NEW w \in Calls, NEW m \in Members, SignRead(w, m) PROVE CircleCalls'
  <2>1. call' = [call EXCEPT ![w] = [step |-> "sign", member |-> m, amount |-> amount[CircleOf[m]]]] /\ UNCHANGED circle
    BY <1>17 DEF SignRead
  <2> QED
    BY <1>0, <1>17, <2>1
<1>18. ASSUME NEW w \in Calls, NEW m \in Members, ConfirmRead(w, m) PROVE CircleCalls'
  <2>1. call' = [call EXCEPT ![w] = [step |-> "confirm", member |-> m]] /\ UNCHANGED circle
    BY <1>18 DEF ConfirmRead
  <2> QED
    BY <1>0, <1>18, <2>1
<1>19. CASE UNCHANGED vars
  BY <1>19 DEF vars, circles, payouts, books
<1> QED
  BY <1>1, <1>2, <1>3, <1>4, <1>5, <1>6, <1>7, <1>8, <1>9, <1>10, <1>11,
     <1>12, <1>13, <1>14, <1>15, <1>16, <1>17, <1>18, <1>19 DEF Next,
     Continue

LEMMA NextMemberCalls == IInv /\ [Next]_vars => MemberCalls'
<1> SUFFICES ASSUME IInv, [Next]_vars PROVE MemberCalls'
  OBVIOUS
<1>a. /\ TypeOK /\ MemberCalls
      /\ call \in [Calls -> CallStates] /\ payout \in [Members -> PayoutStatuses]
  BY DEF IInv, TypeOK
<1> USE <1>a DEF Begin, Goto, Return, circles, payouts, books, MemberCalls, Idle
<1>1. ASSUME NEW p \in Policies, CreateDraft(p) PROVE MemberCalls'
  BY <1>1, CallFields DEF CreateDraft
<1>2. ASSUME NEW w \in Calls, ActivateFind(w) PROVE MemberCalls'
  <2>1. PICK x : call' = [call EXCEPT ![w] = x] /\ x.step \in {"activate", "retire"}
    BY <1>2 DEF ActivateFind
  <2> QED
    BY <1>2, <2>1 DEF ActivateFind
<1>3. ASSUME NEW w \in Calls, ActivateRetire(w) PROVE MemberCalls'
  BY <1>3, CallFields DEF ActivateRetire
<1>4. ASSUME NEW w \in Calls, ActivateWrite(w) PROVE MemberCalls'
  BY <1>4, CallFields DEF ActivateWrite
<1>5. ASSUME NEW w \in Calls, CreateCircle(w) PROVE MemberCalls'
  BY <1>5, CallFields DEF CreateCircle
<1>6. ASSUME NEW w \in Calls, StatusWrite(w) PROVE MemberCalls'
  BY <1>6, CallFields DEF StatusWrite
<1>7. ASSUME NEW w \in Calls, OverrideWrite(w) PROVE MemberCalls'
  BY <1>7, CallFields DEF OverrideWrite
<1>8. ASSUME NEW w \in Calls, Reserve(w) PROVE MemberCalls'
  BY <1>8, CallFields DEF Reserve
<1>9. ASSUME NEW w \in Calls, Sign(w) PROVE MemberCalls'
  BY <1>9, CallFields DEF Sign
<1>10. ASSUME NEW w \in Calls, Confirm(w) PROVE MemberCalls'
  BY <1>10, CallFields DEF Confirm
<1>11. ASSUME NEW w \in Calls, Fail(w) PROVE MemberCalls'
  BY <1>11, CallFields DEF Fail
<1>12. ASSUME NEW w \in Calls, NEW p \in Policies, ActivateRead(w, p) PROVE MemberCalls'
  BY <1>12, CallFields DEF ActivateRead
<1>13. ASSUME NEW w \in Calls, NEW c \in Circles, CreateFind(w, c) PROVE MemberCalls'
  BY <1>13, CallFields DEF CreateFind
<1>14. ASSUME NEW w \in Calls, NEW c \in Circles, StatusRead(w, c) PROVE MemberCalls'
  BY <1>14, CallFields DEF StatusRead
<1>15. ASSUME NEW w \in Calls, NEW c \in Circles, OverrideRead(w, c) PROVE MemberCalls'
  BY <1>15, CallFields DEF OverrideRead
<1>16. ASSUME NEW w \in Calls, NEW m \in Members, ReserveRead(w, m) PROVE MemberCalls'
  BY <1>16, CallFields DEF ReserveRead
<1>17. ASSUME NEW w \in Calls, NEW m \in Members, SignRead(w, m) PROVE MemberCalls'
  BY <1>17, CallFields DEF SignRead
<1>18. ASSUME NEW w \in Calls, NEW m \in Members, ConfirmRead(w, m) PROVE MemberCalls'
  BY <1>18, CallFields DEF ConfirmRead
<1>19. CASE UNCHANGED vars
  BY <1>19 DEF vars, circles, payouts, books
<1> QED
  BY <1>1, <1>2, <1>3, <1>4, <1>5, <1>6, <1>7, <1>8, <1>9, <1>10, <1>11,
     <1>12, <1>13, <1>14, <1>15, <1>16, <1>17, <1>18, <1>19 DEF Next,
     Continue

-----------------------------------------------------------------------------
(* Which actions write which variable *)

LEMMA Writers ==
    ASSUME [Next]_vars
    PROVE  /\ \/ UNCHANGED policy
              \/ \E p \in Policies : CreateDraft(p)
              \/ \E w \in Calls : ActivateWrite(w)
           /\ UNCHANGED snapshot \/ \E w \in Calls : CreateCircle(w)
           /\ UNCHANGED circle \/ \E w \in Calls : CreateCircle(w) \/ StatusWrite(w)
           /\ UNCHANGED reserved \/ \E w \in Calls : Reserve(w)
           /\ UNCHANGED payouts \/ \E w \in Calls : Sign(w) \/ Confirm(w)
           /\ UNCHANGED books \/ \E w \in Calls : Confirm(w)
<1> USE DEF circles, payouts, books
<1>1. CASE \E p \in Policies : CreateDraft(p)
  BY <1>1 DEF CreateDraft
<1>2. CASE \E w \in Calls : ActivateFind(w)
  BY <1>2 DEF ActivateFind
<1>3. CASE \E w \in Calls : ActivateRetire(w)
  BY <1>3 DEF ActivateRetire
<1>4. CASE \E w \in Calls : ActivateWrite(w)
  BY <1>4 DEF ActivateWrite
<1>5. CASE \E w \in Calls : CreateCircle(w)
  BY <1>5 DEF CreateCircle
<1>6. CASE \E w \in Calls : StatusWrite(w)
  BY <1>6 DEF StatusWrite
<1>7. CASE \E w \in Calls : OverrideWrite(w)
  BY <1>7 DEF OverrideWrite
<1>8. CASE \E w \in Calls : Reserve(w)
  BY <1>8 DEF Reserve
<1>9. CASE \E w \in Calls : Sign(w)
  BY <1>9 DEF Sign
<1>10. CASE \E w \in Calls : Confirm(w)
  BY <1>10 DEF Confirm
<1>11. CASE \E w \in Calls : Fail(w)
  BY <1>11 DEF Fail
<1>12. CASE \E w \in Calls, p \in Policies : ActivateRead(w, p)
  BY <1>12 DEF ActivateRead
<1>13. CASE \E w \in Calls, c \in Circles : CreateFind(w, c)
  BY <1>13 DEF CreateFind
<1>14. CASE \E w \in Calls, c \in Circles : StatusRead(w, c)
  BY <1>14 DEF StatusRead
<1>15. CASE \E w \in Calls, c \in Circles : OverrideRead(w, c)
  BY <1>15 DEF OverrideRead
<1>16. CASE \E w \in Calls, m \in Members : ReserveRead(w, m)
  BY <1>16 DEF ReserveRead
<1>17. CASE \E w \in Calls, m \in Members : SignRead(w, m)
  BY <1>17 DEF SignRead
<1>18. CASE \E w \in Calls, m \in Members : ConfirmRead(w, m)
  BY <1>18 DEF ConfirmRead
<1>19. CASE UNCHANGED vars
  BY <1>19 DEF vars
<1> QED
  BY <1>1, <1>2, <1>3, <1>4, <1>5, <1>6, <1>7, <1>8, <1>9, <1>10, <1>11,
     <1>12, <1>13, <1>14, <1>15, <1>16, <1>17, <1>18, <1>19 DEF Next,
     Continue

LEMMA NextPolicyRemains == IInv /\ [Next]_vars => PolicyRemains'
<1> SUFFICES ASSUME IInv, [Next]_vars PROVE PolicyRemains'
  OBVIOUS
<1>a. TypeOK /\ PolicyRemains
  BY DEF IInv
<1> USE <1>a DEF TypeOK, PolicyRemains, Active
<1>1. ASSUME NEW p \in Policies, CreateDraft(p) PROVE PolicyRemains'
  BY <1>1 DEF CreateDraft
<1>2. ASSUME NEW w \in Calls, ActivateWrite(w) PROVE PolicyRemains'
  BY <1>2, CallFields DEF ActivateWrite
<1>3. CASE UNCHANGED <<policy>>
  BY <1>3
<1> QED
  BY Writers, <1>1, <1>2, <1>3 DEF payouts, books

LEMMA NextSnapshot == IInv /\ [Next]_vars => SnapshotWasActive'
<1> SUFFICES ASSUME IInv, [Next]_vars PROVE SnapshotWasActive'
  OBVIOUS
<1>a. TypeOK /\ SnapshotWasActive /\ PolicyCalls /\ CircleCalls
  BY DEF IInv
<1> USE <1>a DEF TypeOK, SnapshotWasActive
<1>1. ASSUME NEW p \in Policies, CreateDraft(p) PROVE SnapshotWasActive'
  BY <1>1 DEF CreateDraft, circles
<1>2. ASSUME NEW w \in Calls, ActivateWrite(w) PROVE SnapshotWasActive'
  BY <1>2, CallFields DEF ActivateWrite, circles
<1>3. ASSUME NEW w \in Calls, CreateCircle(w) PROVE SnapshotWasActive'
  BY <1>3, CallFields DEF CreateCircle, PolicyCalls, Activated
<1>4. ASSUME NEW w \in Calls, StatusWrite(w) PROVE SnapshotWasActive'
  BY <1>4, CallFields DEF StatusWrite, CircleCalls
<1>5. CASE UNCHANGED <<policy, circle, snapshot>>
  BY <1>5
<1> QED
  BY Writers, <1>1, <1>2, <1>3, <1>4, <1>5 DEF payouts, books

LEMMA NextMembersAfterDraft == IInv /\ [Next]_vars => MembersAfterDraft'
<1> SUFFICES ASSUME IInv, [Next]_vars PROVE MembersAfterDraft'
  OBVIOUS
<1>a. TypeOK /\ MembersAfterDraft /\ CircleCalls
  BY DEF IInv
<1> USE <1>a DEF TypeOK, MembersAfterDraft
<1>1. ASSUME NEW w \in Calls, Reserve(w) PROVE MembersAfterDraft'
  BY <1>1, CallFields DEF Reserve, CircleCalls, circles
<1>2. ASSUME NEW w \in Calls, CreateCircle(w) PROVE MembersAfterDraft'
  BY <1>2, CallFields DEF CreateCircle, CircleCalls
<1>3. ASSUME NEW w \in Calls, StatusWrite(w) PROVE MembersAfterDraft'
  BY <1>3, CallFields DEF StatusWrite, CircleCalls
<1>4. CASE UNCHANGED <<reserved, circle>>
  BY <1>4
<1> QED
  BY Writers, <1>1, <1>2, <1>3, <1>4 DEF payouts, books

LEMMA NextFees == IInv /\ [Next]_vars => FeesAsCreated'
<1> SUFFICES ASSUME IInv, [Next]_vars PROVE FeesAsCreated'
  OBVIOUS
<1>a. TypeOK /\ FeesAsCreated /\ CircleCalls /\ MemberCalls
  BY DEF IInv
<1> USE <1>a DEF TypeOK, FeesAsCreated, Rate, payouts
<1>1. ASSUME NEW w \in Calls, Sign(w) PROVE FeesAsCreated'
  <2> DEFINE n == call[w].member
             g == call[w].amount
  <2>1. n \in Members
    BY <1>1, CallFields DEF Sign
  <2>2. UNCHANGED snapshot
    BY <1>1 DEF Sign, circles
  <2>3. /\ payout' = [payout EXCEPT ![n] = "SCHEDULED"]
        /\ gross' = [gross EXCEPT ![n] = g]
        /\ fee' = [fee EXCEPT ![n] = FeeAmount(g, Rate(n))]
        /\ net' = [net EXCEPT ![n] = NetAmount(g, Rate(n))]
    BY <1>1 DEF Sign
  <2>4. \A m \in Members : Rate(m)' = Rate(m)
    BY <2>2
  <2> HIDE DEF n, g, Rate
  <2> QED
    BY <2>1, <2>3, <2>4
<1>2. ASSUME NEW w \in Calls, Confirm(w) PROVE FeesAsCreated'
  <2> DEFINE n == call[w].member
  <2>1. n \in Members /\ payout[n] # "NONE"
    BY <1>2, CallFields DEF Confirm, MemberCalls
  <2>2. UNCHANGED <<gross, fee, net, snapshot>> /\ payout' = [payout EXCEPT ![n] = "DISBURSED"]
    BY <1>2 DEF Confirm, circles
  <2> HIDE DEF n
  <2> QED
    BY <2>1, <2>2
<1>3. ASSUME NEW w \in Calls, CreateCircle(w) PROVE FeesAsCreated'
  <2> DEFINE c == call[w].circle
  <2>1. circle[c] = "NONE" /\ UNCHANGED payouts
    BY <1>3 DEF CreateCircle, CircleCalls
  <2>2. \A m \in Members : payout[m] # "NONE" => m \in reserved /\ CircleOf[m] # c
    BY <2>1, RateType DEF MemberCalls
  <2>3. \A m \in Members : payout[m] # "NONE" => snapshot'[CircleOf[m]] = snapshot[CircleOf[m]]
    BY <1>3, <2>2, RateType DEF CreateCircle
  <2> HIDE DEF c
  <2> QED
    BY <2>1, <2>3
<1>4. CASE UNCHANGED <<payouts, snapshot>>
  BY <1>4
<1> QED
  BY Writers, <1>1, <1>2, <1>3, <1>4 DEF payouts, books

LEMMA NextPosted == IInv /\ [Next]_vars => DisbursedIsPosted'
<1> SUFFICES ASSUME IInv, [Next]_vars PROVE DisbursedIsPosted'
  OBVIOUS
<1>a. TypeOK /\ DisbursedIsPosted
  BY DEF IInv
<1> USE <1>a DEF TypeOK, DisbursedIsPosted, payouts, books
<1>1. ASSUME NEW w \in Calls, Sign(w) PROVE DisbursedIsPosted'
  BY <1>1, CallFields DEF Sign, books
<1>2. ASSUME NEW w \in Calls, Confirm(w) PROVE DisbursedIsPosted'
  BY <1>2, CallFields DEF Confirm, Post
<1>3. CASE UNCHANGED <<payouts, books>>
  BY <1>3
<1> QED
  BY Writers, <1>1, <1>2, <1>3 DEF payouts, books

LEMMA NextBalance == IInv /\ [Next]_vars => EntriesBalanceToACent'
<1> SUFFICES ASSUME IInv, [Next]_vars PROVE EntriesBalanceToACent'
  OBVIOUS
<1>a. TypeOK /\ EntriesBalanceToACent /\ FeesAsCreated /\ MemberCalls
  BY DEF IInv
<1> USE <1>a DEF TypeOK, EntriesBalanceToACent, Balance, books
<1>1. ASSUME NEW w \in Calls, Confirm(w) PROVE EntriesBalanceToACent'
  <2>0. PICK m \in Members : m = call[w].member
    BY <1>1, CallFields DEF Confirm
  <2>1. payout[m] # "NONE"
    BY <1>1, <2>0 DEF Confirm, MemberCalls
  <2>2. m \in reserved /\ Rate(m) \in Int
    BY <2>1, RateType DEF MemberCalls
  <2>3. gross[m] <= fee[m] + net[m] /\ fee[m] + net[m] <= gross[m] + 1
    BY <2>1, <2>2, FeeAndNet DEF FeesAsCreated
  <2>4. /\ gross[m] \in Nat /\ fee[m] \in Int /\ net[m] \in Int /\ posted[m] \in Nat
        /\ \A a \in Accounts : ledger[m][a] \in Int
    BY <2>1
  <2>5. /\ ledger'[m]["ESCROW_ACCOUNT"] = ledger[m]["ESCROW_ACCOUNT"] + gross[m]
        /\ ledger'[m]["PAYOUT_OUTFLOW"] = ledger[m]["PAYOUT_OUTFLOW"] - net[m]
        /\ ledger'[m]["FEE_REVENUE"] = ledger[m]["FEE_REVENUE"] - fee[m]
        /\ posted'[m] = posted[m] + 1
    BY <1>1, <2>0, <2>4 DEF Confirm, Post, Accounts
  <2>6. -posted'[m] <= Balance(m)' /\ Balance(m)' <= 0
    BY <2>1, <2>3, <2>4, <2>5 DEF Accounts
  <2>7. \A n \in Members \ {m} : ledger'[n] = ledger[n] /\ posted'[n] = posted[n]
    BY <1>1, <2>0 DEF Confirm, Post
  <2> QED
    BY <2>6, <2>7
<1>2. CASE UNCHANGED <<books>>
  BY <1>2
<1> QED
  BY Writers, <1>1, <1>2 DEF payouts, books

-----------------------------------------------------------------------------
(* Theorems *)

LEMMA InitIInv == Init => IInv
<1> SUFFICES ASSUME Init PROVE IInv
  OBVIOUS
<1> USE DEF Init
<1>1. TypeOK
  BY DEF TypeOK, PolicyStatuses, CircleStatuses, PayoutStatuses, CallStates
<1>2. PolicyCalls /\ CircleCalls /\ MemberCalls
  BY DEF PolicyCalls, CircleCalls, MemberCalls, Idle
<1>3. PolicyRemains /\ SnapshotWasActive /\ MembersAfterDraft
  BY DEF PolicyRemains, SnapshotWasActive, MembersAfterDraft
<1>4. FeesAsCreated /\ DisbursedIsPosted
  BY DEF FeesAsCreated, DisbursedIsPosted
<1>5. EntriesBalanceToACent
  BY DEF EntriesBalanceToACent, Balance, Accounts
<1> QED
  BY <1>1, <1>2, <1>3, <1>4, <1>5 DEF IInv

\* What calls in progress have read stays true until they write, and the
\* properties of CircleFees with it.
THEOREM Invariance == Spec => []IInv
<1>1. IInv /\ [Next]_vars => IInv'
  BY NextTypes, NextPolicyCalls, NextCircleCalls, NextMemberCalls, NextPolicyRemains,
     NextSnapshot, NextMembersAfterDraft, NextFees, NextPosted, NextBalance DEF IInv
<1> QED
  BY InitIInv, <1>1, PTL DEF Spec

\* Every variable has its type.
THEOREM TypeCorrect == Spec => []TypeOK
  BY Invariance, PTL DEF IInv

\* A duration that ever had an active policy has one.
THEOREM PolicyAlwaysThere == Spec => []PolicyRemains
  BY Invariance, PTL DEF IInv

\* The snapshot of a circle is that of a policy that was activated.
THEOREM SnapshotOfActivePolicy == Spec => []SnapshotWasActive
  BY Invariance, PTL DEF IInv

\* A circle with members is never a draft again.
THEOREM NoMemberOfDraft == Spec => []MembersAfterDraft
  BY Invariance, PTL DEF IInv

\* Fee and net amount of a payout follow from its own gross amount and the rate
\* its circle was created with.
THEOREM FeesFollowSnapshot == Spec => []FeesAsCreated
  BY Invariance, PTL DEF IInv

\* A payout is marked as disbursed exactly when the ledger has its entries.
THEOREM PostedWithStatus == Spec => []DisbursedIsPosted
  BY Invariance, PTL DEF IInv

\* Of a payout, the credits exceed the debit by at most one cent a posting,
\* for any percentage, negative ones and those above a hundred included.
THEOREM BalanceToACent == Spec => []EntriesBalanceToACent
  BY Invariance, PTL DEF IInv

-----------------------------------------------------------------------------
(* CircleFees implements PayoutPlan *)

\* What the refinement needs beside IInv: a circle that is not there yet has no
\* snapshot, and every gross amount is one its circle had.
PlanInv ==
    /\ \A c \in Circles : circle[c] = "NONE" => snapshot[c] = NoPolicy
    /\ \A c \in Circles : circle[c] # "NONE" => amount[c] \in Amounts
    /\ \A w \in Calls : call[w].step = "sign" => call[w].amount \in Amounts

LEMMA InitPlan == Init => PlanInv /\ Plan!Init
<1> SUFFICES ASSUME Init PROVE PlanInv /\ Plan!Init
  OBVIOUS
<1>1. PlanInv
  BY DEF Init, PlanInv, Idle
<1>2. Promised = {} /\ Disbursed = {}
  BY DEF Init, Promised, Disbursed
<1> QED
  BY <1>1, <1>2 DEF Init, Plan!Init, Accounts, Plan!Accounts

\* A call that goes on to sign has read the amount of its circle just now.
LEMMA SignersRead ==
    ASSUME IInv, [Next]_vars, NEW w \in Calls, call'[w].step = "sign"
    PROVE  \/ call'[w] = call[w]
           \/ \E m \in reserved : call'[w].amount = amount[CircleOf[m]]
<1> DEFINE Goal == \/ call'[w] = call[w]
                   \/ \E m \in reserved : call'[w].amount = amount[CircleOf[m]]
<1>0. call \in [Calls -> CallStates]
  BY DEF IInv, TypeOK
<1> USE DEF Begin, Goto, Return, Idle
<1>1. ASSUME NEW v \in Calls, NEW x, call' = [call EXCEPT ![v] = x], x.step # "sign" PROVE Goal
  BY <1>0, <1>1
<1>2. ASSUME NEW p \in Policies, CreateDraft(p) PROVE Goal
  BY <1>2 DEF CreateDraft
<1>3. ASSUME NEW v \in Calls, ActivateFind(v) PROVE Goal
  BY <1>1, <1>3 DEF ActivateFind
<1>4. ASSUME NEW v \in Calls, ActivateRetire(v) PROVE Goal
  BY <1>1, <1>4 DEF ActivateRetire
<1>5. ASSUME NEW v \in Calls,
             ActivateWrite(v) \/ CreateCircle(v) \/ StatusWrite(v) \/ OverrideWrite(v)
      PROVE  Goal
  <2>1. call' = [call EXCEPT ![v] = Idle]
    BY <1>5 DEF ActivateWrite, CreateCircle, StatusWrite, OverrideWrite
  <2> QED
    BY <1>1, <1>5, <2>1
<1>6. ASSUME NEW v \in Calls, Reserve(v) \/ Sign(v) \/ Confirm(v) \/ Fail(v) PROVE Goal
  <2>1. call' = [call EXCEPT ![v] = Idle]
    BY <1>6 DEF Reserve, Sign, Confirm, Fail
  <2> QED
    BY <1>1, <1>6, <2>1
<1>7. ASSUME NEW v \in Calls, NEW p \in Policies, ActivateRead(v, p) PROVE Goal
  BY <1>1, <1>7 DEF ActivateRead
<1>8. ASSUME NEW v \in Calls, NEW c \in Circles, CreateFind(v, c) PROVE Goal
  BY <1>1, <1>8 DEF CreateFind
<1>9. ASSUME NEW v \in Calls, NEW c \in Circles, StatusRead(v, c) PROVE Goal
  BY <1>1, <1>9 DEF StatusRead
<1>10. ASSUME NEW v \in Calls, NEW c \in Circles, OverrideRead(v, c) PROVE Goal
  BY <1>1, <1>10 DEF OverrideRead
<1>11. ASSUME NEW v \in Calls, NEW m \in Members, ReserveRead(v, m) PROVE Goal
  BY <1>1, <1>11 DEF ReserveRead
<1>12. ASSUME NEW v \in Calls, NEW m \in Members, ConfirmRead(v, m) PROVE Goal
  BY <1>1, <1>12 DEF ConfirmRead
<1>13. ASSUME NEW v \in Calls, NEW m \in Members, SignRead(v, m) PROVE Goal
  <2>1. CASE v = w
    BY <1>0, <1>13, <2>1 DEF SignRead
  <2>2. CASE v # w
    BY <1>0, <1>13, <2>2 DEF SignRead
  <2> QED
    BY <2>1, <2>2
<1>14. ASSUME UNCHANGED vars PROVE Goal
  BY <1>14 DEF vars
<1> HIDE DEF Goal
<1>15. Goal
  BY <1>2, <1>3, <1>4, <1>5, <1>6, <1>7, <1>8, <1>9, <1>10, <1>11, <1>12, <1>13, <1>14
     DEF Next, Continue
<1> QED
  BY <1>15 DEF Goal

\* amount is written where a circle is created, and by an override.
LEMMA AmountWriters ==
    ASSUME [Next]_vars
    PROVE  UNCHANGED amount \/ \E w \in Calls : CreateCircle(w) \/ OverrideWrite(w)
<1> DEFINE Goal == UNCHANGED amount \/ \E w \in Calls : CreateCircle(w) \/ OverrideWrite(w)
<1> USE DEF circles
<1>1. ASSUME NEW w \in Calls, Continue(w) PROVE Goal
  <2>1. CASE ActivateFind(w) \/ ActivateRetire(w) \/ ActivateWrite(w) \/ StatusWrite(w)
    BY <2>1 DEF ActivateFind, ActivateRetire, ActivateWrite, StatusWrite
  <2>2. CASE Reserve(w) \/ Sign(w) \/ Confirm(w) \/ Fail(w)
    BY <2>2 DEF Reserve, Sign, Confirm, Fail
  <2> QED
    BY <1>1, <2>1, <2>2 DEF Continue
<1>2. ASSUME NEW w \in Calls, NEW p \in Policies, ActivateRead(w, p) PROVE Goal
  BY <1>2 DEF ActivateRead
<1>3. ASSUME NEW w \in Calls, NEW c \in Circles, CreateFind(w, c) \/ StatusRead(w, c) \/ OverrideRead(w, c)
      PROVE  Goal
  BY <1>3 DEF CreateFind, StatusRead, OverrideRead
<1>4. ASSUME NEW w \in Calls, NEW m \in Members, ReserveRead(w, m) \/ SignRead(w, m) \/ ConfirmRead(w, m)
      PROVE  Goal
  BY <1>4 DEF ReserveRead, SignRead, ConfirmRead
<1>5. ASSUME NEW p \in Policies, CreateDraft(p) PROVE Goal
  BY <1>5 DEF CreateDraft
<1>6. ASSUME UNCHANGED vars PROVE Goal
  BY <1>6 DEF vars
<1> HIDE DEF Goal, circles
<1>7. Goal
  BY <1>1, <1>2, <1>3, <1>4, <1>5, <1>6 DEF Next
<1> QED
  BY <1>7 DEF Goal

LEMMA NextPlanInv == IInv /\ PlanInv /\ [Next]_vars => PlanInv'
<1> SUFFICES ASSUME IInv, PlanInv, [Next]_vars PROVE PlanInv'
  OBVIOUS
<1>0. /\ TypeOK /\ CircleCalls /\ MembersAfterDraft
      /\ circle \in [Circles -> CircleStatuses] /\ amount \in [Circles -> Nat]
      /\ snapshot \in [Circles -> Policies \cup {NoPolicy}]
  BY DEF IInv, TypeOK
<1>1. ASSUME NEW w \in Calls, CreateCircle(w)
      PROVE  \A c \in Circles : /\ circle'[c] = "NONE" => snapshot'[c] = NoPolicy
                                /\ circle'[c] # "NONE" => amount'[c] \in Amounts
  <2>1. PICK a \in Amounts : amount' = [amount EXCEPT ![call[w].circle] = a]
    BY <1>1 DEF CreateCircle
  <2>2. /\ circle' = [circle EXCEPT ![call[w].circle] = "DRAFT"]
        /\ snapshot' = [snapshot EXCEPT ![call[w].circle] = call[w].policy]
    BY <1>1 DEF CreateCircle
  <2> QED
    BY <1>0, <2>1, <2>2 DEF PlanInv
<1>2. ASSUME NEW w \in Calls, StatusWrite(w)
      PROVE  \A c \in Circles : circle[c] = "NONE" <=> circle'[c] = "NONE"
  <2>1. /\ circle' = [circle EXCEPT ![call[w].circle] = call[w].to]
        /\ circle[call[w].circle] # "NONE" /\ call[w].to # "NONE"
    BY <1>0, <1>2 DEF StatusWrite, CircleCalls
  <2> QED
    BY <1>0, <2>1
<1>3. ASSUME NEW w \in Calls, OverrideWrite(w)
      PROVE  \A c \in Circles : amount'[c] \in {amount[c]} \cup Amounts
  <2>1. PICK a \in Amounts : amount' = [amount EXCEPT ![call[w].circle] = a]
    BY <1>3 DEF OverrideWrite
  <2> QED
    BY <1>0, <2>1
<1>4. ASSUME ~ \E w \in Calls : CreateCircle(w)
      PROVE  \A c \in Circles : /\ circle'[c] = "NONE" <=> circle[c] = "NONE"
                                /\ snapshot'[c] = snapshot[c]
                                /\ amount'[c] \in {amount[c]} \cup Amounts
  <2>1. UNCHANGED snapshot
    BY <1>4, Writers
  <2>2. \A c \in Circles : circle'[c] = "NONE" <=> circle[c] = "NONE"
    BY <1>2, <1>4, Writers
  <2>3. \A c \in Circles : amount'[c] \in {amount[c]} \cup Amounts
    BY <1>3, <1>4, AmountWriters
  <2> QED
    BY <2>1, <2>2, <2>3
<1>5. \A c \in Circles : /\ circle'[c] = "NONE" => snapshot'[c] = NoPolicy
                         /\ circle'[c] # "NONE" => amount'[c] \in Amounts
  <2>1. CASE \E w \in Calls : CreateCircle(w)
    BY <1>1, <2>1
  <2>2. CASE ~ \E w \in Calls : CreateCircle(w)
    BY <1>4, <2>2 DEF PlanInv
  <2> QED
    BY <2>1, <2>2
<1>6. ASSUME NEW w \in Calls, call'[w].step = "sign" PROVE call'[w].amount \in Amounts
  <2>1. CASE call'[w] = call[w]
    BY <1>6, <2>1 DEF PlanInv
  <2>2. ASSUME NEW m \in reserved, call'[w].amount = amount[CircleOf[m]]
        PROVE  call'[w].amount \in Amounts
    BY <2>2, RateType DEF PlanInv
  <2> QED
    BY <1>6, <2>1, <2>2, SignersRead
<1> QED
  BY <1>5, <1>6 DEF PlanInv

\* The three steps of the plan: a circle is created, a contract signed, a
\* payout confirmed.
LEMMA CreateChooses ==
    ASSUME IInv, PlanInv, NEW w \in Calls, CreateCircle(w)
    PROVE  Plan!Next
<1> DEFINE c == call[w].circle
           p == call[w].policy
<1>1. c \in Circles /\ p \in Policies /\ circle[c] = "NONE"
  BY CallFields DEF IInv, CreateCircle, CircleCalls
<1>2. snapshot[c] = NoPolicy
  BY <1>1 DEF PlanInv
<1>3. snapshot' = [snapshot EXCEPT ![c] = p]
  BY DEF CreateCircle
<1>4. UNCHANGED <<Promised, gross, fee, net, Disbursed, ledger>>
  BY DEF CreateCircle, payouts, books, Promised, Disbursed
<1> HIDE DEF c, p
<1>5. Plan!Choose(c, p)
  BY <1>2, <1>3, <1>4 DEF Plan!Choose
<1> QED
  BY <1>1, <1>5 DEF Plan!Next

LEMMA SignPromises ==
    ASSUME IInv, PlanInv, NEW w \in Calls, Sign(w)
    PROVE  Plan!Next
<1> DEFINE m == call[w].member
           g == call[w].amount
<1>1. m \in Members /\ m \in reserved /\ g \in Amounts
  BY CallFields DEF IInv, Sign, MemberCalls, PlanInv
<1>2. snapshot[CircleOf[m]] \in Policies
  BY <1>1, RateType
<1>3. /\ payout[m] = "NONE" /\ payout' = [payout EXCEPT ![m] = "SCHEDULED"]
      /\ gross' = [gross EXCEPT ![m] = g]
      /\ fee' = [fee EXCEPT ![m] = FeeAmount(g, Rate(m))]
      /\ net' = [net EXCEPT ![m] = NetAmount(g, Rate(m))]
  BY DEF Sign
<1>4. UNCHANGED <<snapshot, ledger>>
  BY DEF Sign, circles, books
<1> HIDE DEF m, g
<1>5. m \notin Promised /\ Promised' = Promised \cup {m} /\ UNCHANGED Disbursed
  BY <1>1, <1>3 DEF IInv, TypeOK, Promised, Disbursed
<1>6. Plan!Promise(m, g)
  BY <1>2, <1>3, <1>4, <1>5, CircleFeesAssumption DEF Plan!Promise, Rate
<1> QED
  BY <1>1, <1>6 DEF Plan!Next

LEMMA ConfirmPays ==
    ASSUME IInv, NEW w \in Calls, Confirm(w)
    PROVE  Plan!Next
<1> DEFINE m == call[w].member
<1>1. m \in Members /\ payout[m] # "NONE"
  BY CallFields DEF IInv, Confirm, MemberCalls
<1>2. /\ payout' = [payout EXCEPT ![m] = "DISBURSED"]
      /\ ledger' = [ledger EXCEPT ![m] =
                    [a \in Accounts |-> @[a] + CASE a = "ESCROW_ACCOUNT" -> gross[m]
                                               [] a = "PAYOUT_OUTFLOW" -> -net[m]
                                               [] a = "FEE_REVENUE" -> -fee[m]]]
      /\ UNCHANGED <<snapshot, gross, fee, net>>
  BY DEF Confirm, Post, circles
<1> HIDE DEF m
<1>3. m \in Promised /\ Disbursed' = Disbursed \cup {m} /\ UNCHANGED Promised
  BY <1>1, <1>2 DEF IInv, TypeOK, Promised, Disbursed
<1>4. Plan!Pay(m)
  BY <1>2, <1>3 DEF Plan!Pay, Accounts, Plan!Accounts
<1> QED
  BY <1>1, <1>4 DEF Plan!Next

LEMMA NextPlan == IInv /\ PlanInv /\ [Next]_vars => [Plan!Next]_(Plan!vars)
<1> SUFFICES ASSUME IInv, PlanInv, [Next]_vars PROVE Plan!Next \/ UNCHANGED Plan!vars
  OBVIOUS
<1>1. CASE \E w \in Calls : CreateCircle(w) \/ Sign(w) \/ Confirm(w)
  BY <1>1, CreateChooses, SignPromises, ConfirmPays
<1>2. CASE ~ \E w \in Calls : CreateCircle(w) \/ Sign(w) \/ Confirm(w)
  <2>1. UNCHANGED <<snapshot, payouts, books>>
    BY <1>2, Writers
  <2> QED
    BY <2>1 DEF payouts, books, Plan!vars, Promised, Disbursed
<1> QED
  BY <1>1, <1>2

\* The policy of a circle and the amounts of a payout are decided once, at its
\* creation and its signature; a payout is marked as disbursed in the step
\* that enters its amounts.
THEOREM CirclesKeepThePlan == Spec => PlanSpec
<1>1. Init => PlanInv /\ Plan!Init
  BY InitPlan
<1>2. IInv /\ PlanInv /\ [Next]_vars => PlanInv' /\ [Plan!Next]_(Plan!vars)
  BY NextPlanInv, NextPlan
<1> QED
  BY <1>1, <1>2, Invariance, PTL DEF Spec, PlanSpec, Plan!Spec

=============================================================================
