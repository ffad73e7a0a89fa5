--------------------------- MODULE SignIn_proofs ---------------------------
(***************************************************************************)
(* Theorems about SignIn, for any addresses, accounts and calls.  The      *)
(* three bounds have one argument: what a check let pass and has not yet   *)
(* been written is counted with what is written, and at the moment of the  *)
(* check nothing is written, or one attempt is left.                       *)
(***************************************************************************)
EXTENDS SignIn, FiniteSetTheorems, TLAPS

USE DEF Purposes, CodeStates, Targets

LEMMA SubsetCounts ==
    ASSUME NEW S, IsFiniteSet(S), NEW T, T \subseteq S
    PROVE  /\ IsFiniteSet(T) /\ Cardinality(T) <= Cardinality(S)
           /\ Cardinality(T) \in Nat /\ Cardinality(S) \in Nat
BY FS_Subset, FS_CardinalityType

\* A set that gains at most one element grows by at most one.
LEMMA GainCounts ==
    ASSUME NEW S, IsFiniteSet(S), NEW x, NEW T, T \subseteq S \cup {x}
    PROVE  IsFiniteSet(T) /\ Cardinality(T) \in Nat /\ Cardinality(T) <= Cardinality(S) + 1
<1>1. Cardinality(S) \in Nat
  BY FS_CardinalityType
<1>2. /\ IsFiniteSet(S \cup {x})
      /\ Cardinality(S \cup {x}) = IF x \in S THEN Cardinality(S) ELSE Cardinality(S) + 1
  BY FS_AddElement
<1>3. IsFiniteSet(T) /\ Cardinality(T) \in Nat /\ Cardinality(T) <= Cardinality(S \cup {x})
  BY <1>2, SubsetCounts
<1> QED BY <1>1, <1>2, <1>3

\* A set that loses an element shrinks by at least one.
LEMMA LossCounts ==
    ASSUME NEW S, IsFiniteSet(S), NEW x \in S, NEW T, T \subseteq S \ {x}
    PROVE  IsFiniteSet(T) /\ Cardinality(T) \in Nat /\ Cardinality(T) <= Cardinality(S) - 1
<1>1. IsFiniteSet(S \ {x}) /\ Cardinality(S \ {x}) = Cardinality(S) - 1
  BY FS_RemoveElement
<1> QED BY <1>1, SubsetCounts, FS_CardinalityType

\* A set of at most one element has no two.
LEMMA LoneElement ==
    ASSUME NEW S, IsFiniteSet(S), Cardinality(S) <= 1, NEW x \in S, NEW y \in S
    PROVE  x = y
<1> SUFFICES ASSUME x # y PROVE FALSE
  OBVIOUS
<1>1. /\ IsFiniteSet(S \ {x}) /\ Cardinality(S \ {x}) = Cardinality(S) - 1
      /\ Cardinality(S) \in Nat
  BY FS_RemoveElement, FS_CardinalityType
<1>2. Cardinality((S \ {x}) \ {y}) = Cardinality(S \ {x}) - 1 /\ IsFiniteSet((S \ {x}) \ {y})
  <2>1. y \in S \ {x}
    OBVIOUS
  <2> QED BY <1>1, <2>1, FS_RemoveElement
<1>3. Cardinality((S \ {x}) \ {y}) \in Nat
  BY <1>2, FS_CardinalityType
<1> QED BY <1>1, <1>2, <1>3

\* Worker slots are at least one and finitely many, and so is what they count.
LEMMA Slots ==
    /\ Cardinality(Requests) \in Nat /\ Cardinality(Requests) >= 1
    /\ Cardinality(Verifies) \in Nat /\ Cardinality(Verifies) >= 1
    /\ IsFiniteSet(Codes)
<1>1. Cardinality(Requests) \in Nat /\ Cardinality(Verifies) \in Nat
  BY SignInAssumption, FS_CardinalityType
<1>2. Cardinality(Requests) # 0 /\ Cardinality(Verifies) # 0
  BY SignInAssumption, FS_EmptySet
<1>3. IsFiniteSet(1..MaxCodes)
  BY SignInAssumption, FS_Interval
<1> QED BY <1>1, <1>2, <1>3 DEF Codes

\* The records the calls move through are well typed.
LEMMA CallTypes ==
    /\ QuietRequest \in RequestCalls /\ QuietVerify \in VerifyCalls /\ NoCode \in CodeRows
    /\ \A t \in Targets, p \in Purposes :
        /\ [step |-> "check", target |-> t, purpose |-> p] \in RequestCalls
        /\ [step |-> "find", target |-> t, purpose |-> p, code |-> 0] \in VerifyCalls
        /\ [target |-> t, purpose |-> p, state |-> "cooling", attempts |-> 0] \in CodeRows
    /\ \A t \in Targets, asked \in Asked : ResolvedPurpose(t, asked) \in Purposes
BY SMT DEF RequestCalls, VerifyCalls, CodeRows, QuietRequest, QuietVerify, NoCode,
           ResolvedPurpose, Asked

-----------------------------------------------------------------------------
\* Every reachable state of accounts, codes and calls is well typed.
THEOREM TypeCorrect == Spec => []TypeOK
<1>1. Init => TypeOK
  <2> SUFFICES ASSUME Init PROVE TypeOK
    OBVIOUS
  <2>1. email \in [Accounts -> Emails \cup {Nowhere}] /\ number \in [Accounts -> Numbers \cup {Nowhere}]
    BY DEF Init
  <2>2. code \in [Codes -> CodeRows] /\ request \in [Requests -> RequestCalls]
        /\ verify \in [Verifies -> VerifyCalls]
    BY CallTypes DEF Init
  <2>3. /\ \A r \in Requests : request[r].step = "idle"
        /\ \A v \in Verifies : verify[v].step = "idle"
    BY DEF Init, QuietRequest, QuietVerify
  <2> QED BY <2>1, <2>2, <2>3 DEF TypeOK
<1>2. TypeOK /\ [Next]_vars => TypeOK'
  <2> SUFFICES ASSUME TypeOK, [Next]_vars PROVE TypeOK'
    OBVIOUS
  <2> USE DEF TypeOK
  <2>1. ASSUME NEW r \in Requests, NEW t \in Targets, NEW asked \in Asked, RequestStart(r, t, asked)
        PROVE TypeOK'
    <3> DEFINE c == [step |-> "check", target |-> t, purpose |-> ResolvedPurpose(t, asked)]
    <3>1. c \in RequestCalls /\ c.target \in Targets
      BY CallTypes
    <3>2. request' = [request EXCEPT ![r] = c]
      BY <2>1 DEF RequestStart
    <3> HIDE DEF c
    <3> QED BY <2>1, <3>1, <3>2 DEF RequestStart
  <2>2. ASSUME NEW r \in Requests, RequestCheck(r) PROVE TypeOK'
    <3>1. [request[r] EXCEPT !.step = "create"] \in RequestCalls
          /\ [request[r] EXCEPT !.step = "create"].target = request[r].target
      BY DEF RequestCalls
    <3> QED BY <2>2, <3>1, CallTypes DEF RequestCheck, QuietRequest
  <2>3. ASSUME NEW r \in Requests, RequestCreate(r) PROVE TypeOK'
    <3> DEFINE row == [target |-> request[r].target, purpose |-> request[r].purpose,
                       state |-> "cooling", attempts |-> 0]
    <3>1. row \in CodeRows
      <4>1. request[r] \in RequestCalls
        BY <2>3
      <4>2. request[r].target \in Targets \cup {Nowhere} /\ request[r].purpose \in Purposes
        BY <4>1 DEF RequestCalls
      <4> HIDE DEF TypeOK
      <4> QED BY <4>2 DEF CodeRows
    <3>2. PICK c \in NextCodes : code' = [code EXCEPT ![c] = row]
      BY <2>3 DEF RequestCreate
    <3> HIDE DEF row
    <3> QED BY <2>3, <3>1, <3>2, CallTypes DEF RequestCreate, QuietRequest, NextCodes
  <2>4. ASSUME NEW r \in Requests, RequestDies(r) PROVE TypeOK'
    BY <2>4, CallTypes DEF RequestDies, QuietRequest
  <2>5. ASSUME NEW v \in Verifies, NEW t \in Targets, NEW asked \in Asked, VerifyStart(v, t, asked)
        PROVE TypeOK'
    <3> DEFINE c == [step |-> "find", target |-> t, purpose |-> ResolvedPurpose(t, asked), code |-> 0]
    <3>1. c \in VerifyCalls /\ c.target \in Targets /\ c.step = "find"
      BY CallTypes
    <3>2. verify' = [verify EXCEPT ![v] = c]
      BY <2>5 DEF VerifyStart
    <3> HIDE DEF c
    <3> QED BY <2>5, <3>1, <3>2 DEF VerifyStart
  <2>6. ASSUME NEW v \in Verifies, VerifyFind(v) PROVE TypeOK'
    <3>1. PICK c \in Codes, outcome \in {"wrong", "right"} :
                verify' = [verify EXCEPT ![v].step = outcome, ![v].code = c]
      BY <2>6 DEF VerifyFind, Valid
    <3> DEFINE new == [verify[v] EXCEPT !.step = outcome, !.code = c]
    <3>2. new \in VerifyCalls /\ new.target = verify[v].target /\ new.code = c /\ new.step = outcome
      BY DEF VerifyCalls
    <3>3. verify' = [verify EXCEPT ![v] = new]
      BY <3>1
    <3> HIDE DEF new
    <3> QED BY <2>6, <3>2, <3>3 DEF VerifyFind
  <2>7. ASSUME NEW v \in Verifies, VerifyRefuse(v) \/ VerifyDies(v) PROVE TypeOK'
    <3>1. verify' = [verify EXCEPT ![v] = QuietVerify] /\ UNCHANGED <<email, number, code, request>>
      BY <2>7 DEF VerifyRefuse, VerifyDies
    <3> QED BY <3>1, CallTypes DEF QuietVerify
  <2>8. ASSUME NEW v \in Verifies, VerifyWrong(v) PROVE TypeOK'
    <3>1. [code[verify[v].code] EXCEPT !.attempts = @ + 1] \in CodeRows
      BY <2>8 DEF VerifyWrong, CodeRows
    <3> QED BY <2>8, <3>1, CallTypes DEF VerifyWrong, QuietVerify
  <2>9. ASSUME NEW v \in Verifies, VerifyRight(v) PROVE TypeOK'
    <3>1. [code[verify[v].code] EXCEPT !.state = "used"] \in CodeRows
      BY <2>9 DEF VerifyRight, CodeRows
    <3>2. [verify[v] EXCEPT !.step = "customer"] \in VerifyCalls
          /\ [verify[v] EXCEPT !.step = "customer"].target = verify[v].target
          /\ [verify[v] EXCEPT !.step = "customer"].step = "customer"
      BY DEF VerifyCalls
    <3> QED BY <2>9, <3>1, <3>2 DEF VerifyRight
  <2>10. ASSUME NEW v \in Verifies, VerifyCustomer(v) PROVE TypeOK'
    <3>1. [verify[v] EXCEPT !.step = "create"] \in VerifyCalls
          /\ [verify[v] EXCEPT !.step = "create"].target = verify[v].target
          /\ [verify[v] EXCEPT !.step = "create"].step = "create"
      BY DEF VerifyCalls
    <3> QED BY <2>10, <3>1, CallTypes DEF VerifyCustomer, QuietVerify
  <2>11. ASSUME NEW v \in Verifies, VerifyCreate(v) PROVE TypeOK'
    BY <2>11, CallTypes DEF VerifyCreate, QuietVerify
  <2>12. ASSUME NEW a \in Accounts, NEW n \in Numbers, SetNumber(a, n) PROVE TypeOK'
    BY <2>12 DEF SetNumber
  <2>13. ASSUME NEW c \in Codes, Age(c) PROVE TypeOK'
    <3>1. \A s \in CodeStates : [code[c] EXCEPT !.state = s] \in CodeRows
      BY DEF CodeRows
    <3> QED BY <2>13, <3>1 DEF Age
  <2>14. CASE UNCHANGED vars
    BY <2>14 DEF vars
  <2> QED BY <2>1, <2>2, <2>3, <2>4, <2>5, <2>6, <2>7, <2>8, <2>9, <2>10, <2>11, <2>12, <2>13, <2>14
        DEF Next
<1> QED BY <1>1, <1>2, PTL DEF Spec
-----------------------------------------------------------------------------
LEMMA AttemptsStart == Init => AttemptsInv
<1> SUFFICES ASSUME Init, NEW c \in Codes
             PROVE  code[c].attempts + Cardinality(Comparing(c)) <= MaxAttempts + Cardinality(Verifies) - 1
  BY DEF AttemptsInv
<1>1. Comparing(c) = {} /\ code[c].attempts = 0
  BY DEF Init, Comparing, QuietVerify, NoCode
<1> QED BY <1>1, Slots, SignInAssumption, FS_EmptySet

\* A step that compares no more, and counts no more, keeps the bound.
LEMMA AttemptsStep == TypeOK /\ AttemptsInv /\ [Next]_vars => AttemptsInv'
<1> SUFFICES ASSUME TypeOK, AttemptsInv, [Next]_vars, NEW c \in Codes
             PROVE  code[c].attempts' + Cardinality(Comparing(c)')
                        <= MaxAttempts + Cardinality(Verifies) - 1
  BY DEF AttemptsInv
<1>1. /\ code[c].attempts \in Nat /\ MaxAttempts \in Nat \ {0}
      /\ code[c].attempts + Cardinality(Comparing(c)) <= MaxAttempts + Cardinality(Verifies) - 1
  BY SignInAssumption DEF TypeOK, CodeRows, AttemptsInv
<1>2. Comparing(c) \subseteq Verifies /\ Comparing(c)' \subseteq Verifies /\ IsFiniteSet(Verifies)
  BY SignInAssumption DEF Comparing
<1>3. /\ Cardinality(Comparing(c)) \in Nat /\ IsFiniteSet(Comparing(c))
      /\ Cardinality(Comparing(c)') \in Nat /\ Cardinality(Comparing(c)') <= Cardinality(Verifies)
      /\ Cardinality(Verifies) \in Nat
  BY <1>2, SubsetCounts
<1>4. ASSUME code[c].attempts' \in {0, code[c].attempts}, Comparing(c)' \subseteq Comparing(c)
      PROVE  code[c].attempts' + Cardinality(Comparing(c)')
                    <= MaxAttempts + Cardinality(Verifies) - 1
  <2>1. Cardinality(Comparing(c)') <= Cardinality(Comparing(c))
    BY <1>3, <1>4, SubsetCounts
  <2> QED BY <1>1, <1>3, <1>4, <2>1
<1> USE DEF TypeOK
<1>5. ASSUME NEW r \in Requests,
             \/ \E t \in Targets, asked \in Asked : RequestStart(r, t, asked)
             \/ RequestCheck(r) \/ RequestDies(r)
      PROVE  code' = code /\ verify' = verify
  BY <1>5 DEF RequestStart, RequestCheck, RequestDies
<1>6. ASSUME NEW r \in Requests, RequestCreate(r)
      PROVE  code[c].attempts' \in {0, code[c].attempts} /\ verify' = verify
  BY <1>6 DEF RequestCreate, CodeRows
<1>7. ASSUME NEW v \in Verifies,
             \/ \E t \in Targets, asked \in Asked : VerifyStart(v, t, asked)
             \/ VerifyRefuse(v) \/ VerifyCustomer(v) \/ VerifyCreate(v) \/ VerifyDies(v)
      PROVE  code' = code /\ Comparing(c)' \subseteq Comparing(c)
  <2>1. code' = code
    BY <1>7 DEF VerifyStart, VerifyRefuse, VerifyCustomer, VerifyCreate, VerifyDies
  <2>2. PICK new : verify' = [verify EXCEPT ![v] = new] /\ new.step # "wrong"
    BY <1>7 DEF VerifyStart, VerifyRefuse, VerifyCustomer, VerifyCreate, VerifyDies, QuietVerify,
                VerifyCalls
  <2> QED BY <2>1, <2>2 DEF Comparing
<1>8. ASSUME NEW v \in Verifies, VerifyFind(v)
      PROVE  code[c].attempts' + Cardinality(Comparing(c)')
                    <= MaxAttempts + Cardinality(Verifies) - 1
  <2>1. PICK d \in Codes, outcome \in {"wrong", "right"} :
            /\ code[d].attempts < MaxAttempts
            /\ verify' = [verify EXCEPT ![v].step = outcome, ![v].code = d]
    BY <1>8 DEF VerifyFind, Valid
  <2>2. code' = code
    BY <1>8 DEF VerifyFind
  <2>3. CASE d = c
    BY <1>1, <1>3, <2>1, <2>2, <2>3
  <2>4. CASE d # c
    <3>1. Comparing(c)' \subseteq Comparing(c)
      BY <2>1, <2>4 DEF Comparing, VerifyCalls
    <3> QED BY <1>4, <2>2, <3>1
  <2> QED BY <2>3, <2>4
<1>9. ASSUME NEW v \in Verifies, VerifyWrong(v)
      PROVE  code[c].attempts' + Cardinality(Comparing(c)')
                    <= MaxAttempts + Cardinality(Verifies) - 1
  <2>1. Comparing(c)' \subseteq Comparing(c) \ {v}
    BY <1>9 DEF VerifyWrong, Comparing, QuietVerify
  <2>2. CASE c = verify[v].code
    <3>1. v \in Comparing(c) /\ code[c].attempts' = code[c].attempts + 1
      BY <1>9, <2>2 DEF VerifyWrong, Comparing, CodeRows
    <3>2. Cardinality(Comparing(c)') <= Cardinality(Comparing(c)) - 1
      BY <1>3, <2>1, <3>1, LossCounts
    <3> QED BY <1>1, <1>3, <3>1, <3>2
  <2>3. CASE c # verify[v].code
    <3>1. code[c].attempts' = code[c].attempts
      BY <1>9, <2>3 DEF VerifyWrong
    <3> QED BY <1>4, <2>1, <3>1
  <2> QED BY <2>2, <2>3
<1>10. ASSUME NEW v \in Verifies, VerifyRight(v)
       PROVE  code[c].attempts' = code[c].attempts /\ Comparing(c)' \subseteq Comparing(c)
  BY <1>10 DEF VerifyRight, Comparing, VerifyCalls, CodeRows
<1>11. ASSUME NEW a \in Accounts, NEW n \in Numbers, SetNumber(a, n)
       PROVE  code' = code /\ verify' = verify
  BY <1>11 DEF SetNumber
<1>12. ASSUME NEW d \in Codes, Age(d) PROVE code[c].attempts' = code[c].attempts /\ verify' = verify
  BY <1>12 DEF Age, CodeRows
<1>13. CASE UNCHANGED vars
  BY <1>4, <1>13 DEF vars, Comparing
<1> QED BY <1>4, <1>5, <1>6, <1>7, <1>8, <1>9, <1>10, <1>11, <1>12, <1>13 DEF Next, Comparing

\* verifyOtp compares a code at most maxAttempts times, and once more for each
\* other verification that runs at the same time.
THEOREM AttemptsAreBounded == Spec => []AttemptsBounded
<1>1. TypeOK /\ AttemptsInv => AttemptsBounded
  <2> SUFFICES ASSUME TypeOK, AttemptsInv, NEW c \in Codes
               PROVE  code[c].attempts <= MaxAttempts + Cardinality(Verifies) - 1
    BY DEF AttemptsBounded
  <2>1. Cardinality(Comparing(c)) \in Nat
    BY SignInAssumption, SubsetCounts DEF Comparing
  <2> QED BY <2>1, Slots, SignInAssumption DEF TypeOK, CodeRows, AttemptsInv
<1> QED BY <1>1, AttemptsStart, AttemptsStep, TypeCorrect, PTL DEF Spec

-----------------------------------------------------------------------------
LEMMA CooldownStart == Init => CooldownInv
<1> SUFFICES ASSUME Init, NEW t \in Targets, NEW p \in Purposes
             PROVE  Cardinality(Cooling(t, p)) + Cardinality(Creating(t, p)) <= Cardinality(Requests)
  BY DEF CooldownInv
<1>1. Cooling(t, p) = {} /\ Creating(t, p) = {}
  BY DEF Init, Cooling, Creating, QuietRequest, NoCode
<1> QED BY <1>1, Slots, FS_EmptySet

LEMMA CooldownStep == TypeOK /\ CooldownInv /\ [Next]_vars => CooldownInv'
<1> SUFFICES ASSUME TypeOK, CooldownInv, [Next]_vars, NEW t \in Targets, NEW p \in Purposes
             PROVE  Cardinality(Cooling(t, p)') + Cardinality(Creating(t, p)') <= Cardinality(Requests)
  BY DEF CooldownInv
<1> DEFINE Bound == Cardinality(Cooling(t, p)') + Cardinality(Creating(t, p)') <= Cardinality(Requests)
<1>1. Cardinality(Cooling(t, p)) + Cardinality(Creating(t, p)) <= Cardinality(Requests)
  BY DEF CooldownInv
<1>2. /\ IsFiniteSet(Cooling(t, p)) /\ Cardinality(Cooling(t, p)) \in Nat
      /\ IsFiniteSet(Creating(t, p)) /\ Cardinality(Creating(t, p)) \in Nat
      /\ Cardinality(Creating(t, p)') \in Nat
      /\ Cardinality(Creating(t, p)') <= Cardinality(Requests)
      /\ Cardinality(Requests) \in Nat
  BY Slots, SignInAssumption, SubsetCounts DEF Cooling, Creating
<1>3. ASSUME Cooling(t, p)' \subseteq Cooling(t, p), Creating(t, p)' \subseteq Creating(t, p)
      PROVE  Bound
  <2>1. /\ Cardinality(Cooling(t, p)') \in Nat
        /\ Cardinality(Cooling(t, p)') <= Cardinality(Cooling(t, p))
        /\ Cardinality(Creating(t, p)') <= Cardinality(Creating(t, p))
    BY <1>2, <1>3, SubsetCounts
  <2> QED BY <1>1, <1>2, <2>1
<1> USE DEF TypeOK
<1>4. ASSUME NEW r \in Requests,
             (\E u \in Targets, asked \in Asked : RequestStart(r, u, asked)) \/ RequestDies(r)
      PROVE  Bound
  <2>1. PICK new : request' = [request EXCEPT ![r] = new] /\ new.step # "create"
    BY <1>4 DEF RequestStart, RequestDies, QuietRequest
  <2>2. code' = code
    BY <1>4 DEF RequestStart, RequestDies
  <2> QED BY <1>3, <2>1, <2>2 DEF Cooling, Creating
<1>5. ASSUME NEW r \in Requests, RequestCheck(r) PROVE Bound
  <2>1. code' = code /\ Cooling(t, p)' = Cooling(t, p)
    BY <1>5 DEF RequestCheck, Cooling
  <2>2. CASE Cooling(t, p) = {}
    <3>1. Cardinality(Cooling(t, p)') = 0
      BY <2>1, <2>2, FS_EmptySet
    <3> QED BY <1>2, <3>1
  <2>3. CASE Cooling(t, p) # {}
    <3>1. Creating(t, p)' \subseteq Creating(t, p)
      BY <1>5, <2>3 DEF RequestCheck, Creating, RequestCalls, QuietRequest
    <3> QED BY <1>3, <2>1, <3>1
  <2> QED BY <2>2, <2>3
<1>6. ASSUME NEW r \in Requests, RequestCreate(r) PROVE Bound
  <2>1. PICK c \in Codes :
            code' = [code EXCEPT ![c] =
                [target |-> request[r].target, purpose |-> request[r].purpose,
                 state |-> "cooling", attempts |-> 0]]
    BY <1>6 DEF RequestCreate, NextCodes
  <2>2. Creating(t, p)' \subseteq Creating(t, p) \ {r}
    BY <1>6 DEF RequestCreate, Creating, QuietRequest
  <2>3. CASE request[r].target = t /\ request[r].purpose = p
    <3>1. Cooling(t, p)' \subseteq Cooling(t, p) \cup {c}
      BY <2>1 DEF Cooling
    <3>2. r \in Creating(t, p)
      BY <1>6, <2>3 DEF RequestCreate, Creating
    <3>3. /\ Cardinality(Cooling(t, p)') \in Nat
          /\ Cardinality(Cooling(t, p)') <= Cardinality(Cooling(t, p)) + 1
      BY <1>2, <3>1, GainCounts
    <3>4. Cardinality(Creating(t, p)') <= Cardinality(Creating(t, p)) - 1
      BY <1>2, <2>2, <3>2, LossCounts
    <3> QED BY <1>1, <1>2, <3>3, <3>4
  <2>4. CASE ~(request[r].target = t /\ request[r].purpose = p)
    <3>1. Cooling(t, p)' \subseteq Cooling(t, p)
      BY <2>1, <2>4 DEF Cooling
    <3> QED BY <1>3, <2>2, <3>1
  <2> QED BY <2>3, <2>4
<1>7. ASSUME NEW v \in Verifies,
             \/ \E u \in Targets, asked \in Asked : VerifyStart(v, u, asked)
             \/ VerifyFind(v) \/ VerifyRefuse(v) \/ VerifyCustomer(v) \/ VerifyCreate(v)
             \/ VerifyDies(v)
      PROVE  Bound
  <2>1. code' = code /\ request' = request
    BY <1>7 DEF VerifyStart, VerifyFind, VerifyRefuse, VerifyCustomer, VerifyCreate, VerifyDies
  <2> QED BY <1>3, <2>1 DEF Cooling, Creating
<1>8. ASSUME NEW v \in Verifies, VerifyWrong(v) \/ VerifyRight(v) PROVE Bound
  <2>1. /\ request' = request
        /\ \A c \in Codes : /\ code'[c].target = code[c].target /\ code'[c].purpose = code[c].purpose
                            /\ code'[c].state \in {code[c].state, "used"}
    BY <1>8 DEF VerifyWrong, VerifyRight, CodeRows
  <2> QED BY <1>3, <2>1 DEF Cooling, Creating
<1>9. ASSUME NEW a \in Accounts, NEW n \in Numbers, SetNumber(a, n) PROVE Bound
  BY <1>3, <1>9 DEF SetNumber, Cooling, Creating
<1>10. ASSUME NEW c \in Codes, Age(c) PROVE Bound
  BY <1>3, <1>10 DEF Age, Cooling, Creating, CodeRows
<1>11. CASE UNCHANGED vars
  BY <1>3, <1>11 DEF vars, Cooling, Creating
<1> QED BY <1>4, <1>5, <1>6, <1>7, <1>8, <1>9, <1>10, <1>11 DEF Next

\* The cooldown of requestOtp lets through one code a minute for each address,
\* purpose and request in progress.
THEOREM CooldownIsKept == Spec => []CooldownHolds
<1>1. CooldownInv => CooldownHolds
  <2> SUFFICES ASSUME CooldownInv, NEW t \in Targets, NEW p \in Purposes
               PROVE  Cardinality(Cooling(t, p)) <= Cardinality(Requests)
    BY DEF CooldownHolds
  <2>1. Cardinality(Cooling(t, p)) \in Nat /\ Cardinality(Creating(t, p)) \in Nat
    BY Slots, SignInAssumption, SubsetCounts DEF Cooling, Creating
  <2> QED BY <2>1, Slots DEF CooldownInv
<1> QED BY <1>1, CooldownStart, CooldownStep, TypeCorrect, PTL DEF Spec

-----------------------------------------------------------------------------
LEMMA AccountsStart == Init => AccountsInv
<1> SUFFICES ASSUME Init PROVE AccountsInv
  OBVIOUS
<1>1. PICK seeded \in SUBSET Accounts, e \in Emails, n \in Numbers :
        /\ Cardinality(seeded) <= 1
        /\ email = [a \in Accounts |-> IF a \in seeded THEN e ELSE Nowhere]
        /\ number = [a \in Accounts |-> IF a \in seeded THEN n ELSE Nowhere]
  BY DEF Init
<1>2. IsFiniteSet(seeded) /\ Cardinality(seeded) \in Nat
  BY SignInAssumption, SubsetCounts
<1>3. ASSUME NEW f \in Emails
      PROVE  Cardinality(AtEmail(f)) + Cardinality(Opening(f)) <= Cardinality(Verifies)
  <2>1. AtEmail(f) \subseteq seeded
    BY <1>1, SignInAssumption DEF AtEmail
  <2>2. Cardinality(AtEmail(f)) \in Nat /\ Cardinality(AtEmail(f)) <= Cardinality(seeded)
    BY <1>2, <2>1, SubsetCounts
  <2>3. Opening(f) = {}
    BY DEF Init, Opening, QuietVerify
  <2> QED BY <1>1, <1>2, <2>2, <2>3, Slots, FS_EmptySet
<1>4. ASSUME NEW a \in Accounts, NEW b \in Accounts, number[a] = number[b], number[a] # Nowhere
      PROVE  a = b
  <2>1. a \in seeded /\ b \in seeded
    BY <1>1, <1>4
  <2> QED BY <1>1, <1>2, <2>1, LoneElement
<1> QED BY <1>3, <1>4 DEF AccountsInv

LEMMA AccountsStep == TypeOK /\ AccountsInv /\ [Next]_vars => AccountsInv'
<1> SUFFICES ASSUME TypeOK, AccountsInv, [Next]_vars PROVE AccountsInv'
  OBVIOUS
<1> USE DEF TypeOK
<1>1. \A e \in Emails :
        /\ IsFiniteSet(AtEmail(e)) /\ Cardinality(AtEmail(e)) \in Nat
        /\ IsFiniteSet(Opening(e)) /\ Cardinality(Opening(e)) \in Nat
        /\ Cardinality(Opening(e)') \in Nat /\ Cardinality(Opening(e)') <= Cardinality(Verifies)
        /\ Cardinality(AtEmail(e)) + Cardinality(Opening(e)) <= Cardinality(Verifies)
  BY SignInAssumption, SubsetCounts DEF AtEmail, Opening, AccountsInv
<1>2. ASSUME NEW e \in Emails, AtEmail(e)' \subseteq AtEmail(e), Opening(e)' \subseteq Opening(e)
      PROVE  Cardinality(AtEmail(e)') + Cardinality(Opening(e)') <= Cardinality(Verifies)
  <2>1. /\ Cardinality(AtEmail(e)') \in Nat /\ Cardinality(AtEmail(e)') <= Cardinality(AtEmail(e))
        /\ Cardinality(Opening(e)') <= Cardinality(Opening(e))
    BY <1>1, <1>2, SubsetCounts
  <2> QED BY <1>1, <2>1, Slots
<1>3. ASSUME email' = email, number' = number, verify' = verify PROVE AccountsInv'
  BY <1>3 DEF AccountsInv, AtEmail, Opening
<1>4. ASSUME NEW r \in Requests,
             \/ \E t \in Targets, asked \in Asked : RequestStart(r, t, asked)
             \/ RequestCheck(r) \/ RequestCreate(r) \/ RequestDies(r)
      PROVE  AccountsInv'
  BY <1>3, <1>4 DEF RequestStart, RequestCheck, RequestCreate, RequestDies
<1>5. ASSUME NEW v \in Verifies,
             \/ \E t \in Targets, asked \in Asked : VerifyStart(v, t, asked)
             \/ VerifyFind(v) \/ VerifyRefuse(v) \/ VerifyWrong(v) \/ VerifyRight(v) \/ VerifyDies(v)
      PROVE  AccountsInv'
  <2>1. UNCHANGED <<email, number>>
    BY <1>5 DEF VerifyStart, VerifyFind, VerifyRefuse, VerifyWrong, VerifyRight, VerifyDies
  <2>2. verify'[v].step # "create" /\ \A w \in Verifies \ {v} : verify'[w] = verify[w]
    <3>1. verify \in [Verifies -> VerifyCalls]
      OBVIOUS
    <3> HIDE DEF TypeOK
    <3>2. CASE \E t \in Targets, asked \in Asked : VerifyStart(v, t, asked)
      BY <3>1, <3>2 DEF VerifyStart
    <3>3. CASE VerifyFind(v)
      BY <3>1, <3>3 DEF VerifyFind, VerifyCalls
    <3>4. CASE VerifyRefuse(v) \/ VerifyWrong(v) \/ VerifyDies(v)
      BY <3>1, <3>4 DEF VerifyRefuse, VerifyWrong, VerifyDies, QuietVerify
    <3>5. CASE VerifyRight(v)
      BY <3>1, <3>5 DEF VerifyRight, VerifyCalls
    <3> QED BY <1>5, <3>2, <3>3, <3>4, <3>5
  <2>3. \A e \in Emails : AtEmail(e)' \subseteq AtEmail(e) /\ Opening(e)' \subseteq Opening(e)
    BY <2>1, <2>2 DEF AtEmail, Opening
  <2> QED BY <1>2, <2>1, <2>3 DEF AccountsInv
<1>6. ASSUME NEW v \in Verifies, VerifyCustomer(v) PROVE AccountsInv'
  <2>1. UNCHANGED <<email, number>>
    BY <1>6 DEF VerifyCustomer
  <2>2. ASSUME NEW e \in Emails
        PROVE  Cardinality(AtEmail(e)') + Cardinality(Opening(e)') <= Cardinality(Verifies)
    <3>1. AtEmail(e)' = AtEmail(e)
      BY <2>1 DEF AtEmail
    <3>2. CASE AtEmail(e) = {}
      BY <1>1, <3>1, <3>2, Slots, FS_EmptySet
    <3>3. CASE AtEmail(e) # {}
      <4>1. Opening(e)' \subseteq Opening(e)
        BY <1>6, <3>3 DEF VerifyCustomer, AccountsAt, Opening, QuietVerify, VerifyCalls
      <4> QED BY <1>2, <3>1, <4>1
    <3> QED BY <3>2, <3>3
  <2> QED BY <2>1, <2>2 DEF AccountsInv
<1>7. ASSUME NEW v \in Verifies, VerifyCreate(v) PROVE AccountsInv'
  <2>1. \A e \in Emails : Opening(e)' \subseteq Opening(e) /\ v \notin Opening(e)'
    BY <1>7 DEF VerifyCreate, Opening, QuietVerify
  <2>2. CASE UNCHANGED <<email, number>>
    <3>1. \A e \in Emails : AtEmail(e)' \subseteq AtEmail(e)
      BY <2>2 DEF AtEmail
    <3> QED BY <1>2, <2>1, <2>2, <3>1 DEF AccountsInv
  <2>3. ASSUME NEW a \in Accounts, verify[v].target \in Emails,
               email' = [email EXCEPT ![a] = verify[v].target], UNCHANGED number
        PROVE  AccountsInv'
    <3>1. ASSUME NEW e \in Emails
          PROVE  Cardinality(AtEmail(e)') + Cardinality(Opening(e)') <= Cardinality(Verifies)
      <4>1. CASE e = verify[v].target
        <5>1. AtEmail(e)' \subseteq AtEmail(e) \cup {a}
          BY <2>3 DEF AtEmail
        <5>2. v \in Opening(e) /\ Opening(e)' \subseteq Opening(e) \ {v}
          BY <1>7, <2>1, <4>1 DEF VerifyCreate, Opening
        <5>3. /\ Cardinality(AtEmail(e)') \in Nat
              /\ Cardinality(AtEmail(e)') <= Cardinality(AtEmail(e)) + 1
          BY <1>1, <5>1, GainCounts
        <5>4. Cardinality(Opening(e)') <= Cardinality(Opening(e)) - 1
          BY <1>1, <5>2, LossCounts
        <5> QED BY <1>1, <5>3, <5>4, Slots
      <4>2. CASE e # verify[v].target
        <5>1. AtEmail(e)' \subseteq AtEmail(e)
          BY <2>3, <4>2 DEF AtEmail
        <5> QED BY <1>2, <2>1, <5>1
      <4> QED BY <4>1, <4>2
    <3> QED BY <2>3, <3>1 DEF AccountsInv
  <2>4. ASSUME NEW a \in Accounts, verify[v].target \in Numbers, AccountsAt(verify[v].target) = {},
               number' = [number EXCEPT ![a] = verify[v].target], UNCHANGED email
        PROVE  AccountsInv'
    <3>1. \A b \in Accounts : number[b] # verify[v].target
      BY <2>4, SignInAssumption DEF AccountsAt
    <3>2. \A b, c \in Accounts : number'[b] = number'[c] /\ number'[b] # Nowhere => b = c
      BY <2>4, <3>1 DEF AccountsInv
    <3>3. \A e \in Emails : AtEmail(e)' \subseteq AtEmail(e)
      BY <2>4 DEF AtEmail
    <3> QED BY <1>2, <2>1, <3>2, <3>3 DEF AccountsInv
  <2> QED BY <1>7, <2>2, <2>3, <2>4 DEF VerifyCreate
<1>8. ASSUME NEW a \in Accounts, NEW n \in Numbers, SetNumber(a, n) PROVE AccountsInv'
  <2>1. \A b, c \in Accounts : number'[b] = number'[c] /\ number'[b] # Nowhere => b = c
    BY <1>8 DEF SetNumber, AccountsInv
  <2>2. \A e \in Emails : AtEmail(e)' \subseteq AtEmail(e) /\ Opening(e)' \subseteq Opening(e)
    BY <1>8 DEF SetNumber, AtEmail, Opening
  <2> QED BY <1>2, <2>1, <2>2 DEF AccountsInv
<1>9. ASSUME NEW c \in Codes, Age(c) PROVE AccountsInv'
  BY <1>3, <1>9 DEF Age
<1>10. CASE UNCHANGED vars
  BY <1>3, <1>10 DEF vars
<1> QED BY <1>4, <1>5, <1>6, <1>7, <1>8, <1>9, <1>10 DEF Next

\* An e-mail address, which has no unique key, gets at most one account for
\* each verification in progress; a mobile number, which has one, gets one.
THEOREM AccountsAreFew == Spec => []AccountsPerAddress
<1>1. AccountsInv => AccountsPerAddress
  <2> SUFFICES ASSUME AccountsInv, NEW e \in Emails
               PROVE  Cardinality(AtEmail(e)) <= Cardinality(Verifies)
    BY DEF AccountsPerAddress, AccountsInv
  <2>1. Cardinality(AtEmail(e)) \in Nat /\ Cardinality(Opening(e)) \in Nat
    BY SignInAssumption, SubsetCounts DEF AtEmail, Opening
  <2> QED BY <2>1, Slots DEF AccountsInv
<1> QED BY <1>1, AccountsStart, AccountsStep, TypeCorrect, PTL DEF Spec
-----------------------------------------------------------------------------
(* SignIn implements OneTimeCodes *)

LEMMA CodeCallsStart == Init => CodeCalls
<1> SUFFICES ASSUME Init PROVE CodeCalls
  OBVIOUS
<1>1. \A c \in Codes : code[c].target = Nowhere /\ code[c].state = "none"
  BY DEF Init, NoCode
<1>2. \A v \in Verifies : verify[v].step = "idle"
  BY DEF Init, QuietVerify
<1> QED BY <1>1, <1>2 DEF CodeCalls

\* A verification keeps to the code it found: codes keep their address and
\* used ones stay used, and a call moves on from one statement to the next.
LEMMA CodeCallsStep ==
    ASSUME TypeOK, CodeCalls, [Next]_vars
    PROVE  CodeCalls'
<1>1. /\ code \in [Codes -> CodeRows] /\ verify \in [Verifies -> VerifyCalls]
      /\ \A r \in Requests : request[r].step # "idle" => request[r].target \in Targets
      /\ \A v \in Verifies : verify[v].step # "idle" => verify[v].target \in Targets
      /\ Nowhere \notin Targets
  BY SignInAssumption DEF TypeOK
<1> HIDE DEF Targets
\* The rows of codes only gain codes and change their states.
<1>2. ASSUME \A c \in Codes : \/ code'[c].target = code[c].target
                              \/ code[c].state = "none",
             \A c \in Codes : code'[c].target = Nowhere <=> code'[c].state = "none",
             \A c \in Codes : code[c].state = "used" => code'[c].state = "used",
             UNCHANGED verify
      PROVE  CodeCalls'
  <2>1. ASSUME NEW v \in Verifies, verify[v].step \in {"wrong", "right", "customer", "create"}
        PROVE  /\ verify[v].code \in Codes /\ code'[verify[v].code].target = verify[v].target
               /\ verify[v].step \in {"customer", "create"} => code'[verify[v].code].state = "used"
    <3> DEFINE c == verify[v].code
    <3>1. c \in Codes /\ code[c].target = verify[v].target /\ code[c].target \in Targets
      BY <1>1, <2>1 DEF CodeCalls
    <3>2. code[c].state # "none"
      BY <1>1, <3>1 DEF CodeCalls
    <3>3. verify[v].step \in {"customer", "create"} => code[c].state = "used"
      BY DEF CodeCalls
    <3> QED BY <1>2, <3>1, <3>2, <3>3
  <2> QED BY <1>2, <2>1 DEF CodeCalls
\* A call gives up, or moves on with a code it is entitled to.
<1>3. ASSUME NEW v \in Verifies, UNCHANGED code, \A w \in Verifies \ {v} : verify'[w] = verify[w],
             verify'[v].step \in {"wrong", "right", "customer", "create"} =>
                verify'[v].code \in Codes /\ code[verify'[v].code].target = verify'[v].target,
             verify'[v].step \in {"customer", "create"} => code[verify'[v].code].state = "used"
      PROVE  CodeCalls'
  BY <1>3 DEF CodeCalls
<1>4. ASSUME UNCHANGED <<code, verify>> PROVE CodeCalls'
  BY <1>4 DEF CodeCalls
<1>5. ASSUME NEW r \in Requests,
             \/ \E t \in Targets, asked \in Asked : RequestStart(r, t, asked)
             \/ RequestCheck(r) \/ RequestDies(r)
      PROVE  CodeCalls'
  BY <1>4, <1>5 DEF RequestStart, RequestCheck, RequestDies
<1>6. ASSUME NEW r \in Requests, RequestCreate(r) PROVE CodeCalls'
  <2> DEFINE row == [target |-> request[r].target, purpose |-> request[r].purpose,
                     state |-> "cooling", attempts |-> 0]
  <2>1. row.target \in Targets /\ row.state = "cooling"
    BY <1>1, <1>6 DEF RequestCreate
  <2>2. PICK c \in NextCodes : code' = [code EXCEPT ![c] = row]
    BY <1>6 DEF RequestCreate
  <2>3. c \in Codes /\ code[c].state = "none" /\ UNCHANGED verify
    BY <1>6 DEF RequestCreate, NextCodes
  <2> HIDE DEF row
  <2>4. code'[c] = row /\ \A d \in Codes \ {c} : code'[d] = code[d]
    BY <1>1, <2>2, <2>3
  <2>5. \A d \in Codes : code'[d].target = Nowhere <=> code'[d].state = "none"
    BY <1>1, <2>1, <2>4 DEF CodeCalls
  <2>6. \A d \in Codes : code[d].state = "used" => code'[d].state = "used"
    BY <2>3, <2>4
  <2> QED BY <1>2, <2>3, <2>4, <2>5, <2>6
<1>7. ASSUME NEW v \in Verifies,
             \/ \E t \in Targets, asked \in Asked : VerifyStart(v, t, asked)
             \/ VerifyRefuse(v) \/ VerifyDies(v) \/ VerifyCreate(v)
      PROVE  CodeCalls'
  <2>1. verify'[v].step \in {"idle", "find"} /\ \A w \in Verifies \ {v} : verify'[w] = verify[w]
    BY <1>1, <1>7 DEF VerifyStart, VerifyRefuse, VerifyDies, VerifyCreate, QuietVerify
  <2>2. UNCHANGED code
    BY <1>7 DEF VerifyStart, VerifyRefuse, VerifyDies, VerifyCreate
  <2> QED BY <1>3, <2>1, <2>2
<1>8. ASSUME NEW v \in Verifies, VerifyFind(v) PROVE CodeCalls'
  <2>1. PICK c \in Codes, outcome \in {"wrong", "right"} :
            /\ code[c].target = verify[v].target
            /\ verify' = [verify EXCEPT ![v].step = outcome, ![v].code = c]
    BY <1>8 DEF VerifyFind, Valid
  <2>2. /\ verify'[v].step = outcome /\ verify'[v].code = c /\ verify'[v].target = verify[v].target
        /\ \A w \in Verifies \ {v} : verify'[w] = verify[w]
    BY <1>1, <2>1 DEF VerifyCalls
  <2>3. UNCHANGED code
    BY <1>8 DEF VerifyFind
  <2> QED BY <1>3, <2>1, <2>2, <2>3
<1>9. ASSUME NEW v \in Verifies, VerifyWrong(v) PROVE CodeCalls'
  <2>1. PICK c \in Codes : code' = [code EXCEPT ![c].attempts = @ + 1]
    BY <1>9 DEF VerifyWrong, CodeCalls
  <2>2. \A d \in Codes : code'[d].target = code[d].target /\ code'[d].state = code[d].state
    BY <1>1, <2>1 DEF CodeRows
  <2>3. verify'[v].step = "idle" /\ \A w \in Verifies \ {v} : verify'[w] = verify[w]
    BY <1>1, <1>9 DEF VerifyWrong, QuietVerify
  <2> QED BY <2>2, <2>3 DEF CodeCalls
<1>10. ASSUME NEW v \in Verifies, VerifyRight(v) PROVE CodeCalls'
  <2> DEFINE c == verify[v].code
  <2>1. c \in Codes /\ code[c].target = verify[v].target /\ verify[v].target \in Targets
    BY <1>1, <1>10 DEF VerifyRight, CodeCalls
  <2>2. code' = [code EXCEPT ![c].state = "used"] /\ verify' = [verify EXCEPT ![v].step = "customer"]
    BY <1>10 DEF VerifyRight
  <2> HIDE DEF c
  <2>3. /\ code'[c].target = code[c].target /\ code'[c].state = "used"
        /\ \A d \in Codes \ {c} : code'[d] = code[d]
    BY <1>1, <2>1, <2>2 DEF CodeRows
  <2>4. /\ verify'[v].step = "customer" /\ verify'[v].code = c /\ verify'[v].target = verify[v].target
        /\ \A w \in Verifies \ {v} : verify'[w] = verify[w]
    BY <1>1, <2>2 DEF VerifyCalls, c
  <2>5. \A d \in Codes : code'[d].target = Nowhere <=> code'[d].state = "none"
    BY <1>1, <2>1, <2>3 DEF CodeCalls
  <2>6. \A d \in Codes : /\ code'[d].target = code[d].target
                         /\ code[d].state = "used" => code'[d].state = "used"
    BY <2>3
  <2>7. \A w \in Verifies : verify[w].step \in {"wrong", "right", "customer", "create"} =>
            /\ verify[w].code \in Codes /\ code[verify[w].code].target = verify[w].target
            /\ verify[w].step \in {"customer", "create"} => code[verify[w].code].state = "used"
    BY DEF CodeCalls
  <2> QED BY <2>1, <2>3, <2>4, <2>5, <2>6, <2>7 DEF CodeCalls
<1>11. ASSUME NEW v \in Verifies, VerifyCustomer(v) PROVE CodeCalls'
  <2>1. UNCHANGED code /\ \A w \in Verifies \ {v} : verify'[w] = verify[w]
    BY <1>1, <1>11 DEF VerifyCustomer
  <2>2. \/ verify'[v].step = "idle"
        \/ /\ verify'[v].step = "create" /\ verify'[v].target = verify[v].target
           /\ verify'[v].code = verify[v].code
    BY <1>1, <1>11 DEF VerifyCustomer, QuietVerify, VerifyCalls
  <2>3. /\ verify[v].code \in Codes /\ code[verify[v].code].target = verify[v].target
        /\ code[verify[v].code].state = "used"
    BY <1>11 DEF VerifyCustomer, CodeCalls
  <2> QED BY <1>3, <2>1, <2>2, <2>3
<1>12. ASSUME NEW c \in Codes, Age(c) PROVE CodeCalls'
  <2>1. PICK s \in {"open", "expired"} : code' = [code EXCEPT ![c].state = s]
    BY <1>12 DEF Age
  <2>2. code[c].state \in {"cooling", "open"} /\ UNCHANGED verify
    BY <1>12 DEF Age
  <2>3. /\ code'[c].target = code[c].target /\ code'[c].state = s
        /\ \A d \in Codes \ {c} : code'[d] = code[d]
    BY <1>1, <2>1 DEF CodeRows
  <2>4. \A d \in Codes : code'[d].target = Nowhere <=> code'[d].state = "none"
    BY <2>2, <2>3 DEF CodeCalls
  <2> QED BY <1>2, <2>2, <2>3, <2>4
<1>13. ASSUME (\E a \in Accounts, n \in Numbers : SetNumber(a, n)) \/ UNCHANGED vars PROVE CodeCalls'
  BY <1>4, <1>13 DEF SetNumber, vars
<1> QED BY <1>5, <1>6, <1>7, <1>8, <1>9, <1>10, <1>11, <1>12, <1>13 DEF Next
LEMMA SameCodes == OneTime!Codes = Codes
BY DEF OneTime!Codes, Codes

\* What a step must leave alone to be no step of OneTimeCodes.
LEMMA QuietStep ==
    ASSUME UNCHANGED <<email, number>>,
           \A c \in Codes : /\ code'[c].target = code[c].target
                            /\ code'[c].state = code[c].state \/ {code[c].state, code'[c].state} = {"cooling", "open"}
    PROVE  UNCHANGED OneTime!vars
<1>1. SentTo' = SentTo /\ Unspent' = Unspent /\ Used' = Used
  BY DEF SentTo, Unspent, Used
<1> QED BY <1>1 DEF OneTime!vars

\* A step that ends or uses a code, or changes nothing of codes and accounts.
LEMMA CodeSteps ==
    ASSUME TypeOK, CodeCalls,
           \/ \E r \in Requests : RequestCreate(r)
           \/ \E v \in Verifies : VerifyWrong(v) \/ VerifyRight(v)
           \/ \E c \in Codes : Age(c)
    PROVE  OneTime!Next \/ UNCHANGED OneTime!vars
<1>1. /\ code \in [Codes -> CodeRows] /\ verify \in [Verifies -> VerifyCalls]
      /\ \A r \in Requests : request[r].step # "idle" => request[r].target \in Targets
      /\ \A v \in Verifies : verify[v].step # "idle" => verify[v].target \in Targets
      /\ Nowhere \notin Targets
  BY SignInAssumption DEF TypeOK
<1>2. \A c \in Codes : code[c].target = Nowhere <=> code[c].state = "none"
  BY DEF CodeCalls
<1> HIDE DEF Targets
<1>3. ASSUME NEW r \in Requests, RequestCreate(r) PROVE OneTime!Next
  <2> DEFINE t == request[r].target
             row == [target |-> t, purpose |-> request[r].purpose,
                     state |-> "cooling", attempts |-> 0]
  <2>1. t \in Targets /\ row.target = t /\ row.state = "cooling"
    BY <1>1, <1>3 DEF RequestCreate
  <2>2. PICK c \in NextCodes : code' = [code EXCEPT ![c] = row]
    BY <1>3 DEF RequestCreate
  <2>3. c \in Codes /\ code[c].state = "none" /\ \A d \in 1..(c - 1) : code[d].state # "none"
    BY DEF NextCodes
  <2> HIDE DEF row, t
  <2>4. code'[c] = row /\ \A d \in Codes \ {c} : code'[d] = code[d]
    BY <1>1, <2>2, <2>3
  <2>5. SentTo[c] = Nowhere /\ \A d \in 1..(c - 1) : SentTo[d] # Nowhere
    <3>1. 1..(c - 1) \subseteq Codes
      BY <2>3, SignInAssumption DEF Codes
    <3> QED BY <1>2, <2>3, <3>1 DEF SentTo
  <2>6. SentTo' = [SentTo EXCEPT ![c] = t]
    BY <2>1, <2>3, <2>4 DEF SentTo
  <2>7. Unspent' = Unspent \cup {c}
    BY <2>1, <2>3, <2>4 DEF Unspent
  <2>8. Used' = Used
    BY <2>1, <2>3, <2>4 DEF Used
  <2>9. UNCHANGED <<email, number>>
    BY <1>3 DEF RequestCreate
  <2>10. OneTime!Send(c, t)
    BY <2>5, <2>6, <2>7, <2>8, <2>9 DEF OneTime!Send
  <2> QED BY <2>1, <2>3, <2>10, SameCodes DEF OneTime!Next, Targets
<1>4. ASSUME NEW v \in Verifies, VerifyWrong(v) PROVE UNCHANGED OneTime!vars
  <2>1. PICK c \in Codes : code' = [code EXCEPT ![c].attempts = @ + 1]
    BY <1>4 DEF VerifyWrong, CodeCalls
  <2>2. \A d \in Codes : code'[d].target = code[d].target /\ code'[d].state = code[d].state
    BY <1>1, <2>1 DEF CodeRows
  <2>3. UNCHANGED <<email, number>>
    BY <1>4 DEF VerifyWrong
  <2> QED BY <2>2, <2>3, QuietStep
<1>5. ASSUME NEW v \in Verifies, VerifyRight(v) PROVE OneTime!Next
  <2>1. PICK c \in Codes : c = verify[v].code /\ code[c].target = verify[v].target
    BY <1>5 DEF VerifyRight, CodeCalls
  <2>2. code' = [code EXCEPT ![c].state = "used"] /\ UNCHANGED <<email, number>>
    BY <1>5, <2>1 DEF VerifyRight
  <2>3. /\ code'[c].target = code[c].target /\ code'[c].state = "used"
        /\ \A d \in Codes \ {c} : code'[d] = code[d]
    BY <1>1, <2>2 DEF CodeRows
  <2>4. SentTo[c] # Nowhere
    BY <1>1, <1>5, <2>1 DEF SentTo, VerifyRight
  <2>5. SentTo' = SentTo /\ Used' = Used \cup {c} /\ Unspent' = Unspent \ {c}
    BY <2>3 DEF SentTo, Used, Unspent
  <2>6. OneTime!Use(c)
    BY <2>2, <2>4, <2>5 DEF OneTime!Use
  <2> QED BY <2>6, SameCodes DEF OneTime!Next
<1>6. ASSUME NEW c \in Codes, Age(c) PROVE OneTime!Next \/ UNCHANGED OneTime!vars
  <2>1. /\ code[c].state \in {"cooling", "open"} /\ UNCHANGED <<email, number>>
        /\ code'[c].target = code[c].target
        /\ code'[c].state = IF code[c].state = "cooling" THEN "open" ELSE "expired"
        /\ \A d \in Codes \ {c} : code'[d] = code[d]
    BY <1>1, <1>6 DEF Age, CodeRows
  <2>2. CASE code[c].state = "cooling"
    BY <2>1, <2>2, QuietStep
  <2>3. CASE code[c].state = "open"
    <3>1. SentTo' = SentTo /\ Used' = Used /\ Unspent' = Unspent \ {c}
      BY <2>1, <2>3 DEF SentTo, Used, Unspent
    <3>2. OneTime!Expire(c)
      BY <2>1, <3>1 DEF OneTime!Expire
    <3> QED BY <3>2, SameCodes DEF OneTime!Next
  <2> QED BY <2>1, <2>2, <2>3
<1> QED BY <1>3, <1>4, <1>5, <1>6

\* Each step of SignIn is a step of OneTimeCodes, or changes nothing of it.
LEMMA NextCodeBook ==
    ASSUME TypeOK, CodeCalls, [Next]_vars
    PROVE  OneTime!Next \/ UNCHANGED OneTime!vars
<1>1. ASSUME UNCHANGED code PROVE SentTo' = SentTo /\ Unspent' = Unspent /\ Used' = Used
  BY <1>1 DEF SentTo, Unspent, Used
<1>2. ASSUME UNCHANGED <<email, number, code>> PROVE UNCHANGED OneTime!vars
  BY <1>1, <1>2 DEF OneTime!vars
<1>3. ASSUME NEW v \in Verifies, VerifyCreate(v) PROVE OneTime!Next \/ UNCHANGED OneTime!vars
  <2> DEFINE t == verify[v].target
  <2>1. UNCHANGED code
    BY <1>3 DEF VerifyCreate
  <2>2. OneTime!Entitled(t)
    <3>1. PICK c \in Codes : code[c].target = t /\ code[c].state = "used"
      BY <1>3 DEF VerifyCreate, CodeCalls
    <3>2. c \in Used /\ SentTo[c] = t
      BY <3>1 DEF Used, SentTo
    <3> QED BY <3>2 DEF OneTime!Entitled
  <2>3. t \in Targets
    BY <1>3 DEF VerifyCreate, TypeOK
  <2>4. CASE UNCHANGED <<email, number>>
    BY <1>2, <2>1, <2>4
  <2>5. ASSUME NEW a \in Accounts, Vacant(a), t \in Emails, email' = [email EXCEPT ![a] = t],
               UNCHANGED number
        PROVE  OneTime!Next
    <3>1. OneTime!OpenAtEmail(a, t)
      BY <1>1, <2>1, <2>2, <2>5 DEF OneTime!OpenAtEmail, Vacant
    <3> QED BY <2>5, <3>1 DEF OneTime!Next
  <2>6. ASSUME NEW a \in Accounts, Vacant(a), t \in Numbers, AccountsAt(t) = {},
               number' = [number EXCEPT ![a] = t], UNCHANGED email
        PROVE  OneTime!Next
    <3>1. \A b \in Accounts : number[b] # t
      BY <2>6, SignInAssumption DEF AccountsAt
    <3>2. OneTime!TakeNumber(a, t)
      BY <1>1, <2>1, <2>2, <2>6, <3>1 DEF OneTime!TakeNumber
    <3> QED BY <2>6, <3>2 DEF OneTime!Next
  <2> QED BY <1>3, <2>3, <2>4, <2>5, <2>6 DEF VerifyCreate
<1>4. ASSUME NEW a \in Accounts, NEW n \in Numbers, SetNumber(a, n) PROVE OneTime!Next
  <2>1. OneTime!TakeNumber(a, n)
    BY <1>1, <1>4 DEF SetNumber, Vacant, OneTime!TakeNumber
  <2> QED BY <2>1 DEF OneTime!Next
<1>5. ASSUME \/ \E r \in Requests : \/ \E t \in Targets, asked \in Asked : RequestStart(r, t, asked)
                                    \/ RequestCheck(r) \/ RequestDies(r)
             \/ \E v \in Verifies : \/ \E t \in Targets, asked \in Asked : VerifyStart(v, t, asked)
                                    \/ VerifyFind(v) \/ VerifyRefuse(v) \/ VerifyCustomer(v)
                                    \/ VerifyDies(v)
             \/ UNCHANGED vars
      PROVE  UNCHANGED OneTime!vars
  <2>1. UNCHANGED <<email, number, code>>
    BY <1>5 DEF RequestStart, RequestCheck, RequestDies, VerifyStart, VerifyFind, VerifyRefuse,
                VerifyCustomer, VerifyDies, vars
  <2> QED BY <1>2, <2>1
<1> QED BY <1>3, <1>4, <1>5, CodeSteps DEF Next

\* SignIn implements OneTimeCodes: however calls overlap or die, no account is
\* opened without a code sent to its address, and no spent code is valid again.
THEOREM CodesOpenAccounts == Spec => CodesSpec
<1>1. Init => OneTime!Init
  <2> SUFFICES ASSUME Init PROVE OneTime!Init
    OBVIOUS
  <2>1. \A c \in Codes : code[c].target = Nowhere /\ code[c].state = "none"
    BY DEF Init, NoCode
  <2>2. SentTo = [c \in OneTime!Codes |-> Nowhere] /\ Unspent = {} /\ Used = {}
    BY <2>1, SameCodes DEF SentTo, Unspent, Used
  <2>3. PICK seeded \in SUBSET Accounts, e \in Emails, n \in Numbers :
            /\ Cardinality(seeded) <= 1
            /\ email = [a \in Accounts |-> IF a \in seeded THEN e ELSE Nowhere]
            /\ number = [a \in Accounts |-> IF a \in seeded THEN n ELSE Nowhere]
    BY DEF Init
  <2>4. \A a, b \in seeded : a = b
    <3>1. IsFiniteSet(seeded)
      BY SignInAssumption, SubsetCounts
    <3> QED BY <2>3, <3>1, LoneElement
  <2> QED BY <2>2, <2>3, <2>4 DEF OneTime!Init
<1>2. TypeOK /\ CodeCalls /\ [Next]_vars => [OneTime!Next]_(OneTime!vars)
  BY NextCodeBook
<1>3. TypeOK /\ CodeCalls /\ [Next]_vars => CodeCalls'
  BY CodeCallsStep
<1> QED BY <1>1, <1>2, <1>3, CodeCallsStart, TypeCorrect, PTL DEF Spec, CodesSpec, OneTime!Spec
=============================================================================
