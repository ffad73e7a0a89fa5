-------------------------- MODULE Portfolio_proofs --------------------------
(***************************************************************************)
(* Proofs about Portfolio.  The first part is about sums over finite sets, *)
(* in which the figures of the views are stated; the second about the      *)
(* tables; the third proves the properties from both.                      *)
(***************************************************************************)
EXTENDS Portfolio, FiniteSetTheorems, WellFoundedInduction, TLAPS

-----------------------------------------------------------------------------
(* Induction over the subsets of a finite set *)

\* A set P of subsets that contains each subset of A all of whose own strict
\* subsets it contains, contains them all: no counterexample is minimal.
LEMMA SubsetInduction ==
    ASSUME NEW A, IsFiniteSet(A), NEW P,
           \A B \in SUBSET A : (\A C \in SUBSET B : C # B => C \in P) => B \in P
    PROVE  \A B \in SUBSET A : B \in P
<1> DEFINE Bad == {B \in SUBSET A : B \notin P}
<1> SUFFICES ASSUME Bad # {} PROVE FALSE
  OBVIOUS
<1>1. Bad \subseteq FiniteSubsetsOf(A)
  BY FS_FiniteSubsetsOfFinite
<1>2. PICK B \in Bad : \A C \in Bad : ~ (<<C, B>> \in StrictSubsetOrdering(A))
  <2> HIDE DEF Bad
  <2> QED
    BY <1>1, FS_StrictSubsetOrderingWellFounded, WFMin
<1>3. \A C \in SUBSET B : C # B => C \in P
  <2> SUFFICES ASSUME NEW C \in SUBSET B, C # B, C \notin P PROVE FALSE
    OBVIOUS
  <2> C \in SUBSET A
    OBVIOUS
  <2> <<C, B>> \in StrictSubsetOrdering(A)
    BY DEF StrictSubsetOrdering
  <2> QED
    BY <1>2
<1> QED
  BY <1>3

\* The usual form: from the empty set, one element at a time.
LEMMA SetInduction ==
    ASSUME NEW A, IsFiniteSet(A), NEW P, {} \in P,
           \A B \in SUBSET A : \A x \in B : B \ {x} \in P => B \in P
    PROVE  A \in P
<1>1. ASSUME NEW B \in SUBSET A, \A C \in SUBSET B : C # B => C \in P PROVE B \in P
  <2>1. CASE B = {}
    BY <2>1
  <2>2. CASE B # {}
    <3> PICK x \in B : TRUE
      BY <2>2
    <3> B \ {x} \in SUBSET B /\ B \ {x} # B
      OBVIOUS
    <3> QED
      BY <1>1
  <2> QED
    BY <2>1, <2>2
<1>2. \A B \in SUBSET A : B \in P
  BY <1>1, SubsetInduction
<1> QED
  BY <1>2

-----------------------------------------------------------------------------
(* Sums over finite sets *)

\* SumOf takes one element after the other; g is the recursive function on the
\* subsets of A by which it does so, and f gives the terms.
Pick(s) == CHOOSE x \in s : TRUE
Sums(f, A, g) == g = [s \in SUBSET A |-> IF s = {} THEN 0 ELSE f[Pick(s)] + g[s \ {Pick(s)}]]

SumOver(f, A) == SumOf([x \in A |-> f[x]])

LEMMA SumIsFold ==
    ASSUME NEW f
    PROVE  SumOf(f) = (CHOOSE g : Sums(f, DOMAIN f, g))[DOMAIN f]
BY DEF SumOf, MapThenSumSet, MapThenFoldSet, Sums, Pick

LEMMA SumsEqual ==
    ASSUME NEW f, NEW A, NEW g, Sums(f, A, g), NEW s \in SUBSET A
    PROVE  g[s] = IF s = {} THEN 0 ELSE f[Pick(s)] + g[s \ {Pick(s)}]
<1> DEFINE G == [u \in SUBSET A |-> IF u = {} THEN 0 ELSE f[Pick(u)] + g[u \ {Pick(u)}]]
<1>1. g = G
  BY DEF Sums
<1>2. G[s] = IF s = {} THEN 0 ELSE f[Pick(s)] + g[s \ {Pick(s)}]
  OBVIOUS
<1> HIDE DEF G
<1> QED
  BY <1>1, <1>2

LEMMA PickIn ==
    ASSUME NEW s, s # {}
    PROVE  Pick(s) \in s
BY DEF Pick

\* The recursion has one solution, whatever the terms outside the set.
LEMMA SumsUnique ==
    ASSUME NEW A, IsFiniteSet(A), NEW B \in SUBSET A,
           NEW f, NEW h, \A x \in B : f[x] = h[x],
           NEW g, NEW k, Sums(f, A, g), Sums(h, B, k)
    PROVE  g[B] = k[B]
<1> DEFINE P == {s \in SUBSET B : g[s] = k[s]}
<1>1. IsFiniteSet(B)
  BY FS_Subset
<1>2. ASSUME NEW s \in SUBSET B, \A u \in SUBSET s : u # s => u \in P PROVE s \in P
  <2>1. /\ g[s] = IF s = {} THEN 0 ELSE f[Pick(s)] + g[s \ {Pick(s)}]
        /\ k[s] = IF s = {} THEN 0 ELSE h[Pick(s)] + k[s \ {Pick(s)}]
    <3> s \in SUBSET A
      OBVIOUS
    <3> QED
      BY SumsEqual
  <2>2. CASE s # {}
    <3>1. Pick(s) \in s
      BY <2>2, PickIn
    <3>2. s \ {Pick(s)} \in P
      BY <1>2, <3>1
    <3> QED
      BY <2>1, <2>2, <3>1, <3>2
  <2> QED
    BY <2>1, <2>2
<1>3. \A s \in SUBSET B : s \in P
  <2> HIDE DEF P
  <2> QED
    BY <1>1, <1>2, SubsetInduction
<1> QED
  BY <1>3

LEMMA SumsExist ==
    ASSUME NEW A, IsFiniteSet(A), NEW f
    PROVE  \E g : Sums(f, A, g)
<1> DEFINE P == {s \in SUBSET A : \E g : Sums(f, s, g)}
<1>1. ASSUME NEW B \in SUBSET A, \A u \in SUBSET B : u # B => u \in P PROVE B \in P
  <2> DEFINE Of(u) == CHOOSE g : Sums(f, u, g)
             Rest(s) == s \ {Pick(s)}
             G == [s \in SUBSET B |-> IF s = {} THEN 0 ELSE f[Pick(s)] + Of(Rest(s))[Rest(s)]]
  <2>1. ASSUME NEW s \in SUBSET B, s # {} PROVE Sums(f, Rest(s), Of(Rest(s))) /\ Rest(s) \in SUBSET s
    <3>1. Rest(s) \in SUBSET B /\ Rest(s) # B /\ Rest(s) \in SUBSET s
      BY <2>1, PickIn
    <3>2. \E g : Sums(f, Rest(s), g)
      BY <1>1, <3>1
    <3> HIDE DEF Rest
    <3> QED
      BY <3>1, <3>2
  <2>2. ASSUME NEW s \in SUBSET B, s # {} PROVE G[Rest(s)] = Of(Rest(s))[Rest(s)]
    <3> DEFINE t == Rest(s)
    <3>1. t \in SUBSET B /\ Sums(f, t, Of(t)) /\ t \in SUBSET t
      BY <2>1, <2>2
    <3>2. Of(t)[t] = IF t = {} THEN 0 ELSE f[Pick(t)] + Of(t)[Rest(t)]
      <4> HIDE DEF t, Of
      <4> QED
        BY <3>1, SumsEqual
    <3>3. G[t] = IF t = {} THEN 0 ELSE f[Pick(t)] + Of(Rest(t))[Rest(t)]
      <4> HIDE DEF t, Of, Rest
      <4> QED
        BY <3>1
    <3>4. ASSUME t # {} PROVE Of(t)[Rest(t)] = Of(Rest(t))[Rest(t)]
      <4> HIDE DEF t
      <4>1. Sums(f, Rest(t), Of(Rest(t))) /\ Rest(t) \in SUBSET t
        BY <2>1, <3>1, <3>4
      <4>2. IsFiniteSet(t)
        BY <3>1, FS_Subset
      <4> HIDE DEF Of, Rest
      <4> QED
        BY <3>1, <4>1, <4>2, SumsUnique
    <3>5. G[t] = Of(t)[t]
      <4> HIDE DEF t, G, Of, Rest
      <4> QED
        BY <3>2, <3>3, <3>4
    <3> QED
      BY <3>5
  <2>3. G = [s \in SUBSET B |-> IF s = {} THEN 0 ELSE f[Pick(s)] + G[Rest(s)]]
    <3>1. \A s \in SUBSET B : G[s] = IF s = {} THEN 0 ELSE f[Pick(s)] + G[Rest(s)]
      <4> SUFFICES ASSUME NEW s \in SUBSET B
                   PROVE  G[s] = IF s = {} THEN 0 ELSE f[Pick(s)] + G[Rest(s)]
        OBVIOUS
      <4>1. G[s] = IF s = {} THEN 0 ELSE f[Pick(s)] + Of(Rest(s))[Rest(s)]
        <5> HIDE DEF Of, Rest
        <5> QED
          OBVIOUS
      <4> HIDE DEF G, Of, Rest
      <4> QED
        BY <4>1, <2>2
    <3>2. DOMAIN G = SUBSET B /\ G = [s \in SUBSET B |-> G[s]]
      OBVIOUS
    <3> HIDE DEF G, Rest
    <3> QED
      BY <3>1, <3>2
  <2>4. Sums(f, B, G)
    <3> HIDE DEF G
    <3> QED
      BY <2>3 DEF Sums
  <2> QED
    BY <2>4
<1>2. \A B \in SUBSET A : B \in P
  <2> HIDE DEF P
  <2> QED
    BY <1>1, SubsetInduction
<1> QED
  BY <1>2

LEMMA SumOverEqual ==
    ASSUME NEW A, IsFiniteSet(A), NEW f, NEW g, Sums(f, A, g)
    PROVE  SumOver(f, A) = g[A]
<1> DEFINE h == [x \in A |-> f[x]]
           k == CHOOSE k : Sums(h, DOMAIN h, k)
<1>1. DOMAIN h = A /\ \A x \in A : f[x] = h[x]
  OBVIOUS
<1>2. Sums(h, A, k)
  <2> HIDE DEF h
  <2>1. \E q : Sums(h, A, q)
    BY SumsExist
  <2> QED
    BY <1>1, <2>1
<1>3. SumOf(h) = k[A]
  <2> HIDE DEF h
  <2> QED
    BY <1>1, SumIsFold
<1>4. g[A] = k[A]
  <2> HIDE DEF h, k
  <2> A \in SUBSET A
    OBVIOUS
  <2> QED
    BY <1>1, <1>2, SumsUnique
<1>5. SumOver(f, A) = SumOf(h)
  BY DEF SumOver
<1> QED
  BY <1>3, <1>4, <1>5

\* What sums are, as two equations.
LEMMA SumStep ==
    ASSUME NEW A, IsFiniteSet(A), NEW f
    PROVE  SumOver(f, A) = IF A = {} THEN 0 ELSE f[Pick(A)] + SumOver(f, A \ {Pick(A)})
<1>1. PICK g : Sums(f, A, g)
  BY SumsExist
<1>2. SumOver(f, A) = g[A]
  BY <1>1, SumOverEqual
<1>3. g[A] = IF A = {} THEN 0 ELSE f[Pick(A)] + g[A \ {Pick(A)}]
  <2> A \in SUBSET A
    OBVIOUS
  <2> QED
    BY <1>1, SumsEqual
<1>4. SumOver(f, A \ {Pick(A)}) = g[A \ {Pick(A)}]
  <2> DEFINE B == A \ {Pick(A)}
  <2>1. IsFiniteSet(B) /\ B \in SUBSET A
    BY FS_Subset
  <2> HIDE DEF B
  <2>2. PICK k : Sums(f, B, k)
    BY <2>1, SumsExist
  <2>3. g[B] = k[B]
    BY <1>1, <2>1, <2>2, SumsUnique
  <2>4. SumOver(f, B) = k[B]
    BY <2>1, <2>2, SumOverEqual
  <2>5. SumOver(f, B) = g[B]
    BY <2>3, <2>4
  <2> QED
    BY <2>5 DEF B
<1> QED
  BY <1>2, <1>3, <1>4

\* The sum of numbers is a number.
LEMMA SumNat ==
    ASSUME NEW A, IsFiniteSet(A), NEW f, \A x \in A : f[x] \in Nat
    PROVE  SumOver(f, A) \in Nat
<1> DEFINE P == {B \in SUBSET A : SumOver(f, B) \in Nat}
<1>1. ASSUME NEW B \in SUBSET A, \A C \in SUBSET B : C # B => C \in P PROVE B \in P
  <2>1. IsFiniteSet(B)
    BY FS_Subset
  <2>2. SumOver(f, B) = IF B = {} THEN 0 ELSE f[Pick(B)] + SumOver(f, B \ {Pick(B)})
    BY <2>1, SumStep
  <2>3. CASE B # {}
    <3> Pick(B) \in B
      BY <2>3, PickIn
    <3> B \ {Pick(B)} \in P
      BY <1>1
    <3> QED
      BY <2>2, <2>3
  <2> QED
    BY <2>2, <2>3
<1>2. \A B \in SUBSET A : B \in P
  <2> HIDE DEF P
  <2> QED
    BY <1>1, SubsetInduction
<1> QED
  BY <1>2

\* Terms may be taken in any order.
LEMMA SumRemove ==
    ASSUME NEW A, IsFiniteSet(A), NEW f, \A x \in A : f[x] \in Nat, NEW x \in A
    PROVE  SumOver(f, A) = f[x] + SumOver(f, A \ {x})
<1> DEFINE P == {B \in SUBSET A : \A y \in B : SumOver(f, B) = f[y] + SumOver(f, B \ {y})}
<1>1. ASSUME NEW B \in SUBSET A, \A C \in SUBSET B : C # B => C \in P PROVE B \in P
  <2> SUFFICES ASSUME NEW y \in B PROVE SumOver(f, B) = f[y] + SumOver(f, B \ {y})
    OBVIOUS
  <2> DEFINE p == Pick(B)
  <2>1. p \in B
    BY PickIn
  <2> HIDE DEF p
  <2>2. IsFiniteSet(B) /\ IsFiniteSet(B \ {p}) /\ IsFiniteSet(B \ {y}) /\ IsFiniteSet((B \ {p}) \ {y})
    BY FS_Subset
  <2>3. SumOver(f, B) = f[p] + SumOver(f, B \ {p})
    BY <2>2, SumStep DEF p
  <2>4. CASE y = p
    BY <2>3, <2>4
  <2>5. CASE y # p
    <3>1. B \ {p} \in P /\ B \ {y} \in P
      BY <1>1, <2>1
    <3>2. SumOver(f, B \ {p}) = f[y] + SumOver(f, (B \ {p}) \ {y})
      BY <3>1, <2>5
    <3>3. SumOver(f, B \ {y}) = f[p] + SumOver(f, (B \ {y}) \ {p})
      BY <3>1, <2>1, <2>5
    <3>4. (B \ {y}) \ {p} = (B \ {p}) \ {y}
      OBVIOUS
    <3>5. SumOver(f, (B \ {p}) \ {y}) \in Nat
      BY <2>2, SumNat
    <3> QED
      BY <2>1, <2>3, <3>2, <3>3, <3>4, <3>5
  <2> QED
    BY <2>4, <2>5
<1>2. \A B \in SUBSET A : B \in P
  <2> HIDE DEF P
  <2> QED
    BY <1>1, SubsetInduction
<1> QED
  BY <1>2

LEMMA SumEmpty == \A f : SumOver(f, {}) = 0
BY FS_EmptySet, SumStep

\* Two disjoint sets have the sum of their sums.
LEMMA SumUnion ==
    ASSUME NEW A, IsFiniteSet(A), NEW B, IsFiniteSet(B), A \cap B = {},
           NEW f, \A x \in A \cup B : f[x] \in Nat
    PROVE  SumOver(f, A \cup B) = SumOver(f, A) + SumOver(f, B)
<1> DEFINE P == {C \in SUBSET B : SumOver(f, A \cup C) = SumOver(f, A) + SumOver(f, C)}
<1>1. SumOver(f, A) \in Nat
  BY SumNat
<1>2. {} \in P
  <2> A \cup {} = A
    OBVIOUS
  <2> QED
    BY <1>1, SumEmpty
<1>3. ASSUME NEW C \in SUBSET B, NEW x \in C, C \ {x} \in P PROVE C \in P
  <2>1. IsFiniteSet(C) /\ IsFiniteSet(A \cup C) /\ IsFiniteSet(C \ {x})
    BY FS_Subset, FS_Union
  <2>2. SumOver(f, C) = f[x] + SumOver(f, C \ {x})
    BY <2>1, SumRemove
  <2>3. SumOver(f, A \cup C) = f[x] + SumOver(f, (A \cup C) \ {x})
    BY <2>1, SumRemove
  <2>4. (A \cup C) \ {x} = A \cup (C \ {x})
    OBVIOUS
  <2>5. SumOver(f, C \ {x}) \in Nat
    BY <2>1, SumNat
  <2>6. SumOver(f, A \cup C) = f[x] + SumOver(f, A \cup (C \ {x}))
    BY <2>3, <2>4
  <2>7. SumOver(f, A \cup (C \ {x})) = SumOver(f, A) + SumOver(f, C \ {x})
    BY <1>3
  <2>8. f[x] \in Nat
    OBVIOUS
  <2>9. SumOver(f, A \cup C) = SumOver(f, A) + SumOver(f, C)
    BY <1>1, <2>2, <2>5, <2>6, <2>7, <2>8
  <2> QED
    BY <2>9
<1> HIDE DEF P
<1>4. B \in P
  BY <1>2, <1>3, SetInduction
<1> QED
  BY <1>4 DEF P

LEMMA SumSubset ==
    ASSUME NEW A, IsFiniteSet(A), NEW B \in SUBSET A,
           NEW f, \A x \in A : f[x] \in Nat
    PROVE  SumOver(f, B) <= SumOver(f, A)
<1>1. IsFiniteSet(B) /\ IsFiniteSet(A \ B)
  BY FS_Subset
<1>2. SumOver(f, B \cup (A \ B)) = SumOver(f, B) + SumOver(f, A \ B)
  BY <1>1, SumUnion
<1>3. B \cup (A \ B) = A
  OBVIOUS
<1>4. SumOver(f, B) \in Nat /\ SumOver(f, A \ B) \in Nat
  BY <1>1, SumNat
<1>5. SumOver(f, A) = SumOver(f, B) + SumOver(f, A \ B)
  BY <1>2, <1>3
<1> QED
  BY <1>4, <1>5

LEMMA SumZero ==
    ASSUME NEW I, IsFiniteSet(I), NEW f, \A i \in I : f[i] = 0
    PROVE  SumOver(f, I) = 0
<1> DEFINE P == {J \in SUBSET I : SumOver(f, J) = 0}
<1>1. {} \in P
  BY SumEmpty
<1>2. ASSUME NEW J \in SUBSET I, NEW i \in J, J \ {i} \in P PROVE J \in P
  <2>1. IsFiniteSet(J)
    BY FS_Subset
  <2>2. SumOver(f, J) = f[i] + SumOver(f, J \ {i})
    BY <2>1, SumRemove
  <2> QED
    BY <1>2, <2>2
<1> HIDE DEF P
<1>3. I \in P
  BY <1>1, <1>2, SetInduction
<1> QED
  BY <1>3 DEF P

\* A set of ones adds up to its cardinality.
LEMMA SumOnes ==
    ASSUME NEW A, IsFiniteSet(A), NEW f, \A x \in A : f[x] = 1
    PROVE  SumOver(f, A) = Cardinality(A)
<1> DEFINE P == {B \in SUBSET A : SumOver(f, B) = Cardinality(B)}
<1>1. {} \in P
  BY SumEmpty, FS_EmptySet
<1>2. ASSUME NEW B \in SUBSET A, NEW x \in B, B \ {x} \in P PROVE B \in P
  <2>1. IsFiniteSet(B)
    BY FS_Subset
  <2>2. SumOver(f, B) = f[x] + SumOver(f, B \ {x})
    BY <2>1, SumRemove
  <2>3. Cardinality(B \ {x}) = Cardinality(B) - 1 /\ Cardinality(B) \in Nat
    BY <2>1, FS_RemoveElement, FS_CardinalityType
  <2> QED
    BY <1>2, <2>2, <2>3
<1> HIDE DEF P
<1>3. A \in P
  BY <1>1, <1>2, SetInduction
<1> QED
  BY <1>3 DEF P

LEMMA SumAgree ==
    ASSUME NEW A, IsFiniteSet(A), NEW f, NEW h, \A x \in A : f[x] = h[x]
    PROVE  SumOver(f, A) = SumOver(h, A)
<1> [x \in A |-> f[x]] = [x \in A |-> h[x]]
  OBVIOUS
<1> QED
  BY DEF SumOver

\* A sum may be taken class by class: kind gives each element its class.
LEMMA SumByKind ==
    ASSUME NEW A, IsFiniteSet(A), NEW I, IsFiniteSet(I),
           NEW f, \A x \in A : f[x] \in Nat,
           NEW kind, \A x \in A : kind[x] \in I
    PROVE  SumOver(f, A) = SumOf([i \in I |-> SumOver(f, {x \in A : kind[x] = i})])
<1> DEFINE Kind(B, i) == {x \in B : kind[x] = i}
           h(B) == [i \in I |-> SumOver(f, Kind(B, i))]
           P == {B \in SUBSET A : SumOver(f, B) = SumOver(h(B), I)}
<1>1. {} \in P
  <2>1. \A i \in I : h({})[i] = 0
    <3> \A i : Kind({}, i) = {}
      OBVIOUS
    <3> QED
      BY SumEmpty
  <2> HIDE DEF h
  <2>2. SumOver(h({}), I) = 0
    BY <2>1, SumZero
  <2> QED
    BY <2>2, SumEmpty
<1>2. ASSUME NEW B \in SUBSET A, NEW x \in B, B \ {x} \in P PROVE B \in P
  <2> DEFINE C == B \ {x}
             j == kind[x]
  <2>1. IsFiniteSet(B) /\ IsFiniteSet(C) /\ j \in I
    BY FS_Subset
  <2>2. SumOver(f, B) = f[x] + SumOver(f, C)
    BY <2>1, SumRemove
  <2>3. \A i \in I : /\ IsFiniteSet(Kind(B, i)) /\ h(B)[i] \in Nat
                     /\ IsFiniteSet(Kind(C, i)) /\ h(C)[i] \in Nat
    <3> SUFFICES ASSUME NEW i \in I
                 PROVE  /\ IsFiniteSet(Kind(B, i)) /\ SumOver(f, Kind(B, i)) \in Nat
                        /\ IsFiniteSet(Kind(C, i)) /\ SumOver(f, Kind(C, i)) \in Nat
      OBVIOUS
    <3>1. Kind(B, i) \in SUBSET B /\ Kind(C, i) \in SUBSET C
      OBVIOUS
    <3>2. \A y \in Kind(B, i) \cup Kind(C, i) : f[y] \in Nat
      OBVIOUS
    <3> HIDE DEF Kind, C
    <3>3. IsFiniteSet(Kind(B, i)) /\ IsFiniteSet(Kind(C, i))
      BY <2>1, <3>1, FS_Subset
    <3> QED
      BY <3>2, <3>3, SumNat
  <2>4. h(B)[j] = f[x] + h(C)[j]
    <3>1. x \in Kind(B, j) /\ Kind(C, j) = Kind(B, j) \ {x} /\ \A y \in Kind(B, j) : f[y] \in Nat
      OBVIOUS
    <3>2. IsFiniteSet(Kind(B, j))
      BY <2>1, <2>3
    <3>3. h(B)[j] = SumOver(f, Kind(B, j)) /\ h(C)[j] = SumOver(f, Kind(C, j))
      BY <2>1
    <3> HIDE DEF Kind, C, h, j
    <3>4. SumOver(f, Kind(B, j)) = f[x] + SumOver(f, Kind(B, j) \ {x})
      BY <3>1, <3>2, SumRemove
    <3> QED
      BY <3>1, <3>3, <3>4
  <2>5. \A i \in I \ {j} : h(B)[i] = h(C)[i]
    <3> SUFFICES ASSUME NEW i \in I \ {j} PROVE SumOver(f, Kind(B, i)) = SumOver(f, Kind(C, i))
      OBVIOUS
    <3> Kind(B, i) = Kind(C, i)
      OBVIOUS
    <3> QED
      OBVIOUS
  <2> IsFiniteSet(I \ {j})
    BY FS_Subset
  <2> HIDE DEF h, j
  <2>6. /\ SumOver(h(B), I) = h(B)[j] + SumOver(h(B), I \ {j})
        /\ SumOver(h(C), I) = h(C)[j] + SumOver(h(C), I \ {j})
    <3>1. ASSUME NEW k, \A i \in I : k[i] \in Nat
          PROVE  SumOver(k, I) = k[j] + SumOver(k, I \ {j})
      BY <2>1, <3>1, SumRemove
    <3> HIDE DEF C
    <3> QED
      BY <2>3, <3>1
  <2>7. SumOver(h(B), I \ {j}) = SumOver(h(C), I \ {j})
    <3> HIDE DEF C
    <3> QED
      BY <2>5, SumAgree
  <2>8. SumOver(h(C), I \ {j}) \in Nat
    <3> HIDE DEF C
    <3> \A i \in I \ {j} : h(C)[i] \in Nat
      BY <2>3
    <3> QED
      BY SumNat
  <2>9. SumOver(f, C) = SumOver(h(C), I)
    BY <1>2
  <2> HIDE DEF C
  <2>10. SumOver(f, B) = SumOver(h(B), I)
    <3> f[x] \in Nat /\ h(C)[j] \in Nat
      BY <2>1, <2>3
    <3> QED
      BY <2>2, <2>4, <2>6, <2>7, <2>8, <2>9
  <2> QED
    BY <2>10
<1>3. A \in P
  <2> HIDE DEF P
  <2> QED
    BY <1>1, <1>2, SetInduction
<1>4. SumOver(h(A), I) = SumOf([i \in I |-> SumOver(f, {x \in A : kind[x] = i})])
  <2> [i \in I |-> h(A)[i]] = [i \in I |-> SumOver(f, {x \in A : kind[x] = i})]
    OBVIOUS
  <2> HIDE DEF h
  <2> QED
    BY DEF SumOver
<1> QED
  BY <1>3, <1>4

-----------------------------------------------------------------------------
(* The tables *)

LEMMA SeatParts ==
    \A s \in Seats : /\ s[1] \in Circles /\ s[2] \in 1 .. Duration[s[1]]
                     /\ s = <<s[1], s[2]>> /\ s # <<>>
BY DEF Seats

\* A circle has the seats 1 to Duration, and there are finitely many circles.
LEMMA SeatsFinite == IsFiniteSet(Seats)
<1> DEFINE Of(C) == UNION {{c} \X (1 .. Duration[c]) : c \in C}
           P == {C \in SUBSET Circles : IsFiniteSet(Of(C))}
<1>1. {} \in P
  <2> Of({}) = {}
    OBVIOUS
  <2> QED
    BY FS_EmptySet
<1>2. ASSUME NEW C \in SUBSET Circles, NEW c \in C, C \ {c} \in P PROVE C \in P
  <2>1. Duration[c] \in Int /\ 1 \in Int
    BY PortfolioAssumption
  <2>2. IsFiniteSet({c}) /\ IsFiniteSet(1 .. Duration[c])
    <3>1. IsFiniteSet({c})
      BY FS_Singleton
    <3>2. IsFiniteSet(1 .. Duration[c])
      BY <2>1, FS_Interval
    <3> QED
      BY <3>1, <3>2
  <2>3. IsFiniteSet({c} \X (1 .. Duration[c]))
    BY <2>2, FS_Product
  <2>4. Of(C) = Of(C \ {c}) \cup ({c} \X (1 .. Duration[c]))
    OBVIOUS
  <2>5. IsFiniteSet(Of(C \ {c}))
    BY <1>2
  <2> HIDE DEF Of
  <2>6. IsFiniteSet(Of(C))
    <3> DEFINE D == {c} \X (1 .. Duration[c])
    <3> HIDE DEF D
    <3> IsFiniteSet(Of(C \ {c}) \cup D)
      BY <2>3, <2>5, FS_Union DEF D
    <3> QED
      BY <2>4 DEF D
  <2> QED
    BY <2>6
<1>3. Circles \in P
  <2> HIDE DEF P
  <2> QED
    BY <1>1, <1>2, PortfolioAssumption, SetInduction
<1> QED
  BY <1>3 DEF Seats

LEMMA InitTypes == Init => TypeOK
<1> SUFFICES ASSUME Init PROVE TypeOK
  OBVIOUS
<1>1. \A c \in Circles : {s \in Seats : s[1] = c /\ payout[s] # "NONE"} = {}
  BY DEF Init
<1>2. \A c \in Circles : count[c] = Cardinality({s \in Seats : s[1] = c /\ payout[s] # "NONE"})
  BY <1>1, FS_EmptySet DEF Init
<1>3. 1 \in 1 .. MaxMonth
  BY PortfolioAssumption
<1>4. <<>> \in Seq(InstStatuses) /\ Len(<<>>) = 0
  OBVIOUS
<1>5. \A s \in Seats : Len(inst[s]) = IF payout[s] = "NONE" THEN 0 ELSE Duration[s[1]]
  BY <1>4 DEF Init
<1> QED
  BY <1>2, <1>3, <1>4, <1>5 DEF Init, TypeOK, Statuses, PayoutStatuses

\* The signed seats of a circle, which its member count counts.
Signed(c) == {s \in Seats : s[1] = c /\ payout[s] # "NONE"}

LEMMA SignTypes ==
    ASSUME TypeOK, NEW s \in Seats, Sign(s)
    PROVE  TypeOK'
<1> DEFINE c == s[1]
           all == [i \in 1 .. Duration[c] |-> "PENDING"]
<1>1. c \in Circles /\ Duration[c] \in Nat
  BY SeatParts, PortfolioAssumption
<1>2. all \in Seq(InstStatuses) /\ Len(all) = Duration[c]
  BY <1>1 DEF InstStatuses
<1>3. /\ status' \in [Seats -> Statuses] /\ payout' \in [Seats -> PayoutStatuses]
      /\ count' \in [Circles -> Nat]
  BY <1>1 DEF TypeOK, Sign, Statuses, PayoutStatuses
<1>4. inst' \in [Seats -> Seq(InstStatuses)] /\ inst' = [inst EXCEPT ![s] = all]
  <2> inst' = [inst EXCEPT ![s] = all]
    BY DEF Sign
  <2> HIDE DEF all, c
  <2> QED
    BY <1>2 DEF TypeOK
<1>5. \A t \in Seats :
        /\ holder'[t] = Nobody <=> status'[t] = "NONE"
        /\ Len(inst'[t]) = IF payout'[t] = "NONE" THEN 0 ELSE Duration[t[1]]
        /\ status'[t] = "ACTIVE" => payout'[t] # "NONE"
        /\ status'[t] \in {"NONE", "RESERVED", "LAPSED"} => payout'[t] = "NONE"
  <2> SUFFICES ASSUME NEW t \in Seats
               PROVE  /\ holder'[t] = Nobody <=> status'[t] = "NONE"
                      /\ Len(inst'[t]) = IF payout'[t] = "NONE" THEN 0 ELSE Duration[t[1]]
                      /\ status'[t] = "ACTIVE" => payout'[t] # "NONE"
                      /\ status'[t] \in {"NONE", "RESERVED", "LAPSED"} => payout'[t] = "NONE"
    OBVIOUS
  <2>1. /\ inst'[t] = IF t = s THEN all ELSE inst[t]
        /\ payout'[t] = IF t = s THEN "SCHEDULED" ELSE payout[t]
        /\ status'[t] = IF t = s THEN "ACTIVE" ELSE status[t]
    <3> HIDE DEF all
    <3> QED
      BY <1>4 DEF TypeOK, Sign
  <2> HIDE DEF all
  <2> QED
    BY <1>2, <2>1 DEF TypeOK, Sign
<1>6. \A d \in Circles : count'[d] = Cardinality(Signed(d)')
  <2> SUFFICES ASSUME NEW d \in Circles PROVE count'[d] = Cardinality(Signed(d)')
    OBVIOUS
  <2>1. IsFiniteSet(Signed(d)) /\ count[d] = Cardinality(Signed(d)) /\ count[d] \in Nat
    <3> Signed(d) \in SUBSET Seats
      BY DEF Signed
    <3> QED
      BY SeatsFinite, FS_Subset DEF TypeOK, Signed
  <2>2. CASE d = c
    <3>1. Signed(d)' = Signed(d) \cup {s} /\ s \notin Signed(d)
      BY <2>2 DEF Signed, Sign, TypeOK
    <3>2. Cardinality(Signed(d) \cup {s}) = Cardinality(Signed(d)) + 1
      BY <2>1, <3>1, FS_AddElement
    <3>3. count'[d] = count[d] + 1
      BY <2>2 DEF Sign, TypeOK
    <3> QED
      BY <2>1, <3>1, <3>2, <3>3
  <2>3. CASE d # c
    <3>1. Signed(d)' = Signed(d)
      BY <2>3 DEF Signed, Sign, TypeOK
    <3>2. count'[d] = count[d]
      BY <2>3 DEF Sign, TypeOK
    <3> QED
      BY <2>1, <3>1, <3>2
  <2> QED
    BY <2>2, <2>3
<1> QED
  BY <1>3, <1>4, <1>5, <1>6 DEF TypeOK, Sign, Signed

\* What changes no payout and no count keeps the books of the circles.
LEMMA SameCounts ==
    ASSUME TypeOK, NEW st \in [Seats -> PayoutStatuses], UNCHANGED count,
           payout' = st, \A s \in Seats : st[s] = "NONE" <=> payout[s] = "NONE"
    PROVE  \A c \in Circles : count'[c] = Cardinality({s \in Seats : s[1] = c /\ payout'[s] # "NONE"})
<1> SUFFICES ASSUME NEW c \in Circles
             PROVE  count'[c] = Cardinality({s \in Seats : s[1] = c /\ payout'[s] # "NONE"})
  OBVIOUS
<1> {s \in Seats : s[1] = c /\ payout'[s] # "NONE"} = {s \in Seats : s[1] = c /\ payout[s] # "NONE"}
  OBVIOUS
<1> QED
  BY DEF TypeOK

LEMMA JoinTypes ==
    ASSUME TypeOK, NEW k \in Customers, NEW s \in Seats, NEW t \in Seats,
           StartJoin(k, s) \/ StartJoinBoth(k, s, t)
    PROVE  TypeOK'
<1>1. UNCHANGED <<inst, payout, count, open, month>>
  BY DEF StartJoin, StartJoinBoth, books
<1>2. k # Nobody
  BY PortfolioAssumption
<1>3. /\ holder' \in [Seats -> Customers \cup {Nobody}] /\ status' \in [Seats -> Statuses]
      /\ \A u \in Seats :
           /\ holder'[u] = Nobody <=> status'[u] = "NONE"
           /\ status'[u] = "ACTIVE" => payout[u] # "NONE"
           /\ status'[u] \in {"NONE", "RESERVED", "LAPSED"} => payout[u] = "NONE"
  <2>1. CASE StartJoin(k, s)
    <3>1. status[s] \in {"NONE", "LAPSED"}
      BY <2>1 DEF StartJoin, JoinOutcome, Live, Dead, TypeOK, Statuses
    <3>2. PICK e : LET gone(u) == u = e /\ u # s /\ status[u] = "LAPSED" IN
            /\ holder' = [u \in Seats |-> IF u = s THEN k ELSE IF gone(u) THEN Nobody ELSE holder[u]]
            /\ status' = [u \in Seats |-> IF u = s THEN "RESERVED" ELSE IF gone(u) THEN "NONE" ELSE status[u]]
      BY <2>1 DEF StartJoin
    <3>3. /\ holder \in [Seats -> Customers \cup {Nobody}] /\ status \in [Seats -> Statuses]
          /\ \A u \in Seats :
               /\ holder[u] = Nobody <=> status[u] = "NONE"
               /\ status[u] = "ACTIVE" => payout[u] # "NONE"
               /\ status[u] \in {"NONE", "RESERVED", "LAPSED"} => payout[u] = "NONE"
      BY DEF TypeOK
    <3>4. \A u \in Seats : holder'[u] \in Customers \cup {Nobody} /\ status'[u] \in Statuses
      BY <3>2, <3>3 DEF Statuses
    <3>5. /\ holder' \in [Seats -> Customers \cup {Nobody}]
          /\ status' \in [Seats -> Statuses]
      BY <3>2, <3>4
    <3> QED
      BY <1>2, <3>1, <3>2, <3>3, <3>5
  <2>2. CASE StartJoinBoth(k, s, t)
    BY <1>2, <2>2 DEF StartJoinBoth, TypeOK, Statuses
  <2> QED
    BY <2>1, <2>2
<1> QED
  BY <1>1, <1>3 DEF TypeOK

LEMMA InstalmentTypes ==
    ASSUME TypeOK, NEW x \in Instalments, Pay(x[1], x[2]) \/ FallOverdue(x[1], x[2])
    PROVE  TypeOK'
<1> DEFINE s == x[1]
           i == x[2]
<1>1. s \in Seats /\ i \in DOMAIN inst[s]
  BY DEF Instalments, InstOfSeats
<1>2. PICK st \in InstStatuses : SetInst(s, i, st)
  BY DEF Pay, FallOverdue, InstStatuses
<1> HIDE DEF s, i
<1>3. inst[s] \in Seq(InstStatuses)
  BY <1>1 DEF TypeOK
<1>4. [inst[s] EXCEPT ![i] = st] \in Seq(InstStatuses) /\ Len([inst[s] EXCEPT ![i] = st]) = Len(inst[s])
  BY <1>1, <1>3
<1>5. inst' = [inst EXCEPT ![s] = [inst[s] EXCEPT ![i] = st]]
  BY <1>1, <1>2 DEF SetInst, TypeOK
<1>6. inst' \in [Seats -> Seq(InstStatuses)] /\ \A t \in Seats : Len(inst'[t]) = Len(inst[t])
  BY <1>1, <1>4, <1>5 DEF TypeOK
<1> QED
  BY <1>2, <1>6 DEF TypeOK, SetInst, rows

\* The rows, their instalments, payouts and counts stay consistent.
LEMMA NextTypes == TypeOK /\ [Next]_vars => TypeOK'
<1> SUFFICES ASSUME TypeOK, [Next]_vars PROVE TypeOK'
  OBVIOUS
<1>1. ASSUME NEW k \in Customers, NEW s \in Seats, StartJoin(k, s) PROVE TypeOK'
  BY <1>1, JoinTypes
<1>2. ASSUME NEW k \in Customers, NEW s \in Seats, NEW t \in Seats, StartJoinBoth(k, s, t) PROVE TypeOK'
  BY <1>2, JoinTypes
<1>3. ASSUME NEW s \in Seats, Lapse(s) \/ EndMembership(s) PROVE TypeOK'
  <2>1. UNCHANGED <<holder, inst, payout, count, open, month>>
    BY <1>3 DEF Lapse, EndMembership, SetStatus, books
  <2>2. /\ status' \in [Seats -> Statuses]
        /\ \A u \in Seats :
             /\ holder[u] = Nobody <=> status'[u] = "NONE"
             /\ status'[u] = "ACTIVE" => payout[u] # "NONE"
             /\ status'[u] \in {"NONE", "RESERVED", "LAPSED"} => payout[u] = "NONE"
    <3>1. PICK st \in {"LAPSED", "ENDED"} :
            /\ status[s] # "NONE"
            /\ st = "LAPSED" => status[s] = "RESERVED"
            /\ status' = [status EXCEPT ![s] = st]
      BY <1>3 DEF Lapse, EndMembership, SetStatus
    <3>2. /\ status \in [Seats -> Statuses]
          /\ \A u \in Seats :
               /\ holder[u] = Nobody <=> status[u] = "NONE"
               /\ status[u] = "ACTIVE" => payout[u] # "NONE"
               /\ status[u] \in {"NONE", "RESERVED", "LAPSED"} => payout[u] = "NONE"
      BY DEF TypeOK
    <3> QED
      BY <3>1, <3>2 DEF Statuses
  <2> QED
    BY <2>1, <2>2 DEF TypeOK
<1>4. ASSUME NEW s \in Seats, Sign(s) PROVE TypeOK'
  BY <1>4, SignTypes
<1>5. ASSUME NEW s \in Seats, ConfirmPayout(s) PROVE TypeOK'
  <2>1. UNCHANGED <<rows, inst, count, open, month>>
    BY <1>5 DEF ConfirmPayout
  <2>2. /\ payout' \in [Seats -> PayoutStatuses]
        /\ \A u \in Seats : payout'[u] = "NONE" <=> payout[u] = "NONE"
    BY <1>5 DEF ConfirmPayout, TypeOK, PayoutStatuses
  <2>3. \A c \in Circles : count'[c] = Cardinality({s1 \in Seats : s1[1] = c /\ payout'[s1] # "NONE"})
    BY <2>1, <2>2, SameCounts
  <2> QED
    BY <2>1, <2>2, <2>3 DEF TypeOK, rows
<1>6. ASSUME NEW x \in Instalments, Pay(x[1], x[2]) \/ FallOverdue(x[1], x[2]) PROVE TypeOK'
  BY <1>6, InstalmentTypes
<1>7. ASSUME NEW c \in Circles, Close(c) PROVE TypeOK'
  BY <1>7 DEF Close, TypeOK, rows, books
<1>8. CASE Tick
  <2> month' \in 1 .. MaxMonth
    BY <1>8, PortfolioAssumption DEF Tick, TypeOK
  <2> QED
    BY <1>8 DEF Tick, TypeOK, rows, books
<1>9. CASE UNCHANGED vars
  BY <1>9 DEF TypeOK, vars, rows
<1> QED
  BY <1>1, <1>2, <1>3, <1>4, <1>5, <1>6, <1>7, <1>8, <1>9 DEF Next

\* Every row has its parts: a signed one its instalments, one for each month of
\* the circle, its payout and its place in currentMembersCount, whatever joins,
\* expiries, releases, defaults, signatures and payments came in what order.
THEOREM TypeCorrect == Spec => []TypeOK
BY InitTypes, NextTypes, PTL DEF Spec

-----------------------------------------------------------------------------
(* Amounts *)

Price == [x \in Instalments |-> Contribution[x[1][1]]]
Dues == [s \in Seats |-> Contribution[s[1]]]

LEMMA ObligationSum ==
    ASSUME NEW S \in SUBSET Seats
    PROVE  Obligations(S) = SumOver(Dues, S) /\ Obligations(S) \in Nat /\ IsFiniteSet(S)
<1>1. IsFiniteSet(S)
  BY SeatsFinite, FS_Subset
<1>2. \A s \in S : Dues[s] = Contribution[s[1]] /\ Dues[s] \in Nat
  BY SeatParts, PortfolioAssumption DEF Dues
<1>3. SumOver(Dues, S) \in Nat
  BY <1>1, <1>2, SumNat
<1>4. Obligations(S) = SumOver(Dues, S)
  <2> [s \in S |-> Contribution[s[1]]] = [s \in S |-> Dues[s]]
    BY <1>2
  <2> QED
    BY DEF Obligations, SumOver
<1> QED
  BY <1>1, <1>3, <1>4

LEMMA ObligationNat == \A k : Obligation(k) \in Nat
<1> SUFFICES ASSUME NEW k PROVE Obligation(k) \in Nat
  OBVIOUS
<1> DEFINE S == {s \in RowsOf(k) : Live(s)}
<1>1. S \in SUBSET Seats
  BY DEF RowsOf
<1> HIDE DEF S
<1>2. Obligations(S) \in Nat
  BY <1>1, ObligationSum
<1> QED
  BY <1>2 DEF Obligation, S

-----------------------------------------------------------------------------
(* Offers *)

LEMMA AnyOfSome ==
    ASSUME NEW S
    PROVE  AnyOf(S) # {} /\ (S # {} => AnyOf(S) = S) /\ (S = {} => AnyOf(S) = {<<>>})
BY DEF AnyOf

\* The rows of a customer in a circle; a live one blocks another join.
LEMMA LiveRows ==
    ASSUME NEW k, NEW c, NEW S \in SUBSET (RowsIn(c) \cap RowsOf(k)), NEW e \in AnyOf(S)
    PROVE  LiveRow(e) <=> e \in S /\ Live(e)
<1>1. CASE S = {}
  BY <1>1 DEF AnyOf, LiveRow
<1>2. CASE S # {}
  <2>1. e \in S /\ e # <<>>
    BY <1>2, SeatParts DEF AnyOf, RowsIn
  <2> QED
    BY <2>1 DEF LiveRow
<1> QED
  BY <1>1, <1>2

\* Where there is no live row, join-intent looks only at the other conditions.
LEMMA OffersOf ==
    ASSUME TypeOK, NEW k \in Customers, NEW c \in Circles
    PROVE  LET intent == IntentOutcomes(k, c) IN
           /\ c \in Recommended(k) =>
                intent = {IF HasOverdue(k) THEN "has_overdue_installment" ELSE "ok"}
           /\ intent = {"ok"} =>
                \A s \in Available(c) : JoinOutcomes(k, s) = {IF Dead(s) THEN "position_taken" ELSE "joined"}
           /\ "ok" \notin intent /\ (\E s \in RowsIn(c) : "joined" \in JoinOutcomes(k, s)) =>
                \E s \in RowsIn(c) : holder[s] = k /\ Dead(s)
<1> DEFINE Mine == RowsIn(c) \cap RowsOf(k)
           Found == {s \in Mine : Live(s) \/ status[s] = "LAPSED"}
           fits == Obligation(k) + Contribution[c] <= Limit
<1>1. (Obligation(k) + Contribution[c] > Limit) <=> ~ fits
  BY ObligationNat, PortfolioAssumption
<1>2. IntentOutcomes(k, c) = {IntentOutcome(k, c, e) : e \in AnyOf(Found)}
  BY DEF IntentOutcomes
<1>3. \A s \in RowsIn(c) : s \in Seats /\ s[1] = c /\ JoinOutcomes(k, s) = {JoinOutcome(k, s, e) : e \in AnyOf(Mine)}
  BY DEF JoinOutcomes, RowsIn
<1>4. \A e \in AnyOf(Found) : LiveRow(e) <=> e \in Found /\ Live(e)
  <2> Found \in SUBSET Mine
    OBVIOUS
  <2> HIDE DEF Found
  <2> QED
    BY LiveRows
<1>5. \A e \in AnyOf(Mine) : LiveRow(e) <=> e \in Mine /\ Live(e)
  BY LiveRows
<1> HIDE DEF fits
<1>6. c \in Recommended(k) =>
        IntentOutcomes(k, c) = {IF HasOverdue(k) THEN "has_overdue_installment" ELSE "ok"}
  <2> SUFFICES ASSUME c \in Recommended(k)
               PROVE  IntentOutcomes(k, c) = {IF HasOverdue(k) THEN "has_overdue_installment" ELSE "ok"}
    OBVIOUS
  <2>1. c \in Browsable /\ Found = {} /\ fits
    BY DEF Recommended, fits
  <2>2. AnyOf(Found) = {<<>>} /\ ~ LiveRow(<<>>)
    BY <2>1 DEF AnyOf, LiveRow
  <2>3. IntentOutcome(k, c, <<>>) = IF HasOverdue(k) THEN "has_overdue_installment" ELSE "ok"
    BY <1>1, <2>1, <2>2 DEF IntentOutcome
  <2> HIDE DEF Found
  <2> QED
    BY <1>2, <2>2, <2>3
<1>7. IntentOutcomes(k, c) = {"ok"} =>
        \A s \in Available(c) : JoinOutcomes(k, s) = {IF Dead(s) THEN "position_taken" ELSE "joined"}
  <2> SUFFICES ASSUME IntentOutcomes(k, c) = {"ok"}, NEW s \in Available(c)
               PROVE  JoinOutcomes(k, s) = {IF Dead(s) THEN "position_taken" ELSE "joined"}
    OBVIOUS
  <2>1. \A e \in AnyOf(Found) : IntentOutcome(k, c, e) = "ok"
    <3> HIDE DEF Found
    <3> QED
      BY <1>2
  <2>2. PICK e0 \in AnyOf(Found) : TRUE
    <3> HIDE DEF Found
    <3> QED
      BY AnyOfSome
  <2>3. ~ HasOverdue(k) /\ c \in Browsable /\ fits
    <3> HIDE DEF Found
    <3> QED
      BY <1>1, <2>1, <2>2 DEF IntentOutcome
  <2>4. \A e \in Mine : ~ Live(e)
    <3> SUFFICES ASSUME NEW e \in Mine, Live(e) PROVE FALSE
      OBVIOUS
    <3>1. e \in Found /\ e \in AnyOf(Found)
      BY DEF AnyOf
    <3> HIDE DEF Found
    <3>2. IntentOutcome(k, c, e) # "ok"
      BY <1>4, <3>1 DEF IntentOutcome
    <3> QED
      BY <2>1, <3>1, <3>2
  <2>5. s \in RowsIn(c) /\ ~ Live(s)
    BY DEF Available
  <2>6. \A e \in AnyOf(Mine) : JoinOutcome(k, s, e) = IF Dead(s) THEN "position_taken" ELSE "joined"
    <3> HIDE DEF Mine
    <3> QED
      BY <1>1, <1>3, <1>5, <2>3, <2>4, <2>5 DEF JoinOutcome
  <2>7. AnyOf(Mine) # {}
    <3> HIDE DEF Mine
    <3> QED
      BY AnyOfSome
  <2> HIDE DEF Mine
  <2> QED
    BY <1>3, <2>5, <2>6, <2>7
<1>8. ASSUME "ok" \notin IntentOutcomes(k, c), NEW s \in RowsIn(c), "joined" \in JoinOutcomes(k, s)
      PROVE  \E t \in RowsIn(c) : holder[t] = k /\ Dead(t)
  <2>1. PICK e \in AnyOf(Mine) : JoinOutcome(k, s, e) = "joined"
    <3> HIDE DEF Mine
    <3> QED
      BY <1>3, <1>8
  <2>2. ~ HasOverdue(k) /\ c \in Browsable /\ fits /\ ~ LiveRow(e)
    BY <1>1, <1>3, <2>1 DEF JoinOutcome
  <2>3. \A d \in AnyOf(Found) : LiveRow(d)
    <3> HIDE DEF Found
    <3>1. \A d \in AnyOf(Found) : IntentOutcome(k, c, d) # "ok"
      BY <1>2, <1>8
    <3> QED
      BY <1>1, <2>2, <3>1 DEF IntentOutcome
  <2>4. PICK d \in Found : Live(d)
    <3> HIDE DEF Found
    <3> QED
      BY <1>4, <2>3, AnyOfSome
  <2>5. e \in Mine /\ ~ Live(e)
    <3> d \in Mine
      OBVIOUS
    <3> HIDE DEF Mine
    <3> QED
      BY <1>5, <2>2, AnyOfSome
  <2>6. status[e] # "LAPSED"
    <3> SUFFICES ASSUME status[e] = "LAPSED" PROVE FALSE
      OBVIOUS
    <3>1. e \in Found /\ e \in AnyOf(Found)
      BY <2>5 DEF AnyOf
    <3> HIDE DEF Found
    <3> QED
      BY <2>3, <2>2, <3>1
  <2>7. status[e] # "NONE" /\ status[e] \in Statuses /\ holder[e] = k /\ e \in RowsIn(c)
    BY <2>5, PortfolioAssumption DEF RowsIn, RowsOf, TypeOK
  <2>8. Dead(e)
    BY <2>5, <2>6, <2>7 DEF Live, Dead, Statuses
  <2> QED
    BY <2>7, <2>8
<1> QED
  BY <1>6, <1>7, <1>8

\* Whatever the states of the rows, what home recommends passes join-intent
\* unless an instalment is late, what join-intent passes can be joined unless a
\* dead row is in the way, and startJoin is laxer only over a dead row.
THEOREM OffersAreHonoured == Spec => []OffersHold
<1>1. TypeOK => OffersHold
  BY OffersOf DEF OffersHold
<1> QED
  BY <1>1, TypeCorrect, PTL

-----------------------------------------------------------------------------
(* What is due next *)

\* The least of some numbers.
LEMMA MinOf ==
    ASSUME NEW D \in SUBSET Nat, D # {}
    PROVE  Min(D) \in D /\ \A d \in D : Min(D) <= d
<1> DEFINE R == {ss \in Nat \X Nat : ss[1] < ss[2]}
<1>1. IsWellFoundedOn(R, Nat)
  BY NatLessThanWellFounded DEF OpToRel
<1>2. PICK m \in D : \A d \in D : ~ (<<d, m>> \in R)
  <2> HIDE DEF R
  <2> QED
    BY <1>1, WFMin
<1>3. \A d \in D : m <= d
  <2> SUFFICES ASSUME NEW d \in D, ~ (m <= d) PROVE FALSE
    OBVIOUS
  <2>1. m \in Nat /\ d \in Nat /\ d < m
    OBVIOUS
  <2>2. <<d, m>> \in R
    BY <2>1
  <2> HIDE DEF R
  <2> QED
    BY <1>2, <2>2
<1> QED
  BY <1>3 DEF Min

LEMMA NeverLater == Never \in Nat /\ MaxMonth < Never
<1> DEFINE w(c) == Start[c] + Duration[c]
           W == {w(c) : c \in Circles}
           P == {C \in SUBSET Circles : C # {} => \E c \in C : \A d \in C : w(c) >= w(d)}
<1>1. \A c \in Circles : w(c) \in Nat /\ w(c) > 0
  BY PortfolioAssumption
<1> HIDE DEF w
<1>2. {} \in P
  OBVIOUS
<1>3. ASSUME NEW C \in SUBSET Circles, NEW c \in C, C \ {c} \in P PROVE C \in P
  <2>1. CASE C \ {c} = {}
    <3> C = {c}
      BY <2>1
    <3> QED
      BY <1>1
  <2>2. CASE C \ {c} # {}
    <3>1. PICK b \in C \ {c} : \A d \in C \ {c} : w(b) >= w(d)
      BY <1>3, <2>2
    <3> QED
      BY <1>1, <3>1
  <2> QED
    BY <2>1, <2>2
<1>4. Circles \in P
  <2> HIDE DEF P
  <2> QED
    BY <1>2, <1>3, PortfolioAssumption, SetInduction
<1>5. \E m \in W : \A n \in W : m >= n
  BY <1>4, PortfolioAssumption
<1>6. Max(W) \in W
  <2> HIDE DEF W
  <2> QED
    BY <1>5 DEF Max
<1>7. Max(W) \in Nat /\ Max(W) > 0
  BY <1>1, <1>6
<1>8. Never = MaxMonth + Max(W)
  BY DEF Never, w
<1> QED
  BY <1>7, <1>8, PortfolioAssumption

\* A list with something for every entry of another names no later a month.
LEMMA EarliestIs ==
    ASSUME NEW D \in SUBSET Nat
    PROVE  /\ Earliest(D) \in Nat
           /\ Earliest(D) \in D \cup {Never}
           /\ \A d \in D \cup {Never} : Earliest(D) <= d
<1> D \cup {Never} \in SUBSET Nat /\ D \cup {Never} # {}
  BY NeverLater
<1> HIDE DEF Never
<1> QED
  BY MinOf DEF Earliest

LEMMA EarliestOrder ==
    ASSUME NEW D \in SUBSET Nat, NEW E \in SUBSET Nat, \A e \in E : \E d \in D : d <= e
    PROVE  Earliest(D) <= Earliest(E)
<1>1. /\ Earliest(D) \in Nat /\ \A d \in D \cup {Never} : Earliest(D) <= d
      /\ Earliest(E) \in Nat /\ Earliest(E) \in E \cup {Never}
  BY EarliestIs
<1>2. CASE Earliest(E) = Never
  BY <1>1, <1>2
<1>3. CASE Earliest(E) \in E
  <2> PICK d \in D : d <= Earliest(E)
    BY <1>3
  <2> QED
    BY <1>1
<1> QED
  BY <1>1, <1>2, <1>3

\* An instalment is a seat and one of its cycles.
LEMMA InstalmentParts ==
    ASSUME TypeOK, NEW k, NEW x \in InstOf(k)
    PROVE  /\ x[1] \in RowsOf(k) /\ x[1] \in Seats
           /\ x[2] \in DOMAIN inst[x[1]] /\ x[2] \in Nat /\ x[2] >= 1
           /\ x = <<x[1], x[2]>> /\ inst[x[1]] \in Seq(InstStatuses)
           /\ Status(x) \in InstStatuses /\ Due(x) \in Nat
<1>1. x[1] \in RowsOf(k) /\ x[2] \in DOMAIN inst[x[1]] /\ x = <<x[1], x[2]>>
  BY DEF InstOf, InstOfSeats
<1>2. x[1] \in Seats /\ inst[x[1]] \in Seq(InstStatuses)
  BY <1>1 DEF RowsOf, TypeOK
<1>3. x[2] \in 1 .. Len(inst[x[1]])
  BY <1>1, <1>2
<1>4. Start[x[1][1]] \in Nat
  BY <1>2, SeatParts, PortfolioAssumption
<1> QED
  BY <1>1, <1>2, <1>3, <1>4 DEF Status, Due

\* Of each seat with something unpaid, home shows the first unpaid cycle.
First(k, s) ==
    {x \in With(InstOf(k), Unpaid) : x[1] = s /\ \A i \in 1 .. x[2] - 1 : inst[s][i] = "PAID"}

LEMMA FirstUnpaid ==
    ASSUME TypeOK, NEW k \in Customers, NEW y \in With(InstOf(k), Unpaid)
    PROVE  \E x \in First(k, y[1]) : Due(x) <= Due(y)
<1> DEFINE s == y[1]
           D == {i \in 1 .. y[2] : inst[s][i] # "PAID"}
<1>1. /\ s \in RowsOf(k) /\ s \in Seats /\ y[2] \in DOMAIN inst[s] /\ y[2] \in Nat /\ y[2] >= 1
      /\ inst[s] \in Seq(InstStatuses) /\ Status(y) \in Unpaid /\ Due(y) \in Nat
  <2> y \in InstOf(k) /\ Status(y) \in Unpaid
    BY DEF With
  <2> QED
    BY InstalmentParts
<1>2. D \in SUBSET Nat /\ D # {}
  <2> y[2] \in D
    BY <1>1 DEF Status, Unpaid
  <2> QED
    BY <1>1
<1> DEFINE m == Min(D)
<1>3. m \in D /\ \A d \in D : m <= d
  <2> HIDE DEF D
  <2> QED
    BY <1>2, MinOf
<1> HIDE DEF m
<1>4. m \in 1 .. y[2] /\ m \in DOMAIN inst[s] /\ inst[s][m] \in InstStatuses \ {"PAID"}
  BY <1>1, <1>3
<1>5. \A i \in 1 .. m - 1 : inst[s][i] = "PAID"
  BY <1>1, <1>3, <1>4
<1>6. <<s, m>> \in InstOf(k)
  BY <1>1, <1>4 DEF InstOf, InstOfSeats
<1>7. <<s, m>> \in First(k, s)
  <2>1. Status(<<s, m>>) \in Unpaid
    <3>1. Status(<<s, m>>) = inst[s][m]
      BY DEF Status
    <3> QED
      BY <1>4, <3>1 DEF Unpaid, InstStatuses
  <2>2. <<s, m>> \in With(InstOf(k), Unpaid)
    BY <1>6, <2>1 DEF With
  <2> QED
    BY <1>5, <2>2 DEF First
<1>8. Due(<<s, m>>) <= Due(y)
  <2>1. Start[s[1]] \in Nat
    BY <1>1, SeatParts, PortfolioAssumption
  <2>2. m \in Nat /\ m <= y[2]
    BY <1>1, <1>4
  <2>3. Due(<<s, m>>) = Start[s[1]] + m - 1 /\ Due(y) = Start[s[1]] + y[2] - 1
    BY DEF Due
  <2> HIDE DEF s
  <2> QED
    BY <1>1, <2>1, <2>2, <2>3
<1> QED
  BY <1>7, <1>8

\* The months the four screens choose from.
UnpaidDues(k) == {Due(x) : x \in With(InstOf(k), Unpaid)}
HomeDues(k) == {Due(x) : x \in UNION {First(k, s) : s \in ActiveOf(k)}}
PendingDues(k) == {Due(x) : x \in {y \in With(InstOf(k), {"PENDING"}) : y[1] \in ActiveOf(k)}}
HomePayouts(k) == {PayoutDue(s) : s \in {t \in ActiveOf(k) : payout[t] = "SCHEDULED"}}
AllPayouts(k) == {PayoutDue(s) : s \in {t \in RowsOf(k) : payout[t] = "SCHEDULED"}}

LEMMA Screens ==
    ASSUME TypeOK, NEW k \in Customers
    PROVE  /\ InstOf(k) \ With(InstOf(k), {"PAID"}) = With(InstOf(k), Unpaid)
           /\ Schedule(k).nextDue = Earliest(UnpaidDues(k))
           /\ PaymentHistory(k).nextDue = Earliest(UnpaidDues(k))
           /\ Home(k).nextDue = Earliest(HomeDues(k))
           /\ Home(k).nextPayout = Earliest(HomePayouts(k))
           /\ CustomerHistory(k).nextDue = Earliest(PendingDues(k))
           /\ CustomerHistory(k).nextPayout = Earliest(AllPayouts(k))
<1>1. InstOf(k) \ With(InstOf(k), {"PAID"}) = With(InstOf(k), Unpaid)
  <2> \A x \in InstOf(k) : Status(x) \in InstStatuses
    BY InstalmentParts
  <2> QED
    BY DEF With, Unpaid, InstStatuses
<1>2. Schedule(k).nextDue = Earliest(UnpaidDues(k))
  BY <1>1 DEF Schedule, UnpaidDues
<1> QED
  BY <1>1, <1>2
     DEF PaymentHistory, Home, CustomerHistory, UnpaidDues, HomeDues, PendingDues, HomePayouts,
         AllPayouts, First

LEMMA DuesAreMonths ==
    ASSUME TypeOK, NEW k \in Customers
    PROVE  /\ UnpaidDues(k) \in SUBSET Nat /\ HomeDues(k) \in SUBSET UnpaidDues(k)
           /\ PendingDues(k) \in SUBSET UnpaidDues(k)
           /\ AllPayouts(k) \in SUBSET Nat /\ HomePayouts(k) \in SUBSET AllPayouts(k)
<1>1. \A x \in With(InstOf(k), Unpaid) : Due(x) \in Nat
  BY InstalmentParts DEF With
<1>2. \A s \in Seats : PayoutDue(s) \in Nat
  BY SeatParts, PortfolioAssumption DEF PayoutDue
<1>3. With(InstOf(k), {"PENDING"}) \in SUBSET With(InstOf(k), Unpaid)
  BY DEF With, Unpaid
<1> QED
  BY <1>1, <1>2, <1>3
     DEF UnpaidDues, HomeDues, PendingDues, AllPayouts, HomePayouts, First, ActiveOf, RowsOf

LEMMA NextDueOf ==
    ASSUME TypeOK, NEW k \in Customers
    PROVE  LET unpaid == With(InstOf(k), Unpaid)
               schedule == Schedule(k)
               home == Home(k)
               history == CustomerHistory(k)
           IN
           /\ schedule.nextDue = PaymentHistory(k).nextDue
           /\ schedule.nextDue <= home.nextDue
           /\ home.nextDue <= history.nextDue
           /\ history.nextPayout <= home.nextPayout
           /\ history.nextPayout <= month <=> PayoutQueue \cap RowsOf(k) # {}
           /\ (\A x \in unpaid : x[1] \in ActiveOf(k)) => schedule.nextDue = home.nextDue
           /\ With(unpaid, {"OVERDUE"}) = {} => home.nextDue = history.nextDue
<1> DEFINE U == UnpaidDues(k)
           H == HomeDues(k)
           D == PendingDues(k)
<1>1. /\ U \in SUBSET Nat /\ H \in SUBSET U /\ D \in SUBSET U /\ H \in SUBSET Nat /\ D \in SUBSET Nat
      /\ AllPayouts(k) \in SUBSET Nat /\ HomePayouts(k) \in SUBSET AllPayouts(k)
      /\ HomePayouts(k) \in SUBSET Nat
  BY DuesAreMonths
<1>2. /\ Earliest(U) \in Nat /\ Earliest(H) \in Nat /\ Earliest(D) \in Nat
  BY <1>1, EarliestIs
<1>3. \A n \in Nat : n <= n
  OBVIOUS
<1>4. Earliest(U) <= Earliest(H)
  <2> \A e \in H : \E d \in U : d <= e
    BY <1>1, <1>3
  <2> HIDE DEF U, H
  <2> QED
    BY <1>1, EarliestOrder
<1>5. ASSUME NEW y \in With(InstOf(k), Unpaid), y[1] \in ActiveOf(k)
      PROVE  \E d \in H : d <= Due(y)
  BY <1>5, FirstUnpaid DEF HomeDues
<1>6. Earliest(H) <= Earliest(D)
  <2> \A e \in D : \E d \in H : d <= e
    BY <1>5 DEF PendingDues, With, Unpaid
  <2> HIDE DEF H, D
  <2> QED
    BY <1>1, EarliestOrder
<1>7. Earliest(AllPayouts(k)) <= Earliest(HomePayouts(k))
  <2> \A e \in HomePayouts(k) : \E d \in AllPayouts(k) : d <= e
    BY <1>1, <1>3
  <2> QED
    BY <1>1, EarliestOrder
<1>8. Earliest(AllPayouts(k)) <= month <=> PayoutQueue \cap RowsOf(k) # {}
  <2> DEFINE e == Earliest(AllPayouts(k))
  <2>1. month \in Nat /\ month < Never /\ Never \in Nat
    BY NeverLater, PortfolioAssumption DEF TypeOK
  <2>2. e \in Nat /\ e \in AllPayouts(k) \cup {Never} /\ \A d \in AllPayouts(k) : e <= d
    BY <1>1, EarliestIs
  <2> HIDE DEF e
  <2>3. ASSUME e <= month PROVE PayoutQueue \cap RowsOf(k) # {}
    <3>1. e \in AllPayouts(k)
      BY <2>1, <2>2, <2>3
    <3>2. PICK s \in RowsOf(k) : payout[s] = "SCHEDULED" /\ PayoutDue(s) = e
      BY <3>1 DEF AllPayouts
    <3>3. s \in PayoutQueue
      BY <2>3, <3>2 DEF PayoutQueue, RowsOf
    <3> QED
      BY <3>2, <3>3
  <2>4. ASSUME NEW s \in PayoutQueue \cap RowsOf(k) PROVE e <= month
    <3>1. PayoutDue(s) \in AllPayouts(k) /\ PayoutDue(s) <= month
      BY DEF PayoutQueue, AllPayouts
    <3>2. PayoutDue(s) \in Nat /\ e <= PayoutDue(s)
      BY <1>1, <2>2, <3>1
    <3> QED
      BY <2>1, <2>2, <3>1, <3>2
  <2>5. e <= month <=> PayoutQueue \cap RowsOf(k) # {}
    BY <2>3, <2>4
  <2> QED
    BY <2>5 DEF e
<1>9. ASSUME \A x \in With(InstOf(k), Unpaid) : x[1] \in ActiveOf(k)
      PROVE  Earliest(U) = Earliest(H)
  <2>1. \A e \in U : \E d \in H : d <= e
    BY <1>5, <1>9 DEF UnpaidDues
  <2>2. Earliest(H) <= Earliest(U)
    <3> HIDE DEF U, H
    <3> QED
      BY <1>1, <2>1, EarliestOrder
  <2> QED
    BY <1>2, <1>4, <2>2
<1>10. ASSUME With(With(InstOf(k), Unpaid), {"OVERDUE"}) = {}
       PROVE  Earliest(H) = Earliest(D)
  <2>1. \A e \in H : \E d \in D : d <= e
    <3> SUFFICES ASSUME NEW e \in H PROVE e \in D
      BY <1>1, <1>3
    <3>1. PICK s \in ActiveOf(k) : \E x \in First(k, s) : e = Due(x)
      BY DEF HomeDues
    <3> PICK x \in First(k, s) : e = Due(x)
      BY <3>1
    <3>2. x \in With(InstOf(k), Unpaid) /\ x[1] = s
      BY DEF First
    <3>3. Status(x) = "PENDING" /\ x \in InstOf(k)
      BY <1>10, <3>2 DEF With, Unpaid
    <3> QED
      BY <3>1, <3>2, <3>3 DEF PendingDues, With
  <2>2. Earliest(D) <= Earliest(H)
    <3> HIDE DEF D, H
    <3> QED
      BY <1>1, <2>1, EarliestOrder
  <2> QED
    BY <1>2, <1>6, <2>2
<1> QED
  BY <1>4, <1>6, <1>7, <1>8, <1>9, <1>10, Screens

\* The four screens agree on what is due next, up to what each of them leaves
\* out, for any circles, members and order of payments.
THEOREM DueDatesAgree == Spec => []NextDueAgrees
<1>1. TypeOK => NextDueAgrees
  BY NextDueOf DEF NextDueAgrees
<1> QED
  BY <1>1, TypeCorrect, PTL

-----------------------------------------------------------------------------
(* Rounds *)

LEMMA Partitions ==
    ASSUME TypeOK
    PROVE  /\ \A k : InstOf(k) = {x \in Instalments : holder[x[1]] = k}
           /\ \A c : InstIn(c) = {x \in Instalments : x[1][1] = c}
           /\ \A x \in Instalments :
                /\ x[1] \in Seats /\ holder[x[1]] \in Customers
                /\ x[1][1] \in Circles /\ x[2] \in 1 .. Duration[x[1][1]] /\ x = <<x[1], x[2]>>
                /\ Status(x) \in InstStatuses /\ Due(x) \in Nat
           /\ \A s \in Seats : DOMAIN inst[s] = IF payout[s] = "NONE" THEN {} ELSE 1 .. Duration[s[1]]
<1>1. \A k : InstOf(k) = {x \in Instalments : holder[x[1]] = k}
  BY DEF InstOf, RowsOf, Instalments, InstOfSeats
<1>2. \A c : InstIn(c) = {x \in Instalments : x[1][1] = c}
  BY DEF InstIn, RowsIn, Instalments, InstOfSeats
<1>3. \A s \in Seats : DOMAIN inst[s] = IF payout[s] = "NONE" THEN {} ELSE 1 .. Duration[s[1]]
  <2> SUFFICES ASSUME NEW s \in Seats
               PROVE  DOMAIN inst[s] = IF payout[s] = "NONE" THEN {} ELSE 1 .. Duration[s[1]]
    OBVIOUS
  <2>1. inst[s] \in Seq(InstStatuses) /\ Len(inst[s]) = IF payout[s] = "NONE" THEN 0 ELSE Duration[s[1]]
    BY DEF TypeOK
  <2>2. DOMAIN inst[s] = 1 .. Len(inst[s])
    BY <2>1
  <2> QED
    BY <2>1, <2>2
<1>4. ASSUME NEW x \in Instalments
      PROVE  /\ x[1] \in Seats /\ holder[x[1]] \in Customers
             /\ x[1][1] \in Circles /\ x[2] \in 1 .. Duration[x[1][1]] /\ x = <<x[1], x[2]>>
             /\ Status(x) \in InstStatuses /\ Due(x) \in Nat
  <2>1. x[1] \in Seats /\ x[2] \in DOMAIN inst[x[1]] /\ x = <<x[1], x[2]>>
    BY DEF Instalments, InstOfSeats
  <2>2. payout[x[1]] # "NONE" /\ x[2] \in 1 .. Duration[x[1][1]]
    BY <1>3, <2>1
  <2>3. holder[x[1]] \in Customers
    BY <2>1, <2>2 DEF TypeOK
  <2>4. Status(x) \in InstStatuses /\ Due(x) \in Nat
    BY <1>1, InstalmentParts
  <2> QED
    BY <2>1, <2>2, <2>3, <2>4, SeatParts
<1> QED
  BY <1>1, <1>2, <1>3, <1>4

\* Each instalment is named by two seats of its circle.
LEMMA InstalmentsFinite == TypeOK => IsFiniteSet(Instalments)
<1> SUFFICES ASSUME TypeOK PROVE IsFiniteSet(Instalments)
  OBVIOUS
<1> DEFINE f == [x \in Instalments |-> <<x[1], <<x[1][1], x[2]>>>>]
<1>1. IsFiniteSet(Seats \X Seats)
  BY SeatsFinite, FS_Product
<1>2. \A x \in Instalments : x[1] \in Seats /\ <<x[1][1], x[2]>> \in Seats /\ x = <<x[1], x[2]>>
  BY Partitions DEF Seats
<1>3. f \in [Instalments -> Seats \X Seats]
  BY <1>2
<1>4. \A x, y \in Instalments : f[x] = f[y] => x = y
  BY <1>2
<1>5. f \in Injection(Instalments, Seats \X Seats)
  BY <1>3, <1>4 DEF Injection, IsInjective
<1> HIDE DEF f
<1> QED
  BY <1>1, <1>5, FS_Injection

LEMMA AmountsSum ==
    ASSUME TypeOK, NEW X \in SUBSET Instalments
    PROVE  /\ IsFiniteSet(X) /\ Amounts(X) \in Nat /\ Amounts(X) = SumOver(Price, X)
           /\ \A x \in X : Price[x] \in Nat
<1>1. IsFiniteSet(X)
  BY InstalmentsFinite, FS_Subset
<1>2. \A x \in X : Price[x] = Contribution[x[1][1]] /\ Price[x] \in Nat
  BY Partitions, PortfolioAssumption DEF Price
<1>3. SumOver(Price, X) \in Nat
  BY <1>1, <1>2, SumNat
<1>4. Amounts(X) = SumOver(Price, X)
  <2> [x \in X |-> Contribution[x[1][1]]] = [x \in X |-> Price[x]]
    BY <1>2
  <2> QED
    BY DEF Amounts, SumOver
<1> QED
  BY <1>1, <1>2, <1>3, <1>4

LEMMA AmountsByKind ==
    ASSUME TypeOK, NEW X \in SUBSET Instalments, NEW I, IsFiniteSet(I),
           NEW kind, \A x \in X : kind[x] \in I
    PROVE  Amounts(X) = SumOf([i \in I |-> Amounts({x \in X : kind[x] = i})])
<1>1. Amounts(X) = SumOf([i \in I |-> SumOver(Price, {x \in X : kind[x] = i})])
  BY AmountsSum, SumByKind
<1>2. \A i \in I : Amounts({x \in X : kind[x] = i}) = SumOver(Price, {x \in X : kind[x] = i})
  <2> SUFFICES ASSUME NEW i \in I
               PROVE  Amounts({x \in X : kind[x] = i}) = SumOver(Price, {x \in X : kind[x] = i})
    OBVIOUS
  <2> DEFINE Y == {x \in X : kind[x] = i}
  <2>1. Y \in SUBSET Instalments
    OBVIOUS
  <2> HIDE DEF Y
  <2>2. Amounts(Y) = SumOver(Price, Y)
    BY <2>1, AmountsSum
  <2> QED
    BY <2>2 DEF Y
<1>3. [i \in I |-> Amounts({x \in X : kind[x] = i})] = [i \in I |-> SumOver(Price, {x \in X : kind[x] = i})]
  BY <1>2
<1> QED
  BY <1>1, <1>3

LEMMA AmountsUnion ==
    ASSUME TypeOK, NEW X \in SUBSET Instalments, NEW Y \in SUBSET Instalments, X \cap Y = {}
    PROVE  Amounts(X \cup Y) = Amounts(X) + Amounts(Y)
<1>1. SumOver(Price, X \cup Y) = SumOver(Price, X) + SumOver(Price, Y)
  BY AmountsSum, SumUnion
<1> QED
  BY <1>1, AmountsSum

\* A round is complete when the circle has instalments and all of this cycle
\* are paid; every signed seat has one in every cycle.
LEMMA RoundComplete ==
    ASSUME TypeOK, NEW c \in Circles, NEW i \in 1 .. Duration[c]
    PROVE  Round(c, i).status # "COMPLETED" <=>
             InstIn(c) = {} \/ \E x \in With(InstIn(c), Unpaid) : x[2] = i
<1> DEFINE due == {x \in InstIn(c) : x[2] = i}
           paid == With(due, {"PAID"})
<1>1. Round(c, i).status # "COMPLETED" <=> paid = {} \/ paid # due
  BY DEF Round
<1>2. ASSUME InstIn(c) # {} PROVE due # {}
  <2> PICK x \in InstIn(c) : TRUE
    BY <1>2
  <2>1. x[1] \in Seats /\ x[1][1] = c /\ x[2] \in DOMAIN inst[x[1]]
    BY DEF InstIn, InstOfSeats, RowsIn
  <2>2. i \in DOMAIN inst[x[1]]
    BY <2>1, Partitions
  <2>3. <<x[1], i>> \in InstIn(c)
    BY <2>1, <2>2 DEF InstIn, InstOfSeats, RowsIn
  <2> QED
    BY <2>3
<1>3. \A x \in InstIn(c) : Status(x) \in InstStatuses
  BY Partitions
<1>4. paid # due <=> \E x \in With(InstIn(c), Unpaid) : x[2] = i
  BY <1>3 DEF With, Unpaid, InstStatuses
<1>5. paid = {} <=> due = {} \/ paid = {}
  BY DEF With
<1>6. InstIn(c) = {} => due = {}
  OBVIOUS
<1> HIDE DEF due, paid
<1>7. due # {} /\ paid = {} => paid # due
  OBVIOUS
<1> QED
  BY <1>1, <1>2, <1>4, <1>5, <1>6, <1>7

LEMMA RoundsOf ==
    ASSUME TypeOK, NEW c \in Circles
    PROVE  LET incomplete == {i \in 1 .. Duration[c] : Round(c, i).status # "COMPLETED"}
               overview == Overview(c)
           IN
           /\ overview.collected = SumOf([i \in 1 .. Duration[c] |-> Round(c, i).collected])
           /\ overview.current = IF incomplete = {} THEN 1 ELSE Min(incomplete)
           /\ overview.gauge = Round(c, overview.current).collected
           /\ \A s \in RowsIn(c) : status[s] = "ACTIVE" => overview.current <= Progress(s)
<1> DEFINE D == Duration[c]
           X == InstIn(c)
           paid == With(X, {"PAID"})
           unpaid == With(X, Unpaid)
           late == {x[2] : x \in unpaid}
           incomplete == {i \in 1 .. D : Round(c, i).status # "COMPLETED"}
           current == IF unpaid = {} THEN 1 ELSE Min(late)
<1>1. D \in Nat /\ D >= 1
  BY PortfolioAssumption
<1>2. X \in SUBSET Instalments /\ \A x \in X : x[2] \in 1 .. D /\ Status(x) \in InstStatuses
  BY Partitions
<1>3. Overview(c).collected = Amounts(paid) /\ Overview(c).current = current
      /\ Overview(c).gauge = Amounts({x \in paid : x[2] = current})
  BY DEF Overview
<1>4. \A i : Round(c, i).collected = Amounts({x \in paid : x[2] = i})
  <2> SUFFICES ASSUME NEW i PROVE Round(c, i).collected = Amounts({x \in paid : x[2] = i})
    OBVIOUS
  <2> With({x \in X : x[2] = i}, {"PAID"}) = {x \in paid : x[2] = i}
    BY DEF With
  <2> QED
    BY DEF Round
<1>5. Overview(c).collected = SumOf([i \in 1 .. D |-> Round(c, i).collected])
  <2> DEFINE kind == [x \in Instalments |-> x[2]]
  <2>1. paid \in SUBSET Instalments /\ \A x \in paid : kind[x] = x[2] /\ kind[x] \in 1 .. D
    BY <1>2 DEF With
  <2>2. IsFiniteSet(1 .. D)
    <3> D \in Int /\ 1 \in Int
      BY <1>1
    <3> HIDE DEF D
    <3> QED
      BY FS_Interval
  <2>3. Amounts(paid) = SumOf([i \in 1 .. D |-> Amounts({x \in paid : kind[x] = i})])
    <3> DEFINE I == 1 .. D
    <3>1. IsFiniteSet(I) /\ paid \in SUBSET Instalments /\ \A x \in paid : kind[x] \in I
      BY <2>1, <2>2
    <3> HIDE DEF paid, kind, I
    <3>2. Amounts(paid) = SumOf([i \in I |-> Amounts({x \in paid : kind[x] = i})])
      BY <3>1, AmountsByKind
    <3> QED
      BY <3>2 DEF I
  <2>4. \A i : {x \in paid : kind[x] = i} = {x \in paid : x[2] = i}
    <3> HIDE DEF paid, kind
    <3> QED
      BY <2>1
  <2>5. [i \in 1 .. D |-> Amounts({x \in paid : kind[x] = i})] = [i \in 1 .. D |-> Round(c, i).collected]
    <3> HIDE DEF paid, kind
    <3> QED
      BY <1>4, <2>4
  <2> QED
    BY <1>3, <2>3, <2>5
<1>6. late \in SUBSET (1 .. D) /\ (unpaid = {} <=> late = {})
  BY <1>2 DEF With
<1>7. \A i \in 1 .. D : i \in incomplete <=> X = {} \/ i \in late
  BY RoundComplete
<1>8. current = IF incomplete = {} THEN 1 ELSE Min(incomplete)
  <2>1. CASE X = {}
    <3>1. unpaid = {}
      BY <2>1 DEF With
    <3>2. incomplete = 1 .. D
      BY <1>7, <2>1
    <3>3. Min(1 .. D) = 1
      <4>1. 1 .. D \in SUBSET Nat /\ 1 \in 1 .. D
        BY <1>1
      <4>2. Min(1 .. D) \in 1 .. D /\ Min(1 .. D) <= 1
        BY <4>1, MinOf
      <4> QED
        BY <1>1, <4>2
    <3> HIDE DEF incomplete, unpaid
    <3> QED
      BY <1>1, <3>1, <3>2, <3>3
  <2>2. CASE X # {}
    <3>1. incomplete = late
      <4> HIDE DEF late, X
      <4> QED
        BY <1>6, <1>7, <2>2
    <3> HIDE DEF incomplete, late, unpaid
    <3> QED
      BY <1>6, <3>1
  <2> QED
    BY <2>1, <2>2
<1>9. current \in 1 .. D /\ \A i \in late : current <= i
  <2>1. CASE unpaid = {}
    <3> HIDE DEF unpaid, late
    <3> QED
      BY <1>1, <1>6, <2>1
  <2>2. CASE unpaid # {}
    <3> HIDE DEF unpaid, late
    <3> late \in SUBSET Nat /\ late # {}
      BY <1>6, <2>2
    <3> QED
      BY <1>6, <2>2, MinOf
  <2> QED
    BY <2>1, <2>2
<1>10. ASSUME NEW s \in RowsIn(c), status[s] = "ACTIVE" PROVE current <= Progress(s)
  <2> DEFINE done == {i \in DOMAIN inst[s] : inst[s][i] = "PAID"}
             n == Cardinality(done)
  <2>1. s \in Seats /\ s[1] = c /\ DOMAIN inst[s] = 1 .. D
    <3> s \in Seats /\ s[1] = c
      BY DEF RowsIn
    <3> payout[s] # "NONE"
      BY <1>10 DEF TypeOK
    <3> QED
      BY Partitions
  <2>2. \A i \in 1 .. current - 1 : i \in done
    <3> SUFFICES ASSUME NEW i \in 1 .. current - 1 PROVE i \in done
      OBVIOUS
    <3>1. i \in 1 .. D /\ i \notin late
      <4> HIDE DEF current, late, D
      <4> QED
        BY <1>1, <1>9
    <3>2. <<s, i>> \in X
      <4> i \in DOMAIN inst[s]
        BY <2>1, <3>1
      <4> HIDE DEF current
      <4> QED
        BY DEF InstIn, InstOfSeats
    <3>3. <<s, i>> \notin unpaid
      BY <3>1
    <3>4. inst[s][i] \in InstStatuses \ Unpaid
      BY <1>2, <3>2, <3>3 DEF With, Status
    <3> QED
      BY <2>1, <3>1, <3>4 DEF InstStatuses, Unpaid
  <2>3. IsFiniteSet(done)
    <3>1. D \in Int /\ 1 \in Int
      BY <1>1
    <3>2. done \in SUBSET (1 .. D)
      BY <2>1
    <3> HIDE DEF done, D
    <3> IsFiniteSet(1 .. D)
      BY <3>1, FS_Interval
    <3> QED
      BY <3>2, FS_Subset
  <2>4. n \in Nat /\ current - 1 <= n
    <3> HIDE DEF done, current, D
    <3>1. current - 1 \in Int /\ 1 \in Int /\ current \in Nat /\ current >= 1
      BY <1>1, <1>9
    <3>2. Cardinality(1 .. current - 1) = IF 1 > current - 1 THEN 0 ELSE (current - 1) - 1 + 1
      BY <3>1, FS_Interval
    <3>3. 1 .. current - 1 \in SUBSET done
      BY <2>2
    <3>4. Cardinality(1 .. current - 1) <= Cardinality(done) /\ Cardinality(done) \in Nat
      BY <2>3, <3>3, FS_Subset, FS_CardinalityType
    <3> QED
      BY <3>1, <3>2, <3>4
  <2>5. Progress(s) = Min({n + 1, D})
    BY <2>1 DEF Progress
  <2> HIDE DEF n, D, current, done
  <2>6. Progress(s) \in {n + 1, D}
    <3> {n + 1, D} \in SUBSET Nat /\ {n + 1, D} # {}
      BY <1>1, <2>4
    <3> QED
      BY <2>5, MinOf
  <2> QED
    BY <1>1, <1>9, <2>4, <2>6
<1> QED
  BY <1>3, <1>4, <1>5, <1>8, <1>10

\* For any circles and any order in which cycles are paid or fall overdue, the
\* rounds an admin sees make up the overview of the circle.
THEOREM RoundsAgree == Spec => []RoundsMakeOverview
<1>1. TypeOK => RoundsMakeOverview
  BY RoundsOf DEF RoundsMakeOverview
<1> QED
  BY <1>1, TypeCorrect, PTL

-----------------------------------------------------------------------------
(* Reports *)

\* Elements may be counted class by class.
LEMMA CountByKind ==
    ASSUME NEW A, IsFiniteSet(A), NEW I, IsFiniteSet(I), NEW kind, \A x \in A : kind[x] \in I
    PROVE  Cardinality(A) = SumOf([i \in I |-> Cardinality({x \in A : kind[x] = i})])
<1> DEFINE one == [x \in A |-> 1]
<1>1. \A x \in A : one[x] = 1
  OBVIOUS
<1> HIDE DEF one
<1>2. ASSUME NEW B \in SUBSET A PROVE SumOver(one, B) = Cardinality(B)
  <2> IsFiniteSet(B) /\ \A x \in B : one[x] = 1
    BY <1>1, FS_Subset
  <2> QED
    BY SumOnes
<1>3. SumOver(one, A) = SumOf([i \in I |-> SumOver(one, {x \in A : kind[x] = i})])
  <2> \A x \in A : one[x] \in Nat
    BY <1>1
  <2> QED
    BY SumByKind
<1>4. \A i : SumOver(one, {x \in A : kind[x] = i}) = Cardinality({x \in A : kind[x] = i})
  BY <1>2
<1>5. [i \in I |-> SumOver(one, {x \in A : kind[x] = i})] = [i \in I |-> Cardinality({x \in A : kind[x] = i})]
  BY <1>4
<1>6. SumOver(one, A) = Cardinality(A)
  BY <1>2
<1> QED
  BY <1>3, <1>5, <1>6

LEMMA CountUnion ==
    ASSUME NEW A, IsFiniteSet(A), NEW B, IsFiniteSet(B), A \cap B = {}
    PROVE  Cardinality(A \cup B) = Cardinality(A) + Cardinality(B) /\ IsFiniteSet(A \cup B)
<1>1. /\ IsFiniteSet(A \cup B)
      /\ Cardinality(A \cup B) = Cardinality(A) + Cardinality(B) - Cardinality(A \cap B)
  BY FS_Union
<1>2. Cardinality(A \cap B) = 0
  BY FS_EmptySet
<1>3. Cardinality(A) \in Nat /\ Cardinality(B) \in Nat
  BY FS_CardinalityType
<1> QED
  BY <1>1, <1>2, <1>3

LEMMA ObligationsByKind ==
    ASSUME NEW S \in SUBSET Seats, NEW kind, \A s \in S : kind[s] \in Customers
    PROVE  Obligations(S) = SumOf([k \in Customers |-> Obligations({s \in S : kind[s] = k})])
<1>1. IsFiniteSet(S) /\ IsFiniteSet(Customers) /\ Obligations(S) = SumOver(Dues, S)
  BY ObligationSum, PortfolioAssumption
<1>2. \A s \in S : Dues[s] \in Nat
  BY SeatParts, PortfolioAssumption DEF Dues
<1>3. SumOver(Dues, S) = SumOf([k \in Customers |-> SumOver(Dues, {s \in S : kind[s] = k})])
  BY <1>1, <1>2, SumByKind
<1>4. \A k : SumOver(Dues, {s \in S : kind[s] = k}) = Obligations({s \in S : kind[s] = k})
  <2> SUFFICES ASSUME NEW k
               PROVE  SumOver(Dues, {s \in S : kind[s] = k}) = Obligations({s \in S : kind[s] = k})
    OBVIOUS
  <2> DEFINE T == {s \in S : kind[s] = k}
  <2>1. T \in SUBSET Seats
    OBVIOUS
  <2> HIDE DEF T
  <2>2. SumOver(Dues, T) = Obligations(T)
    BY <2>1, ObligationSum
  <2> QED
    BY <2>2 DEF T
<1>5. [k \in Customers |-> SumOver(Dues, {s \in S : kind[s] = k})] =
        [k \in Customers |-> Obligations({s \in S : kind[s] = k})]
  BY <1>4
<1> QED
  BY <1>1, <1>3, <1>5

\* The instalments of one status, of one customer or of one circle, are those
\* of all that belong to the customer or the circle.
LEMMA WithOf ==
    ASSUME TypeOK, NEW st
    PROVE  /\ \A k : With(InstOf(k), st) = {x \in With(Instalments, st) : holder[x[1]] = k}
           /\ \A c : With(InstIn(c), st) = {x \in With(Instalments, st) : x[1][1] = c}
           /\ With(Instalments, st) \in SUBSET Instalments
<1>1. /\ \A k : InstOf(k) = {x \in Instalments : holder[x[1]] = k}
      /\ \A c : InstIn(c) = {x \in Instalments : x[1][1] = c}
  BY Partitions
<1> QED
  BY <1>1 DEF With

LEMMA ReportsOfAll ==
    ASSUME TypeOK
    PROVE  LET collections == CollectionsReport
               customers == CustomersReport
           IN
           /\ collections.due = collections.collected + collections.overdue + collections.pending
           /\ SumOf([k \in Customers |-> Schedule(k).outstanding]) = collections.overdue + collections.pending
           /\ SumOf([c \in Circles |-> Overview(c).collected]) = collections.collected
           /\ SumOf([k \in Customers |-> CustomerHistory(k).overdue]) = customers.overdue
           /\ SumOf([k \in Customers |-> CustomerHistory(k).obligation]) = customers.obligation
<1> DEFINE A == Instalments
           P == With(A, {"PAID"})
           O == With(A, {"OVERDUE"})
           Q == A \ With(A, {"PAID", "OVERDUE"})
           S == {s \in Seats : status[s] = "ACTIVE"}
           owner == [x \in A |-> holder[x[1]]]
           place == [x \in A |-> x[1][1]]
<1>1. /\ A \in SUBSET Instalments /\ P \in SUBSET Instalments /\ O \in SUBSET Instalments
      /\ Q \in SUBSET Instalments
  BY DEF With
<1>2. /\ CollectionsReport.due = Amounts(A) /\ CollectionsReport.collected = Amounts(P)
      /\ CollectionsReport.overdue = Amounts(O) /\ CollectionsReport.pending = Amounts(Q)
      /\ CustomersReport.overdue = Cardinality(O) /\ CustomersReport.obligation = Obligations(S)
  BY DEF CollectionsReport, CustomersReport
<1>3. /\ A = P \cup (O \cup Q) /\ P \cap (O \cup Q) = {} /\ O \cap Q = {}
      /\ O \cup Q = With(A, Unpaid)
  <2> \A x \in Instalments : Status(x) \in InstStatuses
    BY Partitions
  <2> QED
    BY DEF With, InstStatuses, Unpaid
<1>4. \A x \in A : owner[x] \in Customers /\ place[x] \in Circles
  BY Partitions
<1> HIDE DEF P, O, Q, S
<1>5. Amounts(A) = Amounts(P) + Amounts(O) + Amounts(Q)
  <2>1. Amounts(A) = Amounts(P) + Amounts(O \cup Q)
    BY <1>1, <1>3, AmountsUnion
  <2>2. Amounts(O \cup Q) = Amounts(O) + Amounts(Q)
    BY <1>1, <1>3, AmountsUnion
  <2> HIDE DEF A
  <2>3. Amounts(P) \in Nat /\ Amounts(O) \in Nat /\ Amounts(Q) \in Nat
    BY <1>1, AmountsSum
  <2> QED
    BY <2>1, <2>2, <2>3
<1>6. SumOf([k \in Customers |-> Schedule(k).outstanding]) = Amounts(O) + Amounts(Q)
  <2> DEFINE U == With(A, Unpaid)
  <2>1. U \in SUBSET Instalments /\ \A x \in U : owner[x] \in Customers /\ owner[x] = holder[x[1]]
    BY <1>4 DEF With
  <2>2. \A k \in Customers : Schedule(k).outstanding = Amounts({x \in U : owner[x] = k})
    <3> SUFFICES ASSUME NEW k \in Customers
                 PROVE  Schedule(k).outstanding = Amounts({x \in U : owner[x] = k})
      OBVIOUS
    <3>1. Schedule(k).outstanding = Amounts(With(InstOf(k), Unpaid))
      BY Screens DEF Schedule
    <3>2. With(InstOf(k), Unpaid) = {x \in U : holder[x[1]] = k}
      BY WithOf
    <3> HIDE DEF U, owner
    <3>3. {x \in U : holder[x[1]] = k} = {x \in U : owner[x] = k}
      BY <2>1
    <3> QED
      BY <3>1, <3>2, <3>3
  <2>3. Amounts(U) = Amounts(O) + Amounts(Q)
    <3> O \cup Q = U
      BY <1>3
    <3> HIDE DEF U, A
    <3> QED
      BY <1>1, <1>3, AmountsUnion
  <2> HIDE DEF U, owner
  <2>4. Amounts(U) = SumOf([k \in Customers |-> Amounts({x \in U : owner[x] = k})])
    BY <2>1, AmountsByKind, PortfolioAssumption
  <2>5. [k \in Customers |-> Schedule(k).outstanding] = [k \in Customers |-> Amounts({x \in U : owner[x] = k})]
    BY <2>2
  <2> QED
    BY <2>3, <2>4, <2>5
<1>7. SumOf([c \in Circles |-> Overview(c).collected]) = Amounts(P)
  <2>1. \A x \in P : place[x] \in Circles /\ place[x] = x[1][1]
    BY <1>1, <1>4
  <2>2. \A c \in Circles : Overview(c).collected = Amounts({x \in P : place[x] = c})
    <3> SUFFICES ASSUME NEW c \in Circles PROVE Overview(c).collected = Amounts({x \in P : place[x] = c})
      OBVIOUS
    <3>1. Overview(c).collected = Amounts(With(InstIn(c), {"PAID"}))
      BY DEF Overview
    <3>2. With(InstIn(c), {"PAID"}) = {x \in P : x[1][1] = c}
      BY WithOf DEF P
    <3> HIDE DEF place
    <3>3. {x \in P : x[1][1] = c} = {x \in P : place[x] = c}
      BY <2>1
    <3> QED
      BY <3>1, <3>2, <3>3
  <2> HIDE DEF place
  <2>3. Amounts(P) = SumOf([c \in Circles |-> Amounts({x \in P : place[x] = c})])
    BY <1>1, <2>1, AmountsByKind, PortfolioAssumption
  <2>4. [c \in Circles |-> Overview(c).collected] = [c \in Circles |-> Amounts({x \in P : place[x] = c})]
    BY <2>2
  <2> QED
    BY <2>3, <2>4
<1>8. SumOf([k \in Customers |-> CustomerHistory(k).overdue]) = Cardinality(O)
  <2>1. IsFiniteSet(O) /\ \A x \in O : owner[x] \in Customers /\ owner[x] = holder[x[1]]
    BY <1>1, <1>4, AmountsSum
  <2>2. \A k \in Customers : CustomerHistory(k).overdue = Cardinality({x \in O : owner[x] = k})
    <3> SUFFICES ASSUME NEW k \in Customers
                 PROVE  CustomerHistory(k).overdue = Cardinality({x \in O : owner[x] = k})
      OBVIOUS
    <3>1. CustomerHistory(k).overdue = Cardinality(With(InstOf(k), {"OVERDUE"}))
      BY DEF CustomerHistory
    <3>2. With(InstOf(k), {"OVERDUE"}) = {x \in O : holder[x[1]] = k}
      BY WithOf DEF O
    <3> HIDE DEF owner
    <3>3. {x \in O : holder[x[1]] = k} = {x \in O : owner[x] = k}
      BY <2>1
    <3> QED
      BY <3>1, <3>2, <3>3
  <2> HIDE DEF owner
  <2>3. Cardinality(O) = SumOf([k \in Customers |-> Cardinality({x \in O : owner[x] = k})])
    BY <2>1, CountByKind, PortfolioAssumption
  <2>4. [k \in Customers |-> CustomerHistory(k).overdue] = [k \in Customers |-> Cardinality({x \in O : owner[x] = k})]
    BY <2>2
  <2> QED
    BY <2>3, <2>4
<1>9. SumOf([k \in Customers |-> CustomerHistory(k).obligation]) = Obligations(S)
  <2>1. S \in SUBSET Seats /\ \A s \in S : holder[s] \in Customers
    BY DEF S, TypeOK
  <2>2. Obligations(S) = SumOf([k \in Customers |-> Obligations({s \in S : holder[s] = k})])
    BY <2>1, ObligationsByKind
  <2>3. \A k : CustomerHistory(k).obligation = Obligations({s \in S : holder[s] = k})
    <3> SUFFICES ASSUME NEW k
                 PROVE  CustomerHistory(k).obligation = Obligations({s \in S : holder[s] = k})
      OBVIOUS
    <3> ActiveOf(k) = {s \in S : holder[s] = k}
      BY DEF ActiveOf, RowsOf, S
    <3> QED
      BY DEF CustomerHistory
  <2>4. [k \in Customers |-> CustomerHistory(k).obligation] = [k \in Customers |-> Obligations({s \in S : holder[s] = k})]
    BY <2>3
  <2> QED
    BY <2>2, <2>4
<1> QED
  BY <1>2, <1>5, <1>6, <1>7, <1>8, <1>9

LEMMA PagesOfCustomer ==
    ASSUME TypeOK, NEW k \in Customers
    PROVE  LET summary == PaymentsSummary(k) IN
           /\ CustomerHistory(k).obligation <= Obligation(k)
           /\ summary.total = summary.paid + summary.overdue + summary.pending
           /\ Cardinality(PaymentHistory(k).entries) = summary.paid + summary.overdue
<1> DEFINE X == InstOf(k)
           P == With(X, {"PAID"})
           O == With(X, {"OVERDUE"})
           Q == With(X, {"PENDING"})
<1>1. IsFiniteSet(P) /\ IsFiniteSet(O) /\ IsFiniteSet(Q)
  <2> P \in SUBSET Instalments /\ O \in SUBSET Instalments /\ Q \in SUBSET Instalments
    BY Partitions DEF With
  <2> HIDE DEF P, O, Q
  <2> QED
    BY InstalmentsFinite, FS_Subset
<1>2. X = (P \cup O) \cup Q /\ (P \cup O) \cap Q = {} /\ P \cap O = {}
      /\ With(X, {"PAID", "OVERDUE"}) = P \cup O
  <2> \A x \in X : Status(x) \in InstStatuses
    BY InstalmentParts
  <2> QED
    BY DEF With, InstStatuses
<1>3. CustomerHistory(k).obligation <= Obligation(k)
  <2> DEFINE S == {s \in RowsOf(k) : Live(s)}
  <2>1. S \in SUBSET Seats /\ ActiveOf(k) \in SUBSET S /\ ActiveOf(k) \in SUBSET Seats
    BY DEF RowsOf, ActiveOf, Live
  <2>2. CustomerHistory(k).obligation = Obligations(ActiveOf(k)) /\ Obligation(k) = Obligations(S)
    BY DEF CustomerHistory, Obligation
  <2> HIDE DEF S
  <2>3. \A s \in S : Dues[s] \in Nat
    BY <2>1, SeatParts, PortfolioAssumption DEF Dues
  <2>4. IsFiniteSet(S) /\ Obligations(S) = SumOver(Dues, S)
        /\ Obligations(ActiveOf(k)) = SumOver(Dues, ActiveOf(k))
    BY <2>1, ObligationSum
  <2>5. SumOver(Dues, ActiveOf(k)) <= SumOver(Dues, S)
    BY <2>1, <2>3, <2>4, SumSubset
  <2> QED
    BY <2>2, <2>4, <2>5
<1>4. /\ PaymentsSummary(k).total = Cardinality(X) /\ PaymentsSummary(k).paid = Cardinality(P)
      /\ PaymentsSummary(k).overdue = Cardinality(O) /\ PaymentsSummary(k).pending = Cardinality(Q)
      /\ PaymentHistory(k).entries = With(X, {"PAID", "OVERDUE"})
  BY DEF PaymentsSummary, PaymentHistory
<1> HIDE DEF X, P, O, Q
<1>5. Cardinality(P \cup O) = Cardinality(P) + Cardinality(O) /\ IsFiniteSet(P \cup O)
  BY <1>1, <1>2, CountUnion
<1>6. Cardinality(X) = Cardinality(P \cup O) + Cardinality(Q)
  BY <1>1, <1>2, <1>5, CountUnion
<1> QED
  BY <1>2, <1>3, <1>4, <1>5, <1>6

\* For any circles, members and payments, the reports total what the pages of
\* the customers and of the circles say.
THEOREM ReportsAgree == Spec => []ReportsAddUp
<1>1. TypeOK => ReportsAddUp
  BY ReportsOfAll, PagesOfCustomer DEF ReportsAddUp
<1> QED
  BY <1>1, TypeCorrect, PTL
=============================================================================
