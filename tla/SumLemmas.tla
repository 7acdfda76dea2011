----------------------------- MODULE SumLemmas -----------------------------
(***************************************************************************)
(* What the sums of these modules compute: the budget's reservations, the  *)
(* ledger's cents, the estimates of a due run and the lines of a bill are  *)
(* all added up over a finite set, in no order the code promises.  The     *)
(* community modules define such a sum by a recursive function over the    *)
(* subsets of the set; every fact about it is proved here by induction on  *)
(* a SET of subsets, the one form of induction that takes no operator.     *)
(***************************************************************************)
EXTENDS FiniteSetsExt, FiniteSetTheorems, TLAPS

\* The element a sum takes next, and the recursive function that adds h up.
Pick(s) == CHOOSE x \in s : TRUE
AddsUp(F, h, S) ==
  F = [s \in SUBSET S |-> IF s = {} THEN 0
                          ELSE h[Pick(s)] + F[s \ {Pick(s)}]]

-----------------------------------------------------------------------------
(* Induction over the subsets of a finite set. *)

\* Every inhabited set of natural numbers has a least one.
LEMMA LeastOf ==
  ASSUME NEW S, S \subseteq Nat, S # {}
  PROVE  \E x \in S : \A y \in S : x <= y
<1>1. PICK x \in S : \A y \in S : ~ (<<y, x>> \in OpToRel(<, Nat))
  BY NatLessThanWellFounded, WFMin, Zenon
<1>2. ASSUME NEW y \in S PROVE x <= y
  <2>1. ~ (<<y, x>> \in OpToRel(<, Nat))
    BY <1>1
  <2>2. x \in Nat /\ y \in Nat
    OBVIOUS
  <2>3. ~ (y < x)
    BY <2>1, <2>2, Zenon DEF OpToRel
  <2> QED
    BY <2>2, <2>3
<1> QED
  BY <1>2

\* A family of sets that holds every subset of a finite set S once it holds
\* that subset with any one element left out, holds every subset of S.
LEMMA SubsetInduction ==
  ASSUME NEW S, IsFiniteSet(S), NEW G,
         \A T \in SUBSET S : (\A x \in T : T \ {x} \in G) => T \in G
  PROVE  SUBSET S \subseteq G
<1> SUFFICES ASSUME (SUBSET S) \ G # {} PROVE FALSE
  OBVIOUS
<1> DEFINE N == {Cardinality(T) : T \in (SUBSET S) \ G}
<1>1. \A T \in SUBSET S : IsFiniteSet(T) /\ Cardinality(T) \in Nat
  BY FS_Subset, FS_CardinalityType
<1>2. N \subseteq Nat /\ N # {}
  BY <1>1
<1>3. PICK n \in N : \A m \in N : n <= m
  <2> HIDE DEF N
  <2> QED BY <1>2, LeastOf
<1>4. PICK T \in (SUBSET S) \ G : n = Cardinality(T)
  OBVIOUS
<1>5. PICK x \in T : T \ {x} \notin G
  BY <1>4
<1>6. T \ {x} \in SUBSET S /\ Cardinality(T \ {x}) = Cardinality(T) - 1
  BY <1>1, FS_RemoveElement
<1>7. Cardinality(T \ {x}) \in N /\ n \in Nat
  BY <1>2, <1>5, <1>6
<1>8. n <= Cardinality(T \ {x}) /\ n \in Nat
  <2> HIDE DEF N
  <2> QED BY <1>3, <1>7
<1> QED
  BY <1>4, <1>6, <1>8

-----------------------------------------------------------------------------
(* The recursive function exists, is unique and is the sum. *)

\* The element taken is one of the set.
LEMMA PickIn ==
  ASSUME NEW s, s # {}
  PROVE  Pick(s) \in s
BY DEF Pick

\* The sum is that function's value on the whole set.
LEMMA SumDef ==
  ASSUME NEW h, NEW S
  PROVE  SumFunctionOnSet(h, S) = (CHOOSE F : AddsUp(F, h, S))[S]
BY DEF SumFunctionOnSet, FoldFunctionOnSet, MapThenFoldSet, AddsUp, Pick

\* The recursive function a sum is made of is defined on every smaller set.
LEMMA SumRestricts ==
  ASSUME NEW S, NEW T \in SUBSET S, NEW h, NEW F, AddsUp(F, h, S)
  PROVE  AddsUp([s \in SUBSET T |-> F[s]], h, T)
<1> DEFINE E == [s \in SUBSET T |-> F[s]]
<1>1. ASSUME NEW s \in SUBSET T
      PROVE  F[s] = IF s = {} THEN 0 ELSE h[Pick(s)] + E[s \ {Pick(s)}]
  <2>1. s \in SUBSET S /\ s \ {Pick(s)} \in SUBSET T
    OBVIOUS
  <2>2. F[s] = IF s = {} THEN 0 ELSE h[Pick(s)] + F[s \ {Pick(s)}]
    BY <2>1 DEF AddsUp
  <2>3. E[s \ {Pick(s)}] = F[s \ {Pick(s)}]
    BY <2>1
  <2> QED
    BY <2>2, <2>3, Zenon
<1> QED
  BY <1>1, Zenon DEF AddsUp

\* Two such functions agree.
LEMMA SumUnique ==
  ASSUME NEW S, IsFiniteSet(S), NEW h, NEW E, NEW F,
         AddsUp(E, h, S), AddsUp(F, h, S), NEW T \in SUBSET S
  PROVE  E[T] = F[T]
<1> DEFINE G == {s \in SUBSET S : E[s] = F[s]}
<1>1. ASSUME NEW s \in SUBSET S, \A x \in s : s \ {x} \in G
      PROVE  s \in G
  <2>1. CASE s = {}
    BY <2>1 DEF AddsUp
  <2>2. CASE s # {}
    <3>1. E[s \ {Pick(s)}] = F[s \ {Pick(s)}]
      BY <1>1, <2>2, PickIn
    <3> QED
      BY <2>2, <3>1 DEF AddsUp
  <2> QED
    BY <2>1, <2>2
<1>2. SUBSET S \subseteq G
  <2> HIDE DEF G
  <2> QED BY <1>1, SubsetInduction
<1> QED
  BY <1>2

\* Any such function gives the sum of every smaller set.
LEMMA SumIsSolution ==
  ASSUME NEW S, IsFiniteSet(S), NEW h, NEW F, AddsUp(F, h, S),
         NEW T \in SUBSET S
  PROVE  SumFunctionOnSet(h, T) = F[T]
<1>1. IsFiniteSet(T)
  BY FS_Subset
<1>2. AddsUp([s \in SUBSET T |-> F[s]], h, T)
  BY SumRestricts
<1> DEFINE E == CHOOSE X : AddsUp(X, h, T)
<1>3. AddsUp(E, h, T)
  BY <1>2
<1>4. E[T] = [s \in SUBSET T |-> F[s]][T]
  <2> HIDE DEF E
  <2>1. T \in SUBSET T
    OBVIOUS
  <2> QED BY <1>1, <1>2, <1>3, <2>1, SumUnique
<1> QED
  BY <1>4, SumDef

\* There is one, over every finite set.
LEMMA SumExists ==
  ASSUME NEW S, IsFiniteSet(S), NEW h
  PROVE  \E F : AddsUp(F, h, S)
<1> DEFINE G == {T \in SUBSET S : \E F : AddsUp(F, h, T)}
<1>1. ASSUME NEW T \in SUBSET S, \A x \in T : T \ {x} \in G
      PROVE  \E F : AddsUp(F, h, T)
  <2> DEFINE sum(s) == SumFunctionOnSet(h, s)
             F == [s \in SUBSET T |-> IF s = {} THEN 0
                      ELSE h[Pick(s)] + SumFunctionOnSet(h, s \ {Pick(s)})]
  <2>1. ASSUME NEW s \in SUBSET T, s # {}
        PROVE  F[s \ {Pick(s)}] = SumFunctionOnSet(h, s \ {Pick(s)})
    <3> DEFINE p == Pick(s)
               r == s \ {Pick(s)}
    <3>1. p \in T
      BY <2>1, PickIn
    <3>2. PICK E : AddsUp(E, h, T \ {p})
      BY <1>1, <3>1
    <3>3. IsFiniteSet(T \ {p}) /\ r \in SUBSET (T \ {p})
      BY FS_Subset
    <3>4. \A q \in SUBSET (T \ {p}) : SumFunctionOnSet(h, q) = E[q]
      BY <3>2, <3>3, SumIsSolution
    <3>5. E[r] = IF r = {} THEN 0 ELSE h[Pick(r)] + E[r \ {Pick(r)}]
      BY <3>2, <3>3 DEF AddsUp
    <3>6. r \ {Pick(r)} \in SUBSET (T \ {p})
      BY <3>3
    <3>7. SumFunctionOnSet(h, r) =
            IF r = {} THEN 0 ELSE h[Pick(r)] + SumFunctionOnSet(h, r \ {Pick(r)})
      BY <3>3, <3>4, <3>5, <3>6
    <3>8. r \in SUBSET T
      BY <3>3
    <3> HIDE DEF r
    <3>9. F[r] = IF r = {} THEN 0 ELSE h[Pick(r)] + SumFunctionOnSet(h, r \ {Pick(r)})
      BY <3>8
    <3>10. F[r] = SumFunctionOnSet(h, r)
      BY <3>7, <3>9
    <3> QED BY <3>10 DEF r
  <2>2. \A s \in SUBSET T : F[s] = IF s = {} THEN 0
                      ELSE h[Pick(s)] + F[s \ {Pick(s)}]
    BY <2>1
  <2>3. AddsUp(F, h, T)
    <3>1. F = [s \in SUBSET T |-> F[s]]
      OBVIOUS
    <3> HIDE DEF F
    <3>2. [s \in SUBSET T |-> F[s]] = [s \in SUBSET T |-> IF s = {} THEN 0
                      ELSE h[Pick(s)] + F[s \ {Pick(s)}]]
      BY <2>2, Zenon
    <3> QED BY <3>1, <3>2 DEF AddsUp
  <2> QED
    BY <2>3
<1>2. SUBSET S \subseteq G
  <2>1. \A T \in SUBSET S : (\A x \in T : T \ {x} \in G) => T \in G
    BY <1>1
  <2> HIDE DEF G
  <2> QED BY <2>1, SubsetInduction
<1> QED
  BY <1>2

-----------------------------------------------------------------------------
(* Facts about sums. *)

\* The equation the definition promises.
LEMMA SumUnfolds ==
  ASSUME NEW S, IsFiniteSet(S), NEW h
  PROVE  SumFunctionOnSet(h, S) =
           IF S = {} THEN 0
           ELSE h[Pick(S)] + SumFunctionOnSet(h, S \ {Pick(S)})
<1>1. PICK F : AddsUp(F, h, S)
  BY SumExists
<1>2. \A T \in SUBSET S : SumFunctionOnSet(h, T) = F[T]
  BY <1>1, SumIsSolution
<1>3. F[S] = IF S = {} THEN 0 ELSE h[Pick(S)] + F[S \ {Pick(S)}]
  <2>1. S \in SUBSET S
    OBVIOUS
  <2> QED BY <1>1, <2>1 DEF AddsUp
<1> QED
  BY <1>2, <1>3

\* A sum of integers is an integer.
LEMMA SumType ==
  ASSUME NEW S, IsFiniteSet(S), NEW h, \A x \in S : h[x] \in Int
  PROVE  SumFunctionOnSet(h, S) \in Int
<1> DEFINE G == {T \in SUBSET S : SumFunctionOnSet(h, T) \in Int}
<1>1. ASSUME NEW T \in SUBSET S, \A x \in T : T \ {x} \in G
      PROVE  T \in G
  <2>1. IsFiniteSet(T)
    BY FS_Subset
  <2>2. CASE T = {}
    <3>1. SumFunctionOnSet(h, T) = 0
      BY <2>1, <2>2, SumUnfolds
    <3> QED BY <3>1
  <2>3. CASE T # {}
    <3> DEFINE p == Pick(T)
               U == T \ {Pick(T)}
    <3>1. p \in T
      BY <2>3, PickIn
    <3>2. SumFunctionOnSet(h, U) \in Int /\ h[p] \in Int
      BY <1>1, <3>1
    <3>3. SumFunctionOnSet(h, T) = h[p] + SumFunctionOnSet(h, U)
      BY <2>1, <2>3, SumUnfolds
    <3> HIDE DEF p, U
    <3> QED BY <3>2, <3>3
  <2> QED
    BY <2>2, <2>3
<1>2. SUBSET S \subseteq G
  <2> HIDE DEF G
  <2> QED BY <1>1, SubsetInduction
<1> QED
  BY <1>2

\* Any element may be taken out of a sum first.
LEMMA SumTakes ==
  ASSUME NEW S, IsFiniteSet(S), NEW h, \A x \in S : h[x] \in Int, NEW a \in S
  PROVE  SumFunctionOnSet(h, S) = h[a] + SumFunctionOnSet(h, S \ {a})
<1> DEFINE sum(T) == SumFunctionOnSet(h, T)
           G == {T \in SUBSET S : \A x \in T : sum(T) = h[x] + sum(T \ {x})}
<1>0. \A T \in SUBSET S : IsFiniteSet(T) /\ sum(T) \in Int
  <2>1. \A T \in SUBSET S : IsFiniteSet(T)
    BY FS_Subset
  <2> QED BY <2>1, SumType
<1>1. ASSUME NEW T \in SUBSET S, \A x \in T : T \ {x} \in G
      PROVE  T \in G
  <2> SUFFICES ASSUME NEW x \in T PROVE sum(T) = h[x] + sum(T \ {x})
    OBVIOUS
  <2> DEFINE p == Pick(T)
  <2>1. p \in T
    BY PickIn
  <2>2. sum(T) = h[p] + sum(T \ {p})
    <3>1. T # {}
      OBVIOUS
    <3> QED BY <1>0, <3>1, SumUnfolds
  <2> HIDE DEF p
  <2>3. CASE p = x
    BY <2>2, <2>3
  <2>4. CASE p # x
    <3>1. sum(T \ {p}) = h[x] + sum((T \ {p}) \ {x})
      BY <1>1, <2>1, <2>4
    <3>2. sum(T \ {x}) = h[p] + sum((T \ {x}) \ {p})
      BY <1>1, <2>1, <2>4
    <3>3. (T \ {p}) \ {x} = (T \ {x}) \ {p}
      OBVIOUS
    <3>4. h[p] \in Int /\ h[x] \in Int /\ sum((T \ {p}) \ {x}) \in Int
      BY <1>0, <2>1
    <3>5. \A k, m, n \in Int : k + (m + n) = m + (k + n)
      OBVIOUS
    <3>6. h[p] + (h[x] + sum((T \ {p}) \ {x}))
            = h[x] + (h[p] + sum((T \ {p}) \ {x}))
      BY <3>4, <3>5
    <3> HIDE DEF sum
    <3> QED BY <2>2, <3>1, <3>2, <3>3, <3>6, Zenon
  <2> QED
    BY <2>3, <2>4
<1>2. SUBSET S \subseteq G
  <2> HIDE DEF G
  <2> QED BY <1>1, SubsetInduction
<1> QED
  BY <1>2

\* Functions that agree on the set have the same sum.
LEMMA SumAgrees ==
  ASSUME NEW S, IsFiniteSet(S), NEW g, NEW h, \A x \in S : g[x] = h[x]
  PROVE  SumFunctionOnSet(g, S) = SumFunctionOnSet(h, S)
<1> DEFINE G == {T \in SUBSET S :
                   SumFunctionOnSet(g, T) = SumFunctionOnSet(h, T)}
<1>1. ASSUME NEW T \in SUBSET S, \A x \in T : T \ {x} \in G
      PROVE  T \in G
  <2>1. IsFiniteSet(T)
    BY FS_Subset
  <2>2. T # {} => Pick(T) \in T
    BY PickIn
  <2> QED
    BY <1>1, <2>1, <2>2, SumUnfolds
<1>2. SUBSET S \subseteq G
  <2> HIDE DEF G
  <2> QED BY <1>1, SubsetInduction
<1> QED
  BY <1>2

\* A sum is monotonic in what it adds.
LEMMA SumGrows ==
  ASSUME NEW S, IsFiniteSet(S), NEW g, NEW h,
         \A x \in S : g[x] \in Int /\ h[x] \in Int /\ g[x] <= h[x]
  PROVE  SumFunctionOnSet(g, S) <= SumFunctionOnSet(h, S)
<1> DEFINE G == {T \in SUBSET S :
                   SumFunctionOnSet(g, T) <= SumFunctionOnSet(h, T)}
<1>1. ASSUME NEW T \in SUBSET S, \A x \in T : T \ {x} \in G
      PROVE  T \in G
  <2>1. IsFiniteSet(T)
    BY FS_Subset
  <2>2. CASE T = {}
    <3>1. SumFunctionOnSet(g, T) = 0 /\ SumFunctionOnSet(h, T) = 0
      BY <2>1, <2>2, SumUnfolds
    <3> QED BY <3>1
  <2>3. CASE T # {}
    <3> DEFINE p == Pick(T)
               U == T \ {Pick(T)}
    <3>1. p \in T
      BY <2>3, PickIn
    <3>2. IsFiniteSet(U) /\ U \in G
      BY <1>1, <2>1, <3>1, FS_RemoveElement
    <3>3. SumFunctionOnSet(g, U) \in Int /\ SumFunctionOnSet(h, U) \in Int
      BY <3>2, SumType
    <3>4. /\ SumFunctionOnSet(g, T) = g[p] + SumFunctionOnSet(g, U)
          /\ SumFunctionOnSet(h, T) = h[p] + SumFunctionOnSet(h, U)
      BY <2>1, <2>3, SumUnfolds
    <3>5. g[p] \in Int /\ h[p] \in Int /\ g[p] <= h[p]
      BY <3>1
    <3>6. SumFunctionOnSet(g, U) <= SumFunctionOnSet(h, U)
      BY <3>2
    <3> HIDE DEF p, U
    <3> QED BY <3>3, <3>4, <3>5, <3>6
  <2> QED
    BY <2>2, <2>3
<1>2. SUBSET S \subseteq G
  <2> HIDE DEF G
  <2> QED BY <1>1, SubsetInduction
<1> QED
  BY <1>2

\* A sum of amounts is an amount.
LEMMA SumIsNat ==
  ASSUME NEW S, IsFiniteSet(S), NEW h, \A x \in S : h[x] \in Nat
  PROVE  SumFunctionOnSet(h, S) \in Nat
<1> DEFINE G == {T \in SUBSET S : SumFunctionOnSet(h, T) \in Nat}
<1>1. ASSUME NEW T \in SUBSET S, \A x \in T : T \ {x} \in G
      PROVE  T \in G
  <2>1. IsFiniteSet(T)
    BY FS_Subset
  <2>2. CASE T = {}
    <3>1. SumFunctionOnSet(h, T) = 0
      BY <2>1, <2>2, SumUnfolds
    <3> QED BY <3>1
  <2>3. CASE T # {}
    <3> DEFINE p == Pick(T)
               U == T \ {Pick(T)}
    <3>1. p \in T
      BY <2>3, PickIn
    <3>2. SumFunctionOnSet(h, U) \in Nat /\ h[p] \in Nat
      BY <1>1, <3>1
    <3>3. SumFunctionOnSet(h, T) = h[p] + SumFunctionOnSet(h, U)
      BY <2>1, <2>3, SumUnfolds
    <3> HIDE DEF p, U
    <3> QED BY <3>2, <3>3
  <2> QED
    BY <2>2, <2>3
<1>2. SUBSET S \subseteq G
  <2> HIDE DEF G
  <2> QED BY <1>1, SubsetInduction
<1> QED
  BY <1>2

\* What is nothing may be left out of a sum.
LEMMA SumSkips ==
  ASSUME NEW S, IsFiniteSet(S), NEW R \in SUBSET S, NEW h,
         \A x \in S : h[x] \in Int, \A x \in S \ R : h[x] = 0
  PROVE  SumFunctionOnSet(h, S) = SumFunctionOnSet(h, R)
<1> DEFINE sum(T) == SumFunctionOnSet(h, T)
           G == {T \in SUBSET S : sum(T) = sum(T \cap R)}
<1>0. \A T \in SUBSET S : IsFiniteSet(T)
  BY FS_Subset
<1>1. ASSUME NEW T \in SUBSET S, \A x \in T : T \ {x} \in G
      PROVE  T \in G
  <2>1. CASE T = {}
    <3>1. T \cap R = T
      BY <2>1
    <3> QED BY <3>1
  <2>2. CASE T # {}
    <3>1. PICK p \in T : TRUE
      BY <2>2
    <3>2. sum(T) = h[p] + sum(T \ {p})
      BY <1>0, SumTakes
    <3>3. sum(T \ {p}) = sum((T \ {p}) \cap R)
      BY <1>1
    <3>4. CASE p \in R
      <4>1. sum(T \cap R) = h[p] + sum((T \cap R) \ {p})
        BY <1>0, <3>4, SumTakes
      <4>2. (T \ {p}) \cap R = (T \cap R) \ {p}
        OBVIOUS
      <4> QED BY <3>2, <3>3, <4>1, <4>2
    <3>5. CASE p \notin R
      <4>1. (T \ {p}) \cap R = T \cap R
        BY <3>5
      <4>2. h[p] = 0 /\ sum(T \ {p}) \in Int
        BY <1>0, <3>5, SumType
      <4>3. sum(T) = sum(T \ {p})
        <5> HIDE DEF sum
        <5> QED BY <3>2, <4>2
      <4> QED BY <3>3, <4>1, <4>3
    <3> QED
      BY <3>4, <3>5
  <2> QED
    BY <2>1, <2>2
<1>2. SUBSET S \subseteq G
  <2>1. \A T \in SUBSET S : (\A x \in T : T \ {x} \in G) => T \in G
    BY <1>1
  <2> HIDE DEF G
  <2> QED BY <2>1, SubsetInduction
<1>3. S \in G /\ S \cap R = R
  BY <1>2
<1> QED
  BY <1>3

\* A sum moves by as much as the one amount that changed.
LEMMA SumMoves ==
  ASSUME NEW S, IsFiniteSet(S), NEW g, NEW h, NEW a \in S,
         \A x \in S : g[x] \in Int /\ h[x] \in Int,
         \A x \in S \ {a} : g[x] = h[x]
  PROVE  SumFunctionOnSet(g, S) = SumFunctionOnSet(h, S) + g[a] - h[a]
<1> DEFINE U == S \ {a}
<1>1. IsFiniteSet(U)
  BY FS_Subset
<1>2. SumFunctionOnSet(g, U) = SumFunctionOnSet(h, U)
  BY <1>1, SumAgrees
<1>3. /\ SumFunctionOnSet(g, S) = g[a] + SumFunctionOnSet(g, U)
      /\ SumFunctionOnSet(h, S) = h[a] + SumFunctionOnSet(h, U)
  BY SumTakes
<1>4. SumFunctionOnSet(h, U) \in Int /\ g[a] \in Int /\ h[a] \in Int
  BY <1>1, SumType
<1> HIDE DEF U
<1> QED
  BY <1>2, <1>3, <1>4

\* Sums add up term by term.
LEMMA SumAdds ==
  ASSUME NEW S, IsFiniteSet(S), NEW f, NEW g, NEW h,
         \A x \in S : g[x] \in Int /\ h[x] \in Int /\ f[x] = g[x] + h[x]
  PROVE  SumFunctionOnSet(f, S) = SumFunctionOnSet(g, S) + SumFunctionOnSet(h, S)
<1> DEFINE G == {T \in SUBSET S : SumFunctionOnSet(f, T)
                   = SumFunctionOnSet(g, T) + SumFunctionOnSet(h, T)}
<1>1. ASSUME NEW T \in SUBSET S, \A x \in T : T \ {x} \in G
      PROVE  T \in G
  <2>1. IsFiniteSet(T)
    BY FS_Subset
  <2>2. CASE T = {}
    <3>1. /\ SumFunctionOnSet(f, T) = 0 /\ SumFunctionOnSet(g, T) = 0
          /\ SumFunctionOnSet(h, T) = 0
      BY <2>1, <2>2, SumUnfolds
    <3> QED BY <3>1
  <2>3. CASE T # {}
    <3> DEFINE p == Pick(T)
               U == T \ {Pick(T)}
    <3>1. p \in T
      BY <2>3, PickIn
    <3>2. IsFiniteSet(U) /\ U \in G
      BY <1>1, <2>1, <3>1, FS_RemoveElement
    <3>3. SumFunctionOnSet(g, U) \in Int /\ SumFunctionOnSet(h, U) \in Int
      BY <3>2, SumType
    <3>4. /\ SumFunctionOnSet(f, T) = f[p] + SumFunctionOnSet(f, U)
          /\ SumFunctionOnSet(g, T) = g[p] + SumFunctionOnSet(g, U)
          /\ SumFunctionOnSet(h, T) = h[p] + SumFunctionOnSet(h, U)
      BY <2>1, <2>3, SumUnfolds
    <3>5. g[p] \in Int /\ h[p] \in Int /\ f[p] = g[p] + h[p]
      BY <3>1
    <3>6. SumFunctionOnSet(f, U) = SumFunctionOnSet(g, U) + SumFunctionOnSet(h, U)
      BY <3>2
    <3> HIDE DEF p, U
    <3>7. SumFunctionOnSet(f, T) = SumFunctionOnSet(g, T) + SumFunctionOnSet(h, T)
      BY <3>3, <3>4, <3>5, <3>6
    <3> QED BY <3>7
  <2> QED
    BY <2>2, <2>3
<1>2. SUBSET S \subseteq G
  <2>1. \A T \in SUBSET S : (\A x \in T : T \ {x} \in G) => T \in G
    BY <1>1
  <2> HIDE DEF G
  <2> QED BY <2>1, SubsetInduction
<1> QED
  BY <1>2

\* A sum of multiples is the multiple of the sum.
LEMMA SumScales ==
  ASSUME NEW S, IsFiniteSet(S), NEW k \in Int, NEW g, NEW h,
         \A x \in S : h[x] \in Int /\ g[x] = k * h[x]
  PROVE  SumFunctionOnSet(g, S) = k * SumFunctionOnSet(h, S)
<1> DEFINE G == {T \in SUBSET S :
                   SumFunctionOnSet(g, T) = k * SumFunctionOnSet(h, T)}
<1>0. k * 0 = 0 /\ \A m, n \in Int : k * (m + n) = k * m + k * n
  OBVIOUS
<1>1. ASSUME NEW T \in SUBSET S, \A x \in T : T \ {x} \in G
      PROVE  T \in G
  <2>1. IsFiniteSet(T)
    BY FS_Subset
  <2>2. CASE T = {}
    <3>1. SumFunctionOnSet(g, T) = 0 /\ SumFunctionOnSet(h, T) = 0
      BY <2>1, <2>2, SumUnfolds
    <3> QED BY <1>0, <3>1
  <2>3. CASE T # {}
    <3> DEFINE p == Pick(T)
               U == T \ {Pick(T)}
    <3>1. p \in T
      BY <2>3, PickIn
    <3>2. IsFiniteSet(U) /\ U \in G
      BY <1>1, <2>1, <3>1, FS_RemoveElement
    <3>3. SumFunctionOnSet(h, U) \in Int /\ h[p] \in Int
      BY <3>1, <3>2, SumType
    <3>4. /\ SumFunctionOnSet(g, T) = g[p] + SumFunctionOnSet(g, U)
          /\ SumFunctionOnSet(h, T) = h[p] + SumFunctionOnSet(h, U)
      BY <2>1, <2>3, SumUnfolds
    <3>5. g[p] = k * h[p]
      BY <3>1
    <3>6. SumFunctionOnSet(g, U) = k * SumFunctionOnSet(h, U)
      BY <3>2
    <3> HIDE DEF p, U
    <3>7. k * (h[p] + SumFunctionOnSet(h, U))
            = k * h[p] + k * SumFunctionOnSet(h, U)
      BY <1>0, <3>3
    <3>8. SumFunctionOnSet(g, T) = k * SumFunctionOnSet(h, T)
      BY <3>4, <3>5, <3>6, <3>7, Zenon
    <3> QED BY <3>8
  <2> QED
    BY <2>2, <2>3
<1>2. SUBSET S \subseteq G
  <2>1. \A T \in SUBSET S : (\A x \in T : T \ {x} \in G) => T \in G
    BY <1>1
  <2> HIDE DEF G
  <2> QED BY <2>1, SubsetInduction
<1> QED
  BY <1>2

\* Adding one for every member counts the members.
LEMMA SumCounts ==
  ASSUME NEW S, IsFiniteSet(S), NEW h, \A x \in S : h[x] = 1
  PROVE  SumFunctionOnSet(h, S) = Cardinality(S)
<1> DEFINE G == {T \in SUBSET S : SumFunctionOnSet(h, T) = Cardinality(T)}
<1>1. ASSUME NEW T \in SUBSET S, \A x \in T : T \ {x} \in G
      PROVE  T \in G
  <2>1. IsFiniteSet(T)
    BY FS_Subset
  <2>2. CASE T = {}
    <3>1. SumFunctionOnSet(h, T) = 0 /\ Cardinality(T) = 0
      BY <2>1, <2>2, SumUnfolds, FS_EmptySet
    <3> QED BY <3>1
  <2>3. CASE T # {}
    <3> DEFINE p == Pick(T)
               U == T \ {Pick(T)}
    <3>1. p \in T /\ h[p] = 1
      BY <2>3, PickIn
    <3>2. SumFunctionOnSet(h, U) = Cardinality(U)
      BY <1>1, <3>1
    <3>3. SumFunctionOnSet(h, T) = h[p] + SumFunctionOnSet(h, U)
      BY <2>1, <2>3, SumUnfolds
    <3>4. Cardinality(U) = Cardinality(T) - 1 /\ Cardinality(T) \in Nat
      BY <2>1, <3>1, FS_RemoveElement, FS_CardinalityType
    <3> HIDE DEF p, U
    <3>5. SumFunctionOnSet(h, T) = Cardinality(T)
      BY <3>1, <3>2, <3>3, <3>4
    <3> QED BY <3>5
  <2> QED
    BY <2>2, <2>3
<1>2. SUBSET S \subseteq G
  <2>1. \A T \in SUBSET S : (\A x \in T : T \ {x} \in G) => T \in G
    BY <1>1
  <2> HIDE DEF G
  <2> QED BY <2>1, SubsetInduction
<1> QED
  BY <1>2

-----------------------------------------------------------------------------
(* Sums regrouped. *)

LEMMA SumOne ==
  ASSUME NEW x, NEW h, h[x] \in Int
  PROVE  SumFunctionOnSet(h, {x}) = h[x]
<1>1. IsFiniteSet({x}) /\ IsFiniteSet({})
  BY FS_Singleton, FS_EmptySet
<1>2. SumFunctionOnSet(h, {x}) = h[x] + SumFunctionOnSet(h, {x} \ {x})
  BY <1>1, SumTakes
<1>3. {x} \ {x} = {} /\ SumFunctionOnSet(h, {}) = 0
  BY <1>1, SumUnfolds
<1>4. SumFunctionOnSet(h, {x}) = h[x] + 0
  BY <1>2, <1>3, Zenon
<1> QED
  BY <1>4

\* Grouped by any key, a sum is the sum of the groups' sums.
LEMMA SumGroups ==
  ASSUME NEW S, IsFiniteSet(S), NEW K, IsFiniteSet(K), NEW c \in [S -> K],
         NEW h, \A x \in S : h[x] \in Int
  PROVE  SumFunctionOnSet(h, S) =
           SumFunctionOnSet([k \in K |-> SumFunctionOnSet(h, {x \in S : c[x] = k})], K)
<1> DEFINE of(T, k) == {x \in T : c[x] = k}
           F(T) == [k \in K |-> SumFunctionOnSet(h, of(T, k))]
           G == {T \in SUBSET S : SumFunctionOnSet(h, T) = SumFunctionOnSet(F(T), K)}
<1>0. ASSUME NEW T \in SUBSET S, NEW k \in K
      PROVE  IsFiniteSet(of(T, k)) /\ SumFunctionOnSet(h, of(T, k)) \in Int
  <2>1. of(T, k) \in SUBSET S
    OBVIOUS
  <2>2. IsFiniteSet(of(T, k))
    BY <2>1, FS_Subset
  <2>3. \A x \in of(T, k) : h[x] \in Int
    OBVIOUS
  <2> QED
    BY <2>2, <2>3, SumType
<1>1. ASSUME NEW T \in SUBSET S, \A x \in T : T \ {x} \in G
      PROVE  T \in G
  <2>1. IsFiniteSet(T)
    BY FS_Subset
  <2>2. CASE T = {}
    <3>1. SumFunctionOnSet(h, T) = 0
      BY <2>1, <2>2, SumUnfolds
    <3>2. ASSUME NEW k \in K PROVE F(T)[k] = 0
      <4>1. of(T, k) = {}
        BY <2>2
      <4>2. SumFunctionOnSet(h, {}) = 0
        BY FS_EmptySet, SumUnfolds
      <4> QED
        BY <4>1, <4>2
    <3>3. SumFunctionOnSet(F(T), K) = SumFunctionOnSet(F(T), {})
      <4> HIDE DEF F
      <4>1. \A k \in K : F(T)[k] \in Int
        BY <3>2
      <4>2. \A k \in K \ {} : F(T)[k] = 0
        BY <3>2
      <4> QED
        BY <4>1, <4>2, SumSkips
    <3>4. SumFunctionOnSet(F(T), {}) = 0
      BY FS_EmptySet, SumUnfolds
    <3> QED
      BY <3>1, <3>3, <3>4
  <2>3. CASE T # {}
    <3>0. PICK p \in T : TRUE
      BY <2>3
    <3> DEFINE U == T \ {p}
               a == c[p]
    <3>1. U \in G /\ U \in SUBSET S /\ a \in K /\ h[p] \in Int
      BY <1>1
    <3>2. SumFunctionOnSet(h, T) = h[p] + SumFunctionOnSet(h, U)
      BY <2>1, SumTakes
    <3>3. ASSUME NEW k \in K \ {a} PROVE F(T)[k] = F(U)[k]
      <4>1. of(T, k) = of(U, k)
        OBVIOUS
      <4> QED
        BY <4>1
    <3>4. F(T)[a] = h[p] + F(U)[a]
      <4>1. p \in of(T, a) /\ of(T, a) \ {p} = of(U, a)
        OBVIOUS
      <4>2. IsFiniteSet(of(T, a)) /\ \A x \in of(T, a) : h[x] \in Int
        BY <1>0, <3>1
      <4> HIDE DEF of, U, a
      <4>3. SumFunctionOnSet(h, of(T, a)) = h[p] + SumFunctionOnSet(h, of(T, a) \ {p})
        BY <4>1, <4>2, SumTakes
      <4> QED
        BY <3>1, <4>1, <4>3
    <3>5. \A k \in K : F(T)[k] \in Int /\ F(U)[k] \in Int
      BY <1>0, <3>1
    <3>6. SumFunctionOnSet(F(T), K) = SumFunctionOnSet(F(U), K) + F(T)[a] - F(U)[a]
      <4> HIDE DEF F, a, U
      <4> QED BY <3>1, <3>3, <3>5, SumMoves
    <3>7. SumFunctionOnSet(h, U) = SumFunctionOnSet(F(U), K)
          /\ SumFunctionOnSet(h, U) \in Int
      <4>1. IsFiniteSet(U) /\ \A x \in U : h[x] \in Int
        BY <2>1, FS_Subset
      <4> QED
        BY <3>1, <4>1, SumType
    <3>8. F(U)[a] \in Int
      BY <3>1, <3>5
    <3> HIDE DEF F, a, U, G
    <3>9. SumFunctionOnSet(h, T) = SumFunctionOnSet(F(T), K)
      BY <3>1, <3>2, <3>4, <3>6, <3>7, <3>8
    <3> QED
      BY <3>9 DEF G
  <2> QED
    BY <2>2, <2>3
<1>2. SUBSET S \subseteq G
  <2>1. \A T \in SUBSET S : (\A x \in T : T \ {x} \in G) => T \in G
    BY <1>1
  <2> HIDE DEF G
  <2> QED BY <2>1, SubsetInduction
<1> QED
  BY <1>2

\* f gives every element of S a name of its own in K.
Renames(f, S, K) == K = {f[x] : x \in S} /\ \A x, y \in S : f[x] = f[y] => x = y

\* Renamed one to one, the members of a set add up to the same.
LEMMA SumRenames ==
  ASSUME NEW S, IsFiniteSet(S), NEW K, NEW f, NEW g, NEW h, Renames(f, S, K),
         \A x \in S : h[x] \in Int /\ h[x] = g[f[x]]
  PROVE  SumFunctionOnSet(h, S) = SumFunctionOnSet(g, K)
<1> DEFINE c == [x \in S |-> f[x]]
           F == [k \in K |-> SumFunctionOnSet(h, {x \in S : c[x] = k})]
<1>0. K = {f[x] : x \in S} /\ \A x, y \in S : f[x] = f[y] => x = y
  BY DEF Renames
<1>1. IsFiniteSet(K)
  <2>1. c \in Surjection(S, K)
    BY <1>0 DEF Surjection
  <2> QED
    BY <2>1, FS_Surjection
<1>2. c \in [S -> K]
  BY <1>0
<1>3. SumFunctionOnSet(h, S) = SumFunctionOnSet(F, K)
  <2> HIDE DEF c
  <2> QED BY <1>1, <1>2, SumGroups DEF F
<1>4. ASSUME NEW k \in K PROVE F[k] = g[k]
  <2>1. PICK x \in S : k = f[x]
    BY <1>0
  <2>2. {y \in S : c[y] = k} = {x}
    BY <1>0, <2>1
  <2>3. SumFunctionOnSet(h, {x}) = h[x]
    BY SumOne
  <2>4. F[k] = SumFunctionOnSet(h, {y \in S : c[y] = k})
    OBVIOUS
  <2> QED
    BY <2>1, <2>2, <2>3, <2>4
<1>5. SumFunctionOnSet(F, K) = SumFunctionOnSet(g, K)
  <2> HIDE DEF F
  <2> QED BY <1>1, <1>4, SumAgrees
<1> QED
  BY <1>3, <1>5

\* g adds h up for each key that c gives the members of S.
Groups(g, h, c, S, K) ==
  /\ \A x \in S : c[x] \in K /\ h[x] \in Int
  /\ \A k \in K : g[k] = SumFunctionOnSet(h, {x \in S : c[x] = k})

\* SumGroups, for groups that add up to something known.
LEMMA SumByKey ==
  ASSUME NEW S, IsFiniteSet(S), NEW K, IsFiniteSet(K), NEW c, NEW h, NEW g,
         Groups(g, h, c, S, K)
  PROVE  SumFunctionOnSet(h, S) = SumFunctionOnSet(g, K)
<1> DEFINE d == [x \in S |-> c[x]]
           f == [k \in K |-> SumFunctionOnSet(h, {x \in S : d[x] = k})]
<1>1. d \in [S -> K] /\ \A x \in S : h[x] \in Int
  BY DEF Groups
<1>2. \A k \in K : f[k] = g[k]
  <2> SUFFICES ASSUME NEW k \in K PROVE f[k] = g[k]
    OBVIOUS
  <2>1. {x \in S : d[x] = k} = {x \in S : c[x] = k}
    OBVIOUS
  <2>2. f[k] = SumFunctionOnSet(h, {x \in S : d[x] = k})
    OBVIOUS
  <2> QED
    BY <2>1, <2>2 DEF Groups
<1>3. SumFunctionOnSet(h, S) = SumFunctionOnSet(f, K)
  <2> HIDE DEF d
  <2> QED BY <1>1, SumGroups DEF f
<1> HIDE DEF f
<1>4. SumFunctionOnSet(f, K) = SumFunctionOnSet(g, K)
  BY <1>2, SumAgrees
<1> QED
  BY <1>3, <1>4

\* The whole is a part and the rest.
LEMMA SumSplits ==
  ASSUME NEW S, IsFiniteSet(S), NEW h, \A x \in S : h[x] \in Int, NEW R \in SUBSET S
  PROVE  SumFunctionOnSet(h, S) = SumFunctionOnSet(h, R) + SumFunctionOnSet(h, S \ R)
<1> DEFINE f == [x \in S |-> IF x \in R THEN h[x] ELSE 0]
           g == [x \in S |-> IF x \in R THEN 0 ELSE h[x]]
           Q == S \ R
<1>1. IsFiniteSet(R) /\ IsFiniteSet(Q) /\ Q \in SUBSET S
  <2>1. Q \in SUBSET S
    OBVIOUS
  <2> HIDE DEF Q
  <2> QED BY <2>1, FS_Subset
<1>2. \A x \in S : f[x] \in Int /\ g[x] \in Int /\ h[x] = f[x] + g[x]
  OBVIOUS
<1>3. /\ (\A x \in S \ R : f[x] = 0) /\ (\A x \in S \ Q : g[x] = 0)
      /\ (\A x \in R : f[x] = h[x]) /\ (\A x \in Q : g[x] = h[x])
  OBVIOUS
<1> HIDE DEF f, g, Q
<1>4. SumFunctionOnSet(h, S) = SumFunctionOnSet(f, S) + SumFunctionOnSet(g, S)
  BY <1>2, SumAdds
<1>5. SumFunctionOnSet(f, S) = SumFunctionOnSet(f, R)
  BY <1>2, <1>3, SumSkips
<1>6. SumFunctionOnSet(g, S) = SumFunctionOnSet(g, Q)
  BY <1>1, <1>2, <1>3, SumSkips
<1>7. SumFunctionOnSet(f, R) = SumFunctionOnSet(h, R)
  BY <1>1, <1>3, SumAgrees
<1>8. SumFunctionOnSet(g, Q) = SumFunctionOnSet(h, Q)
  BY <1>1, <1>3, SumAgrees
<1> QED
  BY <1>4, <1>5, <1>6, <1>7, <1>8 DEF Q

\* The rows and the columns of a table that has an entry for each pair in E.
RowOfPairs(E, B, a) == {b \in B : <<a, b>> \in E}
ColumnOfPairs(E, A, b) == {a \in A : <<a, b>> \in E}

RowSums(f, g, E, A, B) ==
  \A a \in A : f[a] = SumFunctionOnSet([b \in RowOfPairs(E, B, a) |-> g[<<a, b>>]],
                                       RowOfPairs(E, B, a))
ColumnSums(f, g, E, A, B) ==
  \A b \in B : f[b] = SumFunctionOnSet([a \in ColumnOfPairs(E, A, b) |-> g[<<a, b>>]],
                                       ColumnOfPairs(E, A, b))

\* A table added up by its rows, or by its columns.
LEMMA SumRows ==
  ASSUME NEW A, IsFiniteSet(A), NEW B, IsFiniteSet(B), NEW E \in SUBSET (A \X B),
         NEW g, \A e \in E : g[e] \in Int, NEW f, RowSums(f, g, E, A, B)
  PROVE  SumFunctionOnSet(g, E) = SumFunctionOnSet(f, A)
<1> DEFINE c == [e \in E |-> e[1]]
<1>1. IsFiniteSet(E)
  <2>1. IsFiniteSet(A \X B)
    BY FS_Product
  <2> QED BY <2>1, FS_Subset
<1>2. ASSUME NEW a \in A
      PROVE  f[a] = SumFunctionOnSet(g, {e \in E : c[e] = a})
  <2> DEFINE R == RowOfPairs(E, B, a)
             h == [b \in R |-> g[<<a, b>>]]
             m == [b \in R |-> <<a, b>>]
             K == {e \in E : c[e] = a}
  <2>1. IsFiniteSet(R)
    <3>1. R \in SUBSET B
      BY DEF RowOfPairs
    <3> HIDE DEF R
    <3> QED BY <3>1, FS_Subset
  <2>2. \A b \in R : h[b] \in Int /\ h[b] = g[m[b]]
    BY DEF RowOfPairs
  <2>3. \A x, y \in R : m[x] = m[y] => x = y
    OBVIOUS
  <2>7. \A b \in R : m[b] \in K
    BY DEF RowOfPairs
  <2>8. ASSUME NEW e \in K PROVE \E b \in R : e = m[b]
    <3>1. e = <<a, e[2]>> /\ e[2] \in B /\ e \in E
      OBVIOUS
    <3>2. e[2] \in R
      BY <3>1 DEF RowOfPairs
    <3> QED
      BY <3>1, <3>2
  <2>4. f[a] = SumFunctionOnSet(h, R)
    BY DEF RowSums
  <2> HIDE DEF R, h, m, K
  <2>5. Renames(m, R, K)
    BY <2>3, <2>7, <2>8 DEF Renames
  <2>6. SumFunctionOnSet(h, R) = SumFunctionOnSet(g, K)
    BY <2>1, <2>2, <2>5, SumRenames
  <2> QED
    BY <2>4, <2>6 DEF K
<1>3. \A e \in E : c[e] \in A
  OBVIOUS
<1> HIDE DEF c
<1>4. Groups(f, g, c, E, A)
  BY <1>2, <1>3 DEF Groups
<1> QED
  BY <1>1, <1>4, SumByKey

LEMMA SumColumns ==
  ASSUME NEW A, IsFiniteSet(A), NEW B, IsFiniteSet(B), NEW E \in SUBSET (A \X B),
         NEW g, \A e \in E : g[e] \in Int, NEW f, ColumnSums(f, g, E, A, B)
  PROVE  SumFunctionOnSet(g, E) = SumFunctionOnSet(f, B)
<1> DEFINE c == [e \in E |-> e[2]]
<1>1. IsFiniteSet(E)
  <2>1. IsFiniteSet(A \X B)
    BY FS_Product
  <2> QED BY <2>1, FS_Subset
<1>2. ASSUME NEW b \in B
      PROVE  f[b] = SumFunctionOnSet(g, {e \in E : c[e] = b})
  <2> DEFINE R == ColumnOfPairs(E, A, b)
             h == [a \in R |-> g[<<a, b>>]]
             m == [a \in R |-> <<a, b>>]
             K == {e \in E : c[e] = b}
  <2>1. IsFiniteSet(R)
    <3>1. R \in SUBSET A
      BY DEF ColumnOfPairs
    <3> HIDE DEF R
    <3> QED BY <3>1, FS_Subset
  <2>2. \A a \in R : h[a] \in Int /\ h[a] = g[m[a]]
    BY DEF ColumnOfPairs
  <2>3. \A x, y \in R : m[x] = m[y] => x = y
    OBVIOUS
  <2>7. \A a \in R : m[a] \in K
    BY DEF ColumnOfPairs
  <2>8. ASSUME NEW e \in K PROVE \E a \in R : e = m[a]
    <3>1. e = <<e[1], b>> /\ e[1] \in A /\ e \in E
      OBVIOUS
    <3>2. e[1] \in R
      BY <3>1 DEF ColumnOfPairs
    <3> QED
      BY <3>1, <3>2
  <2>4. f[b] = SumFunctionOnSet(h, R)
    BY DEF ColumnSums
  <2> HIDE DEF R, h, m, K
  <2>5. Renames(m, R, K)
    BY <2>3, <2>7, <2>8 DEF Renames
  <2>6. SumFunctionOnSet(h, R) = SumFunctionOnSet(g, K)
    BY <2>1, <2>2, <2>5, SumRenames
  <2> QED
    BY <2>4, <2>6 DEF K
<1>3. \A e \in E : c[e] \in B
  OBVIOUS
<1> HIDE DEF c
<1>4. Groups(f, g, c, E, B)
  BY <1>2, <1>3 DEF Groups
<1> QED
  BY <1>1, <1>4, SumByKey

\* What one member adds to all.
LEMMA SumAtOne ==
  ASSUME NEW S, IsFiniteSet(S), NEW a \in S, NEW v \in Int, NEW h,
         \A x \in S : h[x] = IF x = a THEN v ELSE 0
  PROVE  SumFunctionOnSet(h, S) = v
<1>1. {a} \in SUBSET S /\ (\A x \in S : h[x] \in Int) /\ (\A x \in S \ {a} : h[x] = 0) /\ h[a] = v
  OBVIOUS
<1>2. SumFunctionOnSet(h, S) = SumFunctionOnSet(h, {a})
  BY <1>1, SumSkips
<1>3. SumFunctionOnSet(h, {a}) = h[a]
  BY <1>1, SumOne
<1> QED
  BY <1>1, <1>2, <1>3
=============================================================================
