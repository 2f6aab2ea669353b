------------------------- MODULE AdmissionTape_proofs -------------------------
(* Proofs about the two components whose correctness bounds sums over rows.    *)
(*                                                                             *)
(* Admission: for any number of scans, orders, decisions and markets and any   *)
(* limits, one live position for each market, research evidence that agrees    *)
(* with the orders entered on it, and both accounts within their limits.       *)
(*                                                                             *)
(* MakerTape: for any quotes, trades and grace, no trade is given out twice,   *)
(* rows and journal agree, a repeated batch credits nothing, and a quote that  *)
(* expires has been credited all that traded through it.                       *)
(*                                                                             *)
(* The module begins with what a sum over a finite set is.                     *)
EXTENDS Admission, MakerTape, FiniteSetTheorems, WellFoundedInduction, TLAPS

-----------------------------------------------------------------------------
(* Sums over finite sets.                                                      *)

(* A set of subsets of a finite set that has a set as soon as it has every set *)
(* with one element less has them all.                                         *)
LEMMA SubsetInduction ==
  ASSUME NEW S, IsFiniteSet(S), NEW Good,
         \A T \in SUBSET S : (\A x \in T : T \ {x} \in Good) => T \in Good
  PROVE  \A T \in SUBSET S : T \in Good
<1> DEFINE Bad == {T \in SUBSET S : T \notin Good}
           R == StrictSubsetOrdering(S)
<1> SUFFICES ASSUME Bad # {} PROVE FALSE
  OBVIOUS
<1>1. IsWellFoundedOn(R, FiniteSubsetsOf(S))
  BY FS_StrictSubsetOrderingWellFounded
<1>2. Bad \subseteq FiniteSubsetsOf(S)
  BY FS_Subset DEF FiniteSubsetsOf
<1>3. PICK T \in Bad : \A U \in Bad : <<U, T>> \notin R
  <2> HIDE DEF Bad, R
  <2> QED BY <1>1, <1>2, WFMin
<1>4. \A x \in T : T \ {x} \in Good
  <2> SUFFICES ASSUME NEW x \in T, T \ {x} \in Bad PROVE FALSE
    OBVIOUS
  <2>1. <<T \ {x}, T>> \in R
    BY DEF StrictSubsetOrdering
  <2> QED BY <1>3, <2>1
<1> QED BY <1>4

(* A recursion over the subsets of a finite set that takes one element away at *)
(* a time has a solution.                                                      *)
Solves(g, D, base, Choice, Fold) ==
  \A s \in D : g[s] = IF s = {} THEN base ELSE Fold[s][g[s \ {Choice[s]}]]

(* A set of natural numbers that is not empty has a least element.             *)
LEMMA LeastNat ==
  ASSUME NEW T \in SUBSET Nat, T # {}
  PROVE  \E n \in T : \A m \in T : n <= m
<1> DEFINE R == {ss \in Nat \X Nat : ss[1] < ss[2]}
<1>1. IsWellFoundedOn(R, Nat)
  BY NatLessThanWellFounded DEF OpToRel
<1> HIDE DEF R
<1>2. PICK n \in T : \A m \in T : <<m, n>> \notin R
  BY <1>1, WFMin
<1>3. \A m \in T : n <= m
  <2> SUFFICES ASSUME NEW m \in T PROVE n <= m OBVIOUS
  <2>1. m \in Nat /\ n \in Nat OBVIOUS
  <2>2. ~(m < n) BY <1>2, <2>1 DEF R
  <2> QED BY <2>1, <2>2
<1> QED BY <1>3

(* It is built by the sizes of the subsets: had some size no solution, the     *)
(* least such size would follow one that has.                                  *)
LEMMA FoldExists ==
  ASSUME NEW S, IsFiniteSet(S), NEW A, NEW base \in A, NEW Choice, NEW Fold,
         \A s \in SUBSET S : s # {} => Choice[s] \in s,
         \A s \in SUBSET S : \A a \in A : s # {} => Fold[s][a] \in A
  PROVE  \E g \in [SUBSET S -> A] : Solves(g, SUBSET S, base, Choice, Fold)
<1> DEFINE D(n) == {s \in SUBSET S : Cardinality(s) <= n}
           Has(n) == \E g \in [D(n) -> A] : Solves(g, D(n), base, Choice, Fold)
           Missing == {n \in Nat : ~Has(n)}
<1>0. \A s \in SUBSET S : IsFiniteSet(s) /\ Cardinality(s) \in Nat
  BY FS_Subset, FS_CardinalityType
<1>1. Has(0)
  <2> DEFINE g == [s \in D(0) |-> base]
  <2>1. \A s \in D(0) : s = {}
    <3> SUFFICES ASSUME NEW s \in SUBSET S, Cardinality(s) <= 0 PROVE s = {} OBVIOUS
    <3>1. Cardinality(s) = 0 BY <1>0
    <3> QED BY <1>0, <3>1, FS_EmptySet
  <2>2. g \in [D(0) -> A] OBVIOUS
  <2>3. Solves(g, D(0), base, Choice, Fold) BY <2>1 DEF Solves
  <2> QED BY <2>2, <2>3
<1>2. ASSUME NEW n \in Nat, Has(n) PROVE Has(n + 1)
  <2>1. PICK g \in [D(n) -> A] : Solves(g, D(n), base, Choice, Fold)
    BY <1>2
  <2> DEFINE h == [s \in D(n + 1) |-> IF s = {} THEN base ELSE Fold[s][g[s \ {Choice[s]}]]]
  <2>2. ASSUME NEW s \in D(n + 1), s # {} PROVE s \ {Choice[s]} \in D(n)
    <3>1. Choice[s] \in s BY <2>2
    <3>2. Cardinality(s \ {Choice[s]}) = Cardinality(s) - 1
      BY <1>0, <3>1, FS_RemoveElement
    <3>3. Cardinality(s) \in Nat /\ Cardinality(s) <= n + 1 BY <1>0
    <3>4. Cardinality(s \ {Choice[s]}) <= n BY <3>2, <3>3
    <3> QED BY <3>4
  <2>3. h \in [D(n + 1) -> A]
    <3> SUFFICES ASSUME NEW s \in D(n + 1), s # {} PROVE Fold[s][g[s \ {Choice[s]}]] \in A
      OBVIOUS
    <3>1. g[s \ {Choice[s]}] \in A BY <2>2
    <3>2. s \in SUBSET S OBVIOUS
    <3> HIDE DEF D
    <3> QED BY <3>1, <3>2
  <2>4. \A s \in D(n) : s \in D(n + 1) /\ h[s] = g[s]
    <3>1. \A s \in D(n) : s \in D(n + 1) BY <1>0
    <3> HIDE DEF D
    <3> QED BY <2>1, <3>1 DEF Solves
  <2>5. Solves(h, D(n + 1), base, Choice, Fold)
    <3> HIDE DEF D
    <3> QED BY <2>2, <2>4 DEF Solves
  <2> HIDE DEF h
  <2> QED BY <2>3, <2>5
<1>3. \A n \in Nat : Has(n)
  <2> HIDE DEF Has
  <2> SUFFICES ASSUME Missing # {} PROVE FALSE OBVIOUS
  <2>1. PICK n \in Missing : \A m \in Missing : n <= m
    <3> HIDE DEF Missing
    <3>1. Missing \in SUBSET Nat BY DEF Missing
    <3> QED BY <3>1, LeastNat
  <2>2. n # 0 BY <1>1
  <2>3. n - 1 \in Nat /\ n - 1 \notin Missing BY <2>1, <2>2
  <2>4. Has(n - 1) BY <2>3
  <2>5. Has((n - 1) + 1) BY <1>2, <2>3, <2>4
  <2>6. (n - 1) + 1 = n OBVIOUS
  <2> QED BY <2>5, <2>6
<1>4. Cardinality(S) \in Nat /\ \A s \in SUBSET S : Cardinality(s) <= Cardinality(S)
  BY FS_Subset, FS_CardinalityType
<1>5. D(Cardinality(S)) = SUBSET S BY <1>4
<1>6. Has(Cardinality(S)) BY <1>3, <1>4
<1> HIDE DEF D
<1> QED BY <1>5, <1>6

-----------------------------------------------------------------------------
(* The recursion of SumFunctionOnSet: which element goes first, and its step. *)
AnyOf(S) == [s \in SUBSET S |-> CHOOSE x \in s : TRUE]
Adding(F, S) == [s \in SUBSET S |-> [n \in Int |-> F[AnyOf(S)[s]] + n]]
SumSteps(F, S) ==
  CHOOSE iter : iter = [s \in SUBSET S |->
     IF s = {} THEN 0 ELSE LET x == CHOOSE x \in s : TRUE IN F[x] + iter[s \ {x}]]

(* A sum is the recursion its definition chooses, taken at the whole set.      *)
LEMMA SumUnfolds == ASSUME NEW F, NEW S PROVE SumFunctionOnSet(F, S) = SumSteps(F, S)[S]
BY DEF SumFunctionOnSet, FoldFunctionOnSet, MapThenFoldSet, SumSteps

(* What a solution of it satisfies.                                           *)
SumsUp(g, F, S) ==
  /\ g \in [SUBSET S -> Int]
  /\ \A s \in SUBSET S : g[s] = IF s = {} THEN 0 ELSE F[AnyOf(S)[s]] + g[s \ {AnyOf(S)[s]}]

(* That recursion exists, and its values are integers.                         *)
LEMMA SumStepsIs ==
  ASSUME NEW S, IsFiniteSet(S), NEW F, \A x \in S : F[x] \in Int
  PROVE  SumsUp(SumSteps(F, S), F, S)
<1>1. \A s \in SUBSET S : s # {} => AnyOf(S)[s] \in s
  BY DEF AnyOf
<1>2. \A s \in SUBSET S : \A n \in Int : s # {} => Adding(F, S)[s][n] \in Int
  BY <1>1 DEF Adding
<1>3. PICK g \in [SUBSET S -> Int] : Solves(g, SUBSET S, 0, AnyOf(S), Adding(F, S))
  <2>1. 0 \in Int OBVIOUS
  <2> QED BY ONLY IsFiniteSet(S), <1>1, <1>2, <2>1, FoldExists, Zenon
<1>4. \A s \in SUBSET S : g[s] = IF s = {} THEN 0 ELSE F[AnyOf(S)[s]] + g[s \ {AnyOf(S)[s]}]
  <2> SUFFICES ASSUME NEW s \in SUBSET S, s # {} PROVE g[s] = F[AnyOf(S)[s]] + g[s \ {AnyOf(S)[s]}]
    BY <1>3 DEF Solves
  <2>1. s \ {AnyOf(S)[s]} \in SUBSET S OBVIOUS
  <2>2. g[s] = Adding(F, S)[s][g[s \ {AnyOf(S)[s]}]] BY <1>3 DEF Solves
  <2>3. g[s \ {AnyOf(S)[s]}] \in Int BY <2>1
  <2> QED BY <2>2, <2>3 DEF Adding
<1>5. g = [s \in SUBSET S |->
     IF s = {} THEN 0 ELSE LET x == CHOOSE x \in s : TRUE IN F[x] + g[s \ {x}]]
  BY <1>4 DEF AnyOf
<1>6. SumSteps(F, S) = [s \in SUBSET S |->
     IF s = {} THEN 0 ELSE LET x == CHOOSE x \in s : TRUE IN F[x] + SumSteps(F, S)[s \ {x}]]
  BY <1>5 DEF SumSteps
<1> DEFINE f == SumSteps(F, S)
<1>7. \A s \in SUBSET S : f[s] = IF s = {} THEN 0 ELSE F[AnyOf(S)[s]] + f[s \ {AnyOf(S)[s]}]
  BY <1>6 DEF AnyOf
<1>8. \A s \in SUBSET S : s \in {t \in SUBSET S : f[t] \in Int}
  <2> DEFINE Good == {t \in SUBSET S : f[t] \in Int}
  <2>1. ASSUME NEW T \in SUBSET S, \A x \in T : T \ {x} \in Good PROVE T \in Good
    <3>1. CASE T = {}
      BY <1>7, <3>1
    <3>2. CASE T # {}
      <4> DEFINE c == AnyOf(S)[T]
      <4>1. c \in T BY <1>1, <3>2
      <4>2. f[T \ {c}] \in Int BY <2>1, <4>1
      <4>3. f[T] = F[c] + f[T \ {c}] BY <1>7, <3>2
      <4>4. F[c] \in Int BY <4>1
      <4> QED BY <4>2, <4>3, <4>4
    <3> QED BY <3>1, <3>2
  <2> HIDE DEF Good
  <2>2. \A T \in SUBSET S : T \in Good BY <2>1, SubsetInduction
  <2> QED BY <2>2 DEF Good
<1>9. f \in [SUBSET S -> Int]
  <2>1. f = [s \in SUBSET S |-> f[s]] BY <1>6
  <2> HIDE DEF f
  <2> QED BY <1>8, <2>1
<1> QED BY <1>7, <1>9 DEF SumsUp

(* The sum over a subset is what the recursion over the set has for it.        *)
LEMMA SumSubset ==
  ASSUME NEW S, IsFiniteSet(S), NEW F, \A x \in S : F[x] \in Int
  PROVE  \A T \in SUBSET S : SumFunctionOnSet(F, T) = SumSteps(F, S)[T]
<1> SUFFICES ASSUME NEW T \in SUBSET S PROVE SumSteps(F, T)[T] = SumSteps(F, S)[T]
  BY SumUnfolds
<1> DEFINE Good == {U \in SUBSET T : SumSteps(F, T)[U] = SumSteps(F, S)[U]}
<1>0. IsFiniteSet(T)
  BY FS_Subset
<1>a. SumsUp(SumSteps(F, S), F, S) /\ SumsUp(SumSteps(F, T), F, T)
  BY <1>0, SumStepsIs
<1>1. ASSUME NEW U \in SUBSET T, \A x \in U : U \ {x} \in Good PROVE U \in Good
  <2>1. AnyOf(S)[U] = AnyOf(T)[U] /\ (U # {} => AnyOf(T)[U] \in U)
    BY DEF AnyOf
  <2>2. SumSteps(F, S)[U] = IF U = {} THEN 0 ELSE F[AnyOf(S)[U]] + SumSteps(F, S)[U \ {AnyOf(S)[U]}]
    BY <1>a DEF SumsUp
  <2>3. SumSteps(F, T)[U] = IF U = {} THEN 0 ELSE F[AnyOf(T)[U]] + SumSteps(F, T)[U \ {AnyOf(T)[U]}]
    BY <1>a DEF SumsUp
  <2> QED BY <1>1, <2>1, <2>2, <2>3
<1>2. \A U \in SUBSET T : U \in Good
  <2> HIDE DEF Good
  <2> QED BY <1>0, <1>1, SubsetInduction
<1> QED BY <1>2

(* A sum of nothing.                                                           *)
LEMMA SumEmpty == ASSUME NEW F PROVE SumFunctionOnSet(F, {}) = 0
<1>1. IsFiniteSet({})
  BY FS_EmptySet
<1>2. SumSteps(F, {})[{}] = 0
  <2>1. SumsUp(SumSteps(F, {}), F, {})
    BY <1>1, SumStepsIs
  <2> QED BY <2>1 DEF SumsUp
<1> QED BY <1>2, SumUnfolds

(* A sum of integers is an integer.                                            *)
LEMMA SumInt ==
  ASSUME NEW S, IsFiniteSet(S), NEW F, \A x \in S : F[x] \in Int
  PROVE  SumFunctionOnSet(F, S) \in Int
<1>1. SumsUp(SumSteps(F, S), F, S)
  BY SumStepsIs
<1> QED BY <1>1, SumUnfolds DEF SumsUp

(* A sum is one of its terms, the one CHOOSE takes, and the sum of the rest.   *)
LEMMA SumChosen ==
  ASSUME NEW S, IsFiniteSet(S), NEW F, \A x \in S : F[x] \in Int, S # {}
  PROVE  \E c \in S : SumFunctionOnSet(F, S) = F[c] + SumFunctionOnSet(F, S \ {c})
<1> DEFINE c == AnyOf(S)[S]
<1>1. c \in S
  BY DEF AnyOf
<1>2. SumSteps(F, S)[S] = F[c] + SumSteps(F, S)[S \ {c}]
  <2>1. SumsUp(SumSteps(F, S), F, S)
    BY SumStepsIs
  <2> QED BY <2>1 DEF SumsUp
<1>3. SumSteps(F, S)[S \ {c}] = SumFunctionOnSet(F, S \ {c})
  BY SumSubset
<1> QED BY <1>1, <1>2, <1>3, SumUnfolds

(* It does not matter which: any element may be taken out of a sum.            *)
LEMMA SumRemove ==
  ASSUME NEW S, IsFiniteSet(S), NEW F, \A x \in S : F[x] \in Int, NEW x \in S
  PROVE  SumFunctionOnSet(F, S) = F[x] + SumFunctionOnSet(F, S \ {x})
<1> DEFINE Sum(T) == SumFunctionOnSet(F, T)
           Good == {T \in SUBSET S : \A y \in T : Sum(T) = F[y] + Sum(T \ {y})}
<1>1. \A T \in SUBSET S : Sum(T) \in Int /\ (T # {} => \E c \in T : Sum(T) = F[c] + Sum(T \ {c}))
  BY FS_Subset, SumInt, SumChosen
<1> HIDE DEF Sum
<1>2. ASSUME NEW T \in SUBSET S, \A y \in T : T \ {y} \in Good PROVE T \in Good
  <2> SUFFICES ASSUME NEW y \in T PROVE Sum(T) = F[y] + Sum(T \ {y})
    OBVIOUS
  <2>1. PICK c \in T : Sum(T) = F[c] + Sum(T \ {c})
    BY <1>1
  <2>2. CASE c # y
    <3> DEFINE rest == Sum((T \ {y}) \ {c})
    <3>1. Sum(T \ {c}) = F[y] + rest
      <4>1. (T \ {c}) \ {y} = (T \ {y}) \ {c}
        OBVIOUS
      <4>2. Sum(T \ {c}) = F[y] + Sum((T \ {c}) \ {y})
        BY <1>2, <2>2
      <4> QED BY <4>1, <4>2
    <3>2. Sum(T \ {y}) = F[c] + rest
      BY <1>2, <2>2
    <3>3. F[c] \in Int /\ F[y] \in Int /\ rest \in Int
      BY <1>1
    <3> HIDE DEF rest
    <3> QED BY <2>1, <3>1, <3>2, <3>3
  <2> QED BY <2>1, <2>2
<1>3. \A T \in SUBSET S : T \in Good
  <2> HIDE DEF Good
  <2> QED BY <1>2, SubsetInduction
<1>4. Sum(S) = F[x] + Sum(S \ {x})
  BY <1>3
<1> QED BY <1>4 DEF Sum

(* A sum of terms that are no larger is no larger.                             *)
LEMMA SumMonotone ==
  ASSUME NEW S, IsFiniteSet(S), NEW F, NEW G,
         \A x \in S : F[x] \in Int /\ G[x] \in Int /\ F[x] <= G[x]
  PROVE  SumFunctionOnSet(F, S) <= SumFunctionOnSet(G, S)
<1> DEFINE Good == {T \in SUBSET S : SumFunctionOnSet(F, T) <= SumFunctionOnSet(G, T)}
<1>1. ASSUME NEW T \in SUBSET S, \A x \in T : T \ {x} \in Good PROVE T \in Good
  <2>1. CASE T = {}
    BY <2>1, SumEmpty
  <2>2. ASSUME NEW x \in T PROVE T \in Good
    <3>1. IsFiniteSet(T) /\ IsFiniteSet(T \ {x})
      BY FS_Subset
    <3>2. SumFunctionOnSet(F, T) = F[x] + SumFunctionOnSet(F, T \ {x})
          /\ SumFunctionOnSet(G, T) = G[x] + SumFunctionOnSet(G, T \ {x})
      BY <3>1, SumRemove
    <3>3. SumFunctionOnSet(F, T \ {x}) \in Int /\ SumFunctionOnSet(G, T \ {x}) \in Int
      BY <3>1, SumInt
    <3>4. SumFunctionOnSet(F, T \ {x}) <= SumFunctionOnSet(G, T \ {x}) /\ F[x] <= G[x]
      BY <1>1, <2>2
    <3>5. F[x] \in Int /\ G[x] \in Int
      OBVIOUS
    <3> QED BY <3>2, <3>3, <3>4, <3>5
  <2> QED BY <2>1, <2>2
<1>2. \A T \in SUBSET S : T \in Good
  <2> HIDE DEF Good
  <2> QED BY <1>1, SubsetInduction
<1> QED BY <1>2

(* Sums of the same terms.                                                     *)
LEMMA SumSame ==
  ASSUME NEW S, IsFiniteSet(S), NEW F, NEW G, \A x \in S : F[x] \in Int /\ G[x] = F[x]
  PROVE  SumFunctionOnSet(G, S) = SumFunctionOnSet(F, S)
<1>1. SumFunctionOnSet(F, S) <= SumFunctionOnSet(G, S) /\ SumFunctionOnSet(G, S) <= SumFunctionOnSet(F, S)
  BY SumMonotone
<1> QED BY <1>1, SumInt

(* One term changes.                                                           *)
LEMMA SumChange ==
  ASSUME NEW S, IsFiniteSet(S), NEW F, NEW G, NEW x \in S,
         \A y \in S : F[y] \in Int /\ G[y] \in Int,
         \A y \in S \ {x} : G[y] = F[y]
  PROVE  SumFunctionOnSet(G, S) = SumFunctionOnSet(F, S) + G[x] - F[x]
<1>1. IsFiniteSet(S \ {x})
  BY FS_Subset
<1>2. SumFunctionOnSet(G, S \ {x}) = SumFunctionOnSet(F, S \ {x}) /\ SumFunctionOnSet(F, S \ {x}) \in Int
  BY <1>1, SumSame, SumInt
<1>3. SumFunctionOnSet(F, S) = F[x] + SumFunctionOnSet(F, S \ {x})
      /\ SumFunctionOnSet(G, S) = G[x] + SumFunctionOnSet(G, S \ {x})
  BY SumRemove
<1> QED BY <1>2, <1>3

(* A sum over a subset is a sum over the set that counts nothing outside it.   *)
LEMMA SumWithin ==
  ASSUME NEW S, IsFiniteSet(S), NEW T \in SUBSET S, NEW F, NEW G,
         \A x \in S : F[x] \in Int /\ G[x] = IF x \in T THEN F[x] ELSE 0
  PROVE  SumFunctionOnSet(F, T) = SumFunctionOnSet(G, S)
<1> DEFINE Good == {U \in SUBSET S : SumFunctionOnSet(F, U \cap T) = SumFunctionOnSet(G, U)}
<1>1. ASSUME NEW U \in SUBSET S, \A x \in U : U \ {x} \in Good PROVE U \in Good
  <2>1. CASE U = {}
    <3>1. U \cap T = {}
      BY <2>1
    <3> QED BY <2>1, <3>1, SumEmpty
  <2>2. ASSUME NEW x \in U PROVE U \in Good
    <3>1. IsFiniteSet(U) /\ IsFiniteSet(U \ {x}) /\ IsFiniteSet(U \cap T)
      BY FS_Subset
    <3>2. SumFunctionOnSet(G, U) = G[x] + SumFunctionOnSet(G, U \ {x})
      BY <3>1, SumRemove
    <3>3. SumFunctionOnSet(F, (U \ {x}) \cap T) = SumFunctionOnSet(G, U \ {x})
      BY <1>1, <2>2
    <3>4. SumFunctionOnSet(G, U \ {x}) \in Int
      BY <3>1, SumInt
    <3>5. CASE x \in T
      <4>1. SumFunctionOnSet(F, U \cap T) = F[x] + SumFunctionOnSet(F, (U \cap T) \ {x})
        BY <3>1, <3>5, SumRemove
      <4>2. (U \cap T) \ {x} = (U \ {x}) \cap T
        OBVIOUS
      <4> QED BY <3>2, <3>3, <3>5, <4>1, <4>2
    <3>6. CASE x \notin T
      <4>1. U \cap T = (U \ {x}) \cap T
        BY <3>6
      <4>2. G[x] = 0
        BY <3>6
      <4>3. SumFunctionOnSet(G, U) = SumFunctionOnSet(G, U \ {x})
        BY <3>2, <3>4, <4>2
      <4>4. SumFunctionOnSet(F, U \cap T) = SumFunctionOnSet(G, U \ {x})
        BY <3>3, <4>1
      <4> QED BY <4>3, <4>4
    <3> QED BY <3>5, <3>6
  <2> QED BY <2>1, <2>2
<1>2. S \in Good
  <2> HIDE DEF Good
  <2> QED BY <1>1, SubsetInduction
<1>3. S \cap T = T
  OBVIOUS
<1> QED BY <1>2, <1>3

(* A sum of zeros.                                                             *)
LEMMA SumZero ==
  ASSUME NEW S, IsFiniteSet(S), NEW F, \A x \in S : F[x] = 0
  PROVE  SumFunctionOnSet(F, S) = 0
<1>1. \A x \in S : F[x] \in Int /\ F[x] = IF x \in {} THEN F[x] ELSE 0
  OBVIOUS
<1>2. SumFunctionOnSet(F, {}) = SumFunctionOnSet(F, S)
  BY <1>1, SumWithin
<1> QED BY <1>2, SumEmpty

(* A sum of sums.                                                              *)
LEMMA SumPlus ==
  ASSUME NEW S, IsFiniteSet(S), NEW F, NEW G, NEW H,
         \A x \in S : F[x] \in Int /\ G[x] \in Int /\ H[x] = F[x] + G[x]
  PROVE  SumFunctionOnSet(H, S) = SumFunctionOnSet(F, S) + SumFunctionOnSet(G, S)
<1> DEFINE Good == {T \in SUBSET S : SumFunctionOnSet(H, T) = SumFunctionOnSet(F, T) + SumFunctionOnSet(G, T)}
<1>1. ASSUME NEW T \in SUBSET S, \A x \in T : T \ {x} \in Good PROVE T \in Good
  <2>1. CASE T = {}
    BY <2>1, SumEmpty
  <2>2. ASSUME NEW x \in T PROVE T \in Good
    <3>1. IsFiniteSet(T) /\ IsFiniteSet(T \ {x})
      BY FS_Subset
    <3>2. /\ SumFunctionOnSet(F, T) = F[x] + SumFunctionOnSet(F, T \ {x})
          /\ SumFunctionOnSet(G, T) = G[x] + SumFunctionOnSet(G, T \ {x})
          /\ SumFunctionOnSet(H, T) = H[x] + SumFunctionOnSet(H, T \ {x})
      BY <3>1, SumRemove
    <3>3. SumFunctionOnSet(F, T \ {x}) \in Int /\ SumFunctionOnSet(G, T \ {x}) \in Int
      BY <3>1, SumInt
    <3>4. SumFunctionOnSet(H, T \ {x}) = SumFunctionOnSet(F, T \ {x}) + SumFunctionOnSet(G, T \ {x})
      BY <1>1, <2>2
    <3>5. F[x] \in Int /\ G[x] \in Int /\ H[x] = F[x] + G[x]
      OBVIOUS
    <3> QED BY <3>2, <3>3, <3>4, <3>5
  <2> QED BY <2>1, <2>2
<1>2. \A T \in SUBSET S : T \in Good
  <2> HIDE DEF Good
  <2> QED BY <1>1, SubsetInduction
<1> QED BY <1>2

-----------------------------------------------------------------------------
(* Admission.                                                                  *)

LEMMA NoSuchMarket == NoMarket \in Markets /\ NoSide \in Sides
BY ConstantsAssumption DEF NoMarket, NoSide

-----------------------------------------------------------------------------
(* Types.                                                                      *)

LEMMA BlankRows == NoOrder \in OrderRow /\ NoEvidence \in EvidenceRow /\ NoScan \in ScanRow
BY NoSuchMarket DEF NoOrder, NoEvidence, NoScan, OrderRow, EvidenceRow, ScanRow

LEMMA InitTypeOK == Init => TypeOK
<1> SUFFICES ASSUME Init PROVE TypeOK OBVIOUS
<1>1. order \in [Orders -> OrderRow] /\ evidence \in [Decisions -> EvidenceRow]
      /\ scan \in [Scanners -> ScanRow]
  BY BlankRows DEF Init
<1>2. cash \in [Accounts -> Int] /\ today \in [Accounts -> Int]
  BY ConstantsAssumption DEF Init
<1> QED BY <1>1, <1>2 DEF Init, TypeOK

(* An entered order, and the money it costs.                                   *)
LEMMA EnterType ==
  ASSUME TypeOK, NEW o \in Orders, NEW a \in Accounts, NEW m \in Markets, NEW side \in Sides,
         NEW spend \in Nat, NEW d \in Decisions \cup {"none"}, NEW group \in Orders \cup {"none"},
         Enter(o, a, m, side, spend, d, group)
  PROVE  order' \in [Orders -> OrderRow] /\ cash' \in [Accounts -> Int] /\ today' \in [Accounts -> Int]
<1>1. PICK resting \in BOOLEAN :
        order' = [order EXCEPT ![o] =
          [account |-> a, market |-> m, side |-> side, decision |-> d, group |-> group,
           open |-> IF resting THEN 0 ELSE spend, reserved |-> IF resting THEN spend ELSE 0]]
  BY DEF Enter
<1>2. [account |-> a, market |-> m, side |-> side, decision |-> d, group |-> group,
       open |-> IF resting THEN 0 ELSE spend, reserved |-> IF resting THEN spend ELSE 0] \in OrderRow
  BY DEF OrderRow
<1>3. cash' \in [Accounts -> Int]
  BY DEF Enter, TypeOK
<1> QED BY <1>1, <1>2, <1>3 DEF Enter, TypeOK

(* What a step may do to a scan.                                               *)
LEMMA ScanType ==
  ASSUME TypeOK, NEW s \in Scanners, NEW r \in ScanRow, scan' = [scan EXCEPT ![s] = r]
  PROVE  scan' \in [Scanners -> ScanRow]
BY DEF TypeOK

LEMMA ReturnsType ==
  ASSUME TypeOK, NEW s \in Scanners, Returns(s) PROVE scan' \in [Scanners -> ScanRow]
<1>1. [NoScan EXCEPT !.step = "pick"] \in ScanRow
  BY BlankRows DEF ScanRow
<1> QED BY <1>1, ScanType DEF Returns

LEMMA StopsType ==
  ASSUME TypeOK, NEW s \in Scanners, Stops(s)
  PROVE  scan' \in [Scanners -> ScanRow] /\ lock' \in Scripts \cup {"free"}
BY BlankRows, ScanType DEF Stops, TypeOK

LEMMA LiveTypeOK ==
  ASSUME TypeOK, NEW s \in Scanners, LiveStep(s) PROVE TypeOK'
<1>0. scan[s] \in ScanRow
  BY DEF TypeOK
<1>1. CASE LiveBegins(s)
  <2>1. [scan[s] EXCEPT !.step = "pick"] \in ScanRow
    BY <1>0 DEF ScanRow
  <2>2. scan' \in [Scanners -> ScanRow]
    BY <1>1, <2>1, ScanType DEF LiveBegins, Step, TypeOK
  <2> QED BY <1>1, <2>2 DEF LiveBegins, Held, TypeOK, book, journal, clock
<1>2. ASSUME NEW m \in Markets, NEW side \in Sides, Picks(s, m, side) PROVE TypeOK'
  <2>1. [scan[s] EXCEPT !.step = "picked", !.market = m, !.side = side] \in ScanRow
    BY <1>0 DEF ScanRow
  <2>2. scan' = [scan EXCEPT ![s] = [scan[s] EXCEPT !.step = "picked", !.market = m, !.side = side]]
    BY <1>2 DEF Picks, TypeOK
  <2> QED BY <1>2, <2>1, <2>2, ScanType DEF Picks, TypeOK, book, journal, clock
<1>3. CASE ReadsState(s)
  <2>1. CASE Returns(s)
    BY <1>3, <2>1, ReturnsType DEF ReadsState, TypeOK, book, journal, clock
  <2>2. CASE Step(s, "state")
    <3>1. [scan[s] EXCEPT !.step = "state"] \in ScanRow
      BY <1>0 DEF ScanRow
    <3> QED BY <1>3, <2>2, <3>1, ScanType DEF ReadsState, Step, TypeOK, book, journal, clock
  <2> QED BY <1>3, <2>1, <2>2 DEF ReadsState
<1>4. CASE ReadsRows(s)
  <2>1. CASE Returns(s)
    BY <1>4, <2>1, ReturnsType DEF ReadsRows, TypeOK, book, journal, clock
  <2>2. ASSUME NEW spend \in Spends, scan' = [scan EXCEPT ![s].step = "fit", ![s].spend = spend] PROVE TypeOK'
    <3>1. [scan[s] EXCEPT !.step = "fit", !.spend = spend] \in ScanRow
      BY <1>0, ConstantsAssumption DEF ScanRow
    <3>2. scan' = [scan EXCEPT ![s] = [scan[s] EXCEPT !.step = "fit", !.spend = spend]]
      BY <2>2 DEF TypeOK
    <3> QED BY <1>4, <3>1, <3>2, ScanType DEF ReadsRows, TypeOK, book, journal, clock
  <2> QED BY <1>4, <2>1, <2>2 DEF ReadsRows
<1>5. CASE Inserts(s)
  <2>1. scan' \in [Scanners -> ScanRow]
    BY <1>5, ReturnsType DEF Inserts
  <2>2. order' \in [Orders -> OrderRow] /\ cash' \in [Accounts -> Int] /\ today' \in [Accounts -> Int]
    <3>1. CASE UNCHANGED book
      BY <3>1 DEF book, TypeOK
    <3>2. ASSUME NEW o \in Orders, Enter(o, "live", scan[s].market, scan[s].side, scan[s].spend, "none", "none")
          PROVE  order' \in [Orders -> OrderRow] /\ cash' \in [Accounts -> Int] /\ today' \in [Accounts -> Int]
      BY <1>0, <3>2, EnterType DEF Accounts, ScanRow
    <3> QED BY <1>5, <3>1, <3>2 DEF Inserts
  <2> QED BY <1>5, <2>1, <2>2 DEF Inserts, TypeOK, journal, clock
<1>6. CASE LiveEnds(s)
  BY <1>6, StopsType DEF LiveEnds, TypeOK, book, journal, clock
<1>7. ASSUME NEW box \in Boxes, PicksBox(s, box) PROVE TypeOK'
  <2>1. PICK leg \in box : scan' = [scan EXCEPT ![s].step = "picked", ![s].market = leg[1], ![s].box = box]
    BY <1>7 DEF PicksBox
  <2>2. leg[1] \in Markets /\ box \in SUBSET (Markets \X Sides)
    BY ConstantsAssumption
  <2>3. [scan[s] EXCEPT !.step = "picked", !.market = leg[1], !.box = box] \in ScanRow
    BY <1>0, <2>2 DEF ScanRow
  <2>4. scan' = [scan EXCEPT ![s] = [scan[s] EXCEPT !.step = "picked", !.market = leg[1], !.box = box]]
    BY <2>1 DEF TypeOK
  <2>5. scan' \in [Scanners -> ScanRow]
    BY <2>3, <2>4, ScanType
  <2> QED BY <1>7, <2>5 DEF PicksBox, TypeOK, book, journal, clock
<1>8. ASSUME NEW leg \in Markets \X Sides, NEW cost \in 1 .. Capital, InsertsLeg(s, leg, cost) PROVE TypeOK'
  <2>1. PICK o \in Orders, group \in Orders \cup {"none"} :
          /\ Enter(o, "live", leg[1], leg[2], cost, "none", group)
          /\ \/ Returns(s)
             \/ scan' = [scan EXCEPT ![s].box = @ \ {leg}, ![s].spend = @ - cost, ![s].group = group]
    BY <1>0, <1>8 DEF InsertsLeg, ScanRow
  <2>2. cost \in Nat /\ scan[s].spend - cost \in Nat
    BY <1>0, <1>8, ConstantsAssumption DEF InsertsLeg, ScanRow
  <2>3. order' \in [Orders -> OrderRow] /\ cash' \in [Accounts -> Int] /\ today' \in [Accounts -> Int]
    BY <2>1, <2>2, EnterType DEF Accounts
  <2>4. CASE Returns(s)
    BY <1>8, <2>3, <2>4, ReturnsType DEF InsertsLeg, TypeOK, journal, clock
  <2>5. CASE scan' = [scan EXCEPT ![s].box = @ \ {leg}, ![s].spend = @ - cost, ![s].group = group]
    <3>1. [scan[s] EXCEPT !.box = @ \ {leg}, !.spend = @ - cost, !.group = group] \in ScanRow
      BY <1>0, <2>2 DEF ScanRow
    <3>2. scan' = [scan EXCEPT ![s] = [scan[s] EXCEPT !.box = @ \ {leg}, !.spend = @ - cost, !.group = group]]
      BY <2>5 DEF TypeOK
    <3>3. scan' \in [Scanners -> ScanRow]
      BY <3>1, <3>2, ScanType
    <3> QED BY <1>8, <2>3, <3>3 DEF InsertsLeg, TypeOK, journal, clock
  <2> QED BY <2>1, <2>4, <2>5
<1>9. CASE BoxFails(s)
  BY <1>9, ReturnsType DEF BoxFails, TypeOK, book, journal, clock
<1> QED BY <1>1, <1>2, <1>3, <1>4, <1>5, <1>6, <1>7, <1>8, <1>9 DEF LiveStep

LEMMA DecidedType ==
  ASSUME TypeOK, NEW d \in Decisions \cup {"none"}, NEW state \in {"approved", "blocked"}, Decided(d, state)
  PROVE  evidence' \in [Decisions -> EvidenceRow] /\ contexts' \in Nat
<1>1. ASSUME NEW e \in Decisions PROVE [evidence[e] EXCEPT !.state = state] \in EvidenceRow
  BY <1>1 DEF TypeOK, EvidenceRow
<1> QED BY <1>1 DEF Decided, TypeOK

LEMMA HandledType ==
  ASSUME TypeOK, NEW s \in Scanners, NEW d, Handled(s, d) PROVE scan' \in [Scanners -> ScanRow]
<1>1. [scan[s] EXCEPT !.step = "admit", !.todo = @ \ {d}, !.decision = "none"] \in ScanRow
  BY DEF TypeOK, ScanRow
<1>2. scan' = [scan EXCEPT ![s] = [scan[s] EXCEPT !.step = "admit", !.todo = @ \ {d}, !.decision = "none"]]
  BY DEF Handled, TypeOK
<1> QED BY <1>1, <1>2, ScanType

LEMMA ResearchTypeOK ==
  ASSUME TypeOK, NEW s \in Scanners, ResearchStep(s) PROVE TypeOK'
<1>0. scan[s] \in ScanRow
  BY DEF TypeOK
<1>1. CASE ResearchBegins(s)
  <2>1. [scan[s] EXCEPT !.step = "plan", !.day = civil] \in ScanRow
    BY <1>0 DEF ScanRow, TypeOK
  <2>2. scan' = [scan EXCEPT ![s] = [scan[s] EXCEPT !.step = "plan", !.day = civil]]
    BY <1>1 DEF ResearchBegins, TypeOK
  <2> QED BY <1>1, <2>1, <2>2, ScanType DEF ResearchBegins, Held, TypeOK, book, journal, clock
<1>2. CASE Batches(s)
  <2>a. PICK new \in SUBSET {d \in Decisions : evidence[d].state = "none"} :
          \E offer \in [new -> Offers], spend \in [new -> Spends] : Batch(s, new, offer, spend)
    BY <1>2 DEF Batches
  <2>b. PICK offer \in [new -> Offers], spend \in [new -> Spends] : Batch(s, new, offer, spend)
    BY <2>a
  <2>1. /\ evidence' = [d \in Decisions |->
             IF d \in new
             THEN [state |-> "pending", market |-> offer[d][1], side |-> offer[d][2],
                   spend |-> spend[d], context |-> contexts + 1]
             ELSE Abandoned[d]]
        /\ scan' = [scan EXCEPT ![s].step = "admit", ![s].todo = new]
    BY <2>b DEF Batch
  <2>2. contexts' \in Nat /\ contexts + 1 \in Nat
    BY <1>2 DEF Batches, TypeOK
  <2>3. ASSUME NEW d \in Decisions PROVE evidence'[d] \in EvidenceRow
    <3>1. CASE d \in new
      <4>1. offer[d] \in Markets \X Sides /\ spend[d] \in Nat
        BY <3>1, ConstantsAssumption
      <4> QED BY <2>1, <2>2, <3>1, <4>1 DEF EvidenceRow
    <3>2. CASE d \notin new
      <4>1. evidence[d] \in EvidenceRow /\ [evidence[d] EXCEPT !.state = "abandoned"] \in EvidenceRow
        BY DEF TypeOK, EvidenceRow
      <4> QED BY <2>1, <3>2, <4>1 DEF Abandoned
    <3> QED BY <3>1, <3>2
  <2>4. evidence' \in [Decisions -> EvidenceRow]
    BY <2>1, <2>3
  <2>5. [scan[s] EXCEPT !.step = "admit", !.todo = new] \in ScanRow
    BY <1>0 DEF ScanRow
  <2>6. scan' = [scan EXCEPT ![s] = [scan[s] EXCEPT !.step = "admit", !.todo = new]]
    BY <2>1 DEF TypeOK
  <2>7. scan' \in [Scanners -> ScanRow]
    BY <2>5, <2>6, ScanType
  <2> QED BY <1>2, <2>2, <2>4, <2>7 DEF Batches, TypeOK, book, clock
<1>3. ASSUME NEW d \in Decisions, Refused(s, d) PROVE TypeOK'
  <2>1. [scan[s] EXCEPT !.step = "refused", !.decision = d] \in ScanRow
    BY <1>0 DEF ScanRow
  <2>2. scan' = [scan EXCEPT ![s] = [scan[s] EXCEPT !.step = "refused", !.decision = d]]
    BY <1>3 DEF Refused, TypeOK
  <2> QED BY <1>3, <2>1, <2>2, ScanType DEF Refused, TypeOK, book, journal, clock
<1>4. CASE Marks(s)
  <2>1. scan[s].decision \in Decisions \cup {"none"}
    BY <1>0 DEF ScanRow
  <2>2. evidence' \in [Decisions -> EvidenceRow] /\ contexts' \in Nat
    BY <1>4, <2>1, DecidedType DEF Marks, TypeOK, journal
  <2> QED BY <1>4, <2>2, HandledType DEF Marks, TypeOK, book, clock
<1>5. ASSUME NEW d \in Decisions, Loses(s, d) PROVE TypeOK'
  BY <1>5, StopsType DEF Loses, TypeOK, book, journal, clock
<1>6. ASSUME NEW d \in Decisions, Admits(s, d) PROVE TypeOK'
  <2>1. evidence[d] \in EvidenceRow
    BY DEF TypeOK
  <2>2. evidence' \in [Decisions -> EvidenceRow] /\ contexts' \in Nat
    BY <1>6, DecidedType DEF Admits
  <2>3. order' \in [Orders -> OrderRow] /\ cash' \in [Accounts -> Int] /\ today' \in [Accounts -> Int]
    <3>1. CASE UNCHANGED book
      BY <3>1 DEF book, TypeOK
    <3>2. ASSUME NEW o \in Orders, Enter(o, "target", evidence[d].market, evidence[d].side, evidence[d].spend, d, "none")
          PROVE  order' \in [Orders -> OrderRow] /\ cash' \in [Accounts -> Int] /\ today' \in [Accounts -> Int]
      BY <2>1, <3>2, EnterType DEF Accounts, EvidenceRow
    <3> QED BY <1>6, <3>1, <3>2 DEF Admits
  <2> QED BY <1>6, <2>2, <2>3, HandledType DEF Admits, TypeOK, clock
<1>7. CASE ResearchEnds(s)
  BY <1>7, StopsType DEF ResearchEnds, TypeOK, book, journal, clock
<1> QED BY <1>1, <1>2, <1>3, <1>4, <1>5, <1>6, <1>7 DEF ResearchStep

(* What the monitor and the settlement change of an order.                     *)
LEMMA OrderType ==
  ASSUME TypeOK, NEW o \in Orders, NEW r \in OrderRow, order' = [order EXCEPT ![o] = r]
  PROVE  order' \in [Orders -> OrderRow]
BY DEF TypeOK

LEMMA MoneyType ==
  ASSUME NEW money \in [Accounts -> Int], NEW a, NEW i \in Int
  PROVE  [money EXCEPT ![a] = i] \in [Accounts -> Int]
OBVIOUS

LEMMA MovedType ==
  ASSUME NEW money \in [Accounts -> Int], NEW a, NEW i \in Int
  PROVE  [money EXCEPT ![a] = @ + i] \in [Accounts -> Int]
<1>1. CASE a \in Accounts
  <2>1. money[a] + i \in Int
    BY <1>1
  <2> QED BY <2>1, MoneyType
<1>2. CASE a \notin Accounts
  <2>1. [money EXCEPT ![a] = @ + i] = money
    BY <1>2
  <2> QED BY <2>1
<1> QED BY <1>1, <1>2

LEMMA SettledType ==
  ASSUME NEW money \in [Accounts -> Int], NEW a, NEW i \in Int, NEW j \in Int, NEW k \in Int
  PROVE  [money EXCEPT ![a] = @ + i + j + k] \in [Accounts -> Int]
<1>1. CASE a \in Accounts
  <2>1. money[a] + i + j + k \in Int
    BY <1>1
  <2> QED BY <2>1, MoneyType
<1>2. CASE a \notin Accounts
  <2>1. [money EXCEPT ![a] = @ + i + j + k] = money
    BY <1>2
  <2> QED BY <2>1
<1> QED BY <1>1, <1>2

LEMMA WorldTypeOK == ASSUME TypeOK, World PROVE TypeOK'
<1>1. ASSUME NEW o \in Orders, Expires(o) PROVE TypeOK'
  <2>1. order[o] \in OrderRow /\ [order[o] EXCEPT !.reserved = 0] \in OrderRow
    BY DEF TypeOK, OrderRow
  <2>2. order' \in [Orders -> OrderRow]
    BY <1>1, <2>1, OrderType DEF Expires, TypeOK
  <2>3. cash' \in [Accounts -> Int]
    <3>1. order[o].reserved \in Int
      BY <2>1 DEF OrderRow
    <3> QED BY <1>1, <3>1, MovedType DEF Expires, TypeOK
  <2>4. UNCHANGED <<today, civil, profiles, evidence, contexts, lock, scan>>
    BY <1>1 DEF Expires, journal, clock
  <2> QED BY <2>2, <2>3, <2>4 DEF TypeOK
<1>2. ASSUME NEW o \in Orders, NEW q \in 1 .. Capital, Fills(o, q) PROVE TypeOK'
  <2>1. order[o] \in OrderRow /\ order[o].reserved - q \in Nat /\ order[o].open + q \in Nat
    BY <1>2 DEF Fills, TypeOK, OrderRow
  <2>2. [order[o] EXCEPT !.open = @ + q, !.reserved = @ - q] \in OrderRow
    BY <2>1 DEF OrderRow
  <2>3. order' = [order EXCEPT ![o] = [order[o] EXCEPT !.open = @ + q, !.reserved = @ - q]]
    BY <1>2 DEF Fills, TypeOK
  <2> QED BY <1>2, <2>2, <2>3, OrderType DEF Fills, TypeOK, journal, clock
<1>3. ASSUME NEW o \in Orders, NEW q \in 1 .. Capital, NEW pnl \in Profits, Closes(o, q, pnl) PROVE TypeOK'
  <2>1. order[o] \in OrderRow /\ order[o].open - q \in Nat /\ order[o].reserved \in Nat
        /\ pnl \in Int /\ q \in Int
    BY <1>3, ConstantsAssumption DEF Closes, TypeOK, OrderRow
  <2>2. [order[o] EXCEPT !.open = @ - q, !.reserved = 0] \in OrderRow
    BY <2>1 DEF OrderRow
  <2>3. order' = [order EXCEPT ![o] = [order[o] EXCEPT !.open = @ - q, !.reserved = 0]]
    BY <1>3 DEF Closes, TypeOK
  <2>4. cash' \in [Accounts -> Int] /\ today' \in [Accounts -> Int]
    <3>1. cash' = [cash EXCEPT ![order[o].account] = @ + order[o].reserved + q + pnl]
          /\ today' = [today EXCEPT ![order[o].account] = @ + pnl]
      BY <1>3 DEF Closes
    <3>2. cash' \in [Accounts -> Int]
      <4>1. order[o].reserved \in Int /\ q \in Int /\ pnl \in Int /\ cash \in [Accounts -> Int]
        BY <2>1 DEF TypeOK
      <4>2. [cash EXCEPT ![order[o].account] = @ + order[o].reserved + q + pnl] \in [Accounts -> Int]
        BY <4>1, SettledType
      <4> QED BY <3>1, <4>2
    <3>3. today' \in [Accounts -> Int]
      BY <2>1, <3>1, MovedType DEF TypeOK
    <3> QED BY <3>2, <3>3
  <2>5. order' \in [Orders -> OrderRow]
    BY <2>2, <2>3, OrderType
  <2>6. UNCHANGED <<civil, profiles, evidence, contexts, lock, scan>>
    BY <1>3 DEF Closes, journal, clock
  <2> QED BY <2>4, <2>5, <2>6 DEF TypeOK
<1>4. CASE LiveDayTurns
  <2>1. today' \in [Accounts -> Int]
    BY <1>4, MoneyType DEF LiveDayTurns, TypeOK
  <2>2. UNCHANGED <<order, cash, civil, profiles, evidence, contexts, lock, scan>>
    BY <1>4 DEF LiveDayTurns, journal, clock
  <2> QED BY <2>1, <2>2 DEF TypeOK
<1>5. CASE ObjectiveDayTurns
  <2>1. today' \in [Accounts -> Int] /\ civil' \in Nat
    <3>1. today' \in [Accounts -> Int]
      BY <1>5, MoneyType DEF ObjectiveDayTurns, TypeOK
    <3>2. civil' \in Nat
      BY <1>5 DEF ObjectiveDayTurns, TypeOK
    <3> QED BY <3>1, <3>2
  <2>2. UNCHANGED <<order, cash, profiles, evidence, contexts, lock, scan>>
    BY <1>5 DEF ObjectiveDayTurns, journal
  <2> QED BY <2>1, <2>2 DEF TypeOK
<1> QED BY <1>1, <1>2, <1>3, <1>4, <1>5 DEF World

LEMMA StepTypeOK == TypeOK /\ [Next]_vars => TypeOK'
<1> SUFFICES ASSUME TypeOK, [Next]_vars PROVE TypeOK' OBVIOUS
<1>1. ASSUME NEW s \in Scanners, Dies(s) PROVE TypeOK'
  BY <1>1, StopsType DEF Dies, TypeOK, book, journal, clock
<1>2. CASE UNCHANGED vars
  BY <1>2 DEF vars, book, journal, clock, TypeOK
<1> QED BY <1>1, <1>2, LiveTypeOK, ResearchTypeOK, WorldTypeOK DEF Next

(* Every variable but the sums keeps its type, whatever the scans do beside    *)
(* each other.                                                                 *)
THEOREM TypeCorrect == Spec => []TypeOK
BY InitTypeOK, StepTypeOK, PTL DEF Spec

-----------------------------------------------------------------------------
(* Who holds the lock, and what a live scan that has looked relies on.         *)

Looking == {"pick", "picked", "state", "fit"}
Chosen == {"picked", "state", "fit"}

(* A run of the script that is at work holds the lock.                         *)
LockInv == \A s \in Scripts : scan[s].step # "idle" => lock = s

(* Only the script scans for the live account.                                 *)
LiveInv == \A s \in Scanners : scan[s].step \in Looking => s \in Scripts

(* In a market all that is active of the live account is of one group.         *)
OnlyOf(group, m) ==
  \A o \in Orders : order[o].account = "live" /\ order[o].market = m /\ Active(o)
                   => group # "none" /\ order[o].group = group

(* A box shares its scopes with the market whose room was asked.               *)
OneEvent(sc) == \A leg \in sc.box, c \in Scopes : Peers[c][leg[1]] = Peers[c][sc.market]

(* What a live scan relies on once it has picked: its market is free, or, while *)
(* it enters a box, nothing but earlier legs of that box is active in the      *)
(* markets of the legs to come.                                                *)
Relies(sc) ==
  /\ sc.box = {} => ~HasActive("live", sc.market)
  /\ \A leg \in sc.box : OnlyOf(sc.group, leg[1])
  /\ OneEvent(sc)

(* It stays so until the scan has entered: nobody else enters for the live     *)
(* account, and an order once at an end stays there.                           *)
PickInv ==
  \A s \in Scanners :
    /\ scan[s].step \in Chosen => Relies(scan[s])
    /\ scan[s].step \in {"idle", "pick"} => scan[s].box = {} /\ scan[s].group = "none"

OneInv == LockInv /\ LiveInv /\ PickInv /\ OneLivePosition
IInv == TypeOK /\ OneInv /\ EvidenceMatchesOrders

LEMMA InitIInv == Init => IInv
<1> SUFFICES ASSUME Init PROVE IInv OBVIOUS
<1>1. \A s \in Scanners : scan[s].step = "idle" /\ scan[s].box = {} /\ scan[s].group = "none"
  BY DEF Init, NoScan
<1>2. \A o \in Orders : order[o].account = "none" /\ order[o].decision = "none"
  BY DEF Init, NoOrder
<1>3. \A d \in Decisions : evidence[d].state = "none"
  BY DEF Init, NoEvidence
<1>4. "none" \notin Decisions
  BY ConstantsAssumption
<1>5. EvidenceMatchesOrders
  BY <1>2, <1>3, <1>4 DEF EvidenceMatchesOrders
<1> QED BY <1>1, <1>2, <1>5, InitTypeOK DEF IInv, OneInv, LockInv, LiveInv, PickInv, OneLivePosition,
                                     Looking, Chosen, Scanners, HasActive

-----------------------------------------------------------------------------
(* An order entered, and orders that only lose risk.                           *)

LEMMA EnterFrame ==
  ASSUME TypeOK, NEW o \in Orders, NEW a, NEW m, NEW side, NEW spend, NEW d, NEW group,
         Enter(o, a, m, side, spend, d, group)
  PROVE  /\ order[o].account = "none"
         /\ order'[o].account = a /\ order'[o].market = m /\ order'[o].side = side /\ order'[o].decision = d
         /\ order'[o].group = group
         /\ \A p \in Orders \ {o} : order'[p] = order[p]
BY DEF Enter, TypeOK

Quieter ==
  \A o \in Orders : /\ order'[o].account = order[o].account /\ order'[o].market = order[o].market
                    /\ order'[o].side = order[o].side /\ order'[o].decision = order[o].decision
                    /\ order'[o].group = order[o].group
                    /\ Active(o)' => Active(o)

LEMMA WorldQuiet == ASSUME TypeOK, World PROVE Quieter /\ UNCHANGED <<scan, lock, evidence, contexts>>
<1>1. ASSUME NEW o \in Orders, Expires(o) PROVE Quieter
  <2>1. order[o] \in OrderRow /\ order' = [order EXCEPT ![o].reserved = 0]
    BY <1>1 DEF TypeOK, Expires
  <2> QED BY <1>1, <2>1 DEF Quieter, Active, AtRisk, OrderRow, TypeOK, Expires
<1>2. ASSUME NEW o \in Orders, NEW q \in 1 .. Capital, Fills(o, q) PROVE Quieter
  <2>1. order[o] \in OrderRow /\ order' = [order EXCEPT ![o].open = @ + q, ![o].reserved = @ - q]
    BY <1>2 DEF TypeOK, Fills
  <2>2. order'[o].open + order'[o].reserved = order[o].open + order[o].reserved
    BY <2>1, <1>2 DEF OrderRow, TypeOK, Fills
  <2> QED BY <2>1, <2>2 DEF Quieter, Active, AtRisk, TypeOK
<1>3. ASSUME NEW o \in Orders, NEW q \in 1 .. Capital, NEW pnl \in Profits, Closes(o, q, pnl) PROVE Quieter
  <2>1. order[o] \in OrderRow /\ order' = [order EXCEPT ![o].open = @ - q, ![o].reserved = 0]
    BY <1>3 DEF TypeOK, Closes
  <2>2. order[o].open > 0
    BY <1>3, <2>1 DEF Closes, OrderRow
  <2>3. Active(o)
    BY <2>1, <2>2 DEF Active, AtRisk, OrderRow
  <2> QED BY <2>1, <2>3 DEF Quieter, Active, AtRisk, TypeOK
<1>4. ASSUME LiveDayTurns \/ ObjectiveDayTurns PROVE Quieter
  BY <1>4 DEF LiveDayTurns, ObjectiveDayTurns, Quieter, Active, AtRisk
<1>5. UNCHANGED <<scan, lock, evidence, contexts>>
  BY DEF World, Expires, Fills, Closes, LiveDayTurns, ObjectiveDayTurns, journal
<1>6. Quieter
  BY <1>1, <1>2, <1>3, <1>4 DEF World
<1> QED BY <1>5, <1>6

LEMMA QuietInv ==
  ASSUME OneInv, EvidenceMatchesOrders, Quieter, UNCHANGED <<scan, lock, evidence, contexts>>
  PROVE  OneInv' /\ EvidenceMatchesOrders'
<1>1. \A m : HasActive("live", m)' => HasActive("live", m)
  BY DEF Quieter, HasActive
<1>2. LockInv' /\ LiveInv'
  BY DEF OneInv, LockInv, LiveInv
<1>3. PickInv'
  <2>1. \A group, m : OnlyOf(group, m) => OnlyOf(group, m)'
    BY DEF Quieter, OnlyOf
  <2> QED BY <1>1, <2>1 DEF OneInv, PickInv, Relies, OneEvent
<1>4. OneLivePosition'
  BY DEF OneInv, OneLivePosition, Quieter
<1>5. EvidenceMatchesOrders'
  BY DEF EvidenceMatchesOrders, Quieter
<1> QED BY <1>2, <1>3, <1>4, <1>5 DEF OneInv

-----------------------------------------------------------------------------
(* One live position for each market.                                          *)

(* A step of one scan that enters nothing.                                     *)
LEMMA ScanStep ==
  ASSUME TypeOK, OneInv, UNCHANGED order, NEW s \in Scanners, NEW r,
         scan' = [scan EXCEPT ![s] = r],
         s \in Scripts /\ r.step # "idle" => lock' = s,
         \A t \in Scripts \ {s} : lock = t => lock' = t,
         r.step \in Looking => s \in Scripts,
         r.step \in Chosen => Relies(r),
         r.step \in {"idle", "pick"} => r.box = {} /\ r.group = "none"
  PROVE  OneInv'
<1>1. scan'[s] = r /\ \A t \in Scanners \ {s} : scan'[t] = scan[t]
  BY DEF TypeOK
<1>2. \A sc : Relies(sc) => /\ sc.box = {} => ~HasActive("live", sc.market)'
                           /\ \A leg \in sc.box : OnlyOf(sc.group, leg[1])'
                           /\ OneEvent(sc)
  BY DEF Relies, OnlyOf, HasActive, Active, AtRisk
<1>3. LockInv'
  BY <1>1 DEF OneInv, LockInv, Scanners
<1>4. LiveInv'
  BY <1>1 DEF OneInv, LiveInv
<1>5. PickInv'
  <2>1. ASSUME NEW t \in Scanners
        PROVE  /\ scan'[t].step \in Chosen => Relies(scan'[t])
               /\ scan'[t].step \in {"idle", "pick"} => scan'[t].box = {} /\ scan'[t].group = "none"
    BY <1>1 DEF OneInv, PickInv
  <2> QED BY <1>2, <2>1 DEF PickInv, Relies, OneEvent
<1>6. OneLivePosition'
  BY DEF OneInv, OneLivePosition, Active, AtRisk
<1> QED BY <1>3, <1>4, <1>5, <1>6 DEF OneInv

LEMMA StopsInv ==
  ASSUME TypeOK, OneInv, UNCHANGED order, NEW s \in Scanners, Stops(s) PROVE OneInv'
<1>1. scan' = [scan EXCEPT ![s] = NoScan] /\ NoScan.step = "idle"
      /\ NoScan.box = {} /\ NoScan.group = "none"
  BY DEF Stops, NoScan
<1>2. \A t \in Scripts \ {s} : lock = t => lock' = t
  BY DEF Stops
<1> QED BY <1>1, <1>2, ScanStep DEF Looking, Chosen

LEMMA ReturnsInv ==
  ASSUME TypeOK, OneInv, UNCHANGED <<order, lock>>, NEW s \in Scripts, Returns(s), scan[s].step \in Looking
  PROVE  OneInv'
<1>1. scan' = [scan EXCEPT ![s] = [NoScan EXCEPT !.step = "pick"]] /\ [NoScan EXCEPT !.step = "pick"].step = "pick"
      /\ [NoScan EXCEPT !.step = "pick"].box = {} /\ [NoScan EXCEPT !.step = "pick"].group = "none"
  BY DEF Returns, NoScan
<1>2. lock = s
  BY DEF OneInv, LockInv, Looking
<1> QED BY <1>1, <1>2, ScanStep DEF Looking, Chosen, Scanners

(* While a live scan is at work no other is.                                   *)
LEMMA Alone ==
  ASSUME OneInv, NEW s \in Scanners, scan[s].step \in Looking
  PROVE  s \in Scripts /\ lock = s /\ \A t \in Scanners \ {s} : scan[t].step \notin Looking
<1>1. s \in Scripts /\ lock = s
  BY DEF OneInv, LockInv, LiveInv, Looking
<1>2. ASSUME NEW t \in Scanners, scan[t].step \in Looking PROVE t = s
  BY <1>1, <1>2 DEF OneInv, LockInv, LiveInv, Looking
<1> QED BY <1>1, <1>2

(* A scan takes the lock only when nobody is at work under it.                 *)
LEMMA HeldFree ==
  ASSUME NEW s \in Scanners, Held(s)
  PROVE  (s \in Scripts => lock' = s) /\ \A t \in Scripts \ {s} : lock = t => lock' = t
BY ConstantsAssumption DEF Held

(* A live order entered by a scan that is alone: if nothing but its own group  *)
(* is active in the market, and not on its side, there is still one position.  *)
LEMMA EnterOne ==
  ASSUME TypeOK, OneInv, NEW o \in Orders, NEW m, NEW side, NEW spend, NEW group,
         Enter(o, "live", m, side, spend, "none", group), OnlyOf(group, m), ~Taken("live", m, side)
  PROVE  OneLivePosition'
<1>1. /\ order[o].account = "none" /\ order'[o].account = "live" /\ order'[o].market = m
      /\ order'[o].side = side /\ order'[o].group = group
      /\ \A p \in Orders \ {o} : order'[p] = order[p]
  BY EnterFrame
<1>2. \A p \in Orders \ {o} : Active(p)' <=> Active(p)
  BY <1>1 DEF Active, AtRisk
<1>3. ASSUME NEW p \in Orders \ {o}, order'[p].account = "live", order'[p].market = m, Active(p)'
      PROVE  order[p].group = group /\ group # "none" /\ order[p].side # side
  BY <1>1, <1>2, <1>3 DEF OnlyOf, Taken
<1>4. OneLivePosition
  BY DEF OneInv
<1> QED BY <1>1, <1>2, <1>3, <1>4 DEF OneLivePosition

LEMMA InsertInv ==
  ASSUME TypeOK, OneInv, NEW s \in Scanners, Inserts(s), NEW o \in Orders,
         Enter(o, "live", scan[s].market, scan[s].side, scan[s].spend, "none", "none")
  PROVE  OneInv'
<1>1. scan[s].step = "fit" /\ scan[s].box = {}
  BY DEF Inserts
<1>2. s \in Scripts /\ lock = s /\ \A t \in Scanners \ {s} : scan[t].step \notin Looking
  BY <1>1, Alone DEF Looking
<1>3. /\ scan'[s].step = "pick" /\ scan'[s].box = {} /\ scan'[s].group = "none"
      /\ \A t \in Scanners \ {s} : scan'[t] = scan[t]
  BY DEF Inserts, Returns, NoScan, TypeOK
<1>4. UNCHANGED lock
  BY DEF Inserts
<1>5. LockInv' /\ LiveInv'
  BY <1>2, <1>3, <1>4 DEF OneInv, LockInv, LiveInv, Scanners
<1>6. PickInv'
  BY <1>2, <1>3 DEF OneInv, PickInv, Looking, Chosen
<1>7. ~HasActive("live", scan[s].market)
  BY <1>1 DEF OneInv, PickInv, Chosen, Relies
<1>8. OnlyOf("none", scan[s].market) /\ ~Taken("live", scan[s].market, scan[s].side)
  BY <1>7 DEF OnlyOf, Taken, HasActive
<1>9. OneLivePosition'
  BY <1>8, EnterOne
<1> QED BY <1>5, <1>6, <1>9 DEF OneInv

(* One leg more: the others of the box still meet only their own group.        *)
LEMMA LegInv ==
  ASSUME TypeOK, OneInv, NEW s \in Scanners, NEW leg \in Markets \X Sides, NEW cost, InsertsLeg(s, leg, cost)
  PROVE  OneInv'
<1>1. scan[s].step = "fit" /\ leg \in scan[s].box /\ ~Taken("live", leg[1], leg[2]) /\ UNCHANGED lock
  BY DEF InsertsLeg
<1>2. s \in Scripts /\ lock = s /\ \A t \in Scanners \ {s} : scan[t].step \notin Looking
  BY <1>1, Alone DEF Looking
<1>3. PICK o \in Orders :
        LET group == IF scan[s].group = "none" THEN o ELSE scan[s].group IN
        /\ Enter(o, "live", leg[1], leg[2], cost, "none", group)
        /\ IF scan[s].box = {leg}
           THEN Returns(s)
           ELSE scan' = [scan EXCEPT ![s].box = @ \ {leg}, ![s].spend = @ - cost, ![s].group = group]
  BY DEF InsertsLeg
<1>d. PICK group \in Orders \cup {"none"} : group = IF scan[s].group = "none" THEN o ELSE scan[s].group
  BY DEF TypeOK, ScanRow
<1>4. group # "none"
  BY <1>d, ConstantsAssumption
<1>5. Enter(o, "live", leg[1], leg[2], cost, "none", group)
  BY <1>3, <1>d
<1>r. \/ Returns(s)
      \/ scan' = [scan EXCEPT ![s].box = @ \ {leg}, ![s].spend = @ - cost, ![s].group = group]
  BY <1>3, <1>d
<1>g. \A k \in scan[s].box : OnlyOf(scan[s].group, k[1])
  BY <1>1 DEF OneInv, PickInv, Chosen, Relies
<1>7. \A k \in scan[s].box : OnlyOf(group, k[1])
  BY <1>d, <1>g DEF OnlyOf
<1>8. OneLivePosition'
  BY <1>1, <1>5, <1>7, EnterOne
<1>9. \A t \in Scanners \ {s} : scan'[t] = scan[t]
  BY <1>r DEF Returns, TypeOK
<1>10. \/ scan'[s].step = "pick" /\ scan'[s].box = {} /\ scan'[s].group = "none"
       \/ /\ scan'[s].step = "fit" /\ scan'[s].box = scan[s].box \ {leg} /\ scan'[s].box # {}
          /\ scan'[s].group = group /\ scan'[s].market = scan[s].market
  <2>1. CASE Returns(s)
    BY <2>1 DEF Returns, NoScan, TypeOK
  <2>2. CASE ~Returns(s)
    <3>1. scan' = [scan EXCEPT ![s].box = @ \ {leg}, ![s].spend = @ - cost, ![s].group = group]
          /\ scan[s].box # {leg}
      BY <1>3, <1>r, <2>2
    <3> QED BY <1>1, <3>1 DEF TypeOK, ScanRow
  <2> QED BY <2>1, <2>2
<1>11. LockInv' /\ LiveInv'
  BY <1>1, <1>2, <1>9, <1>10 DEF OneInv, LockInv, LiveInv, Scanners, Looking
<1>12. \A k \in scan[s].box : OnlyOf(group, k[1])'
  <2>1. order'[o].group = group /\ \A p \in Orders \ {o} : order'[p] = order[p]
    BY <1>5, EnterFrame
  <2>2. ASSUME NEW k \in scan[s].box, NEW p \in Orders, order'[p].account = "live", order'[p].market = k[1], Active(p)'
        PROVE  order'[p].group = group
    BY <1>7, <2>1, <2>2 DEF OnlyOf, Active, AtRisk
  <2> QED BY <1>4, <2>2 DEF OnlyOf
<1>13. OneEvent(scan[s])
  BY <1>1 DEF OneInv, PickInv, Chosen, Relies
<1>14. PickInv'
  <2>1. CASE scan'[s].step = "pick"
    BY <1>2, <1>9, <1>10, <2>1 DEF OneInv, PickInv, Looking, Chosen
  <2>2. CASE scan'[s].step # "pick"
    <3>1. /\ scan'[s].step = "fit" /\ scan'[s].box = scan[s].box \ {leg} /\ scan'[s].box # {}
          /\ scan'[s].group = group /\ scan'[s].market = scan[s].market
      BY <1>10, <2>2
    <3>2. \A k \in scan[s].box \ {leg} : OnlyOf(scan[s].group, k[1])'
      BY <1>12, <3>1 DEF OnlyOf
    <3>3. Relies(scan[s])'
      BY <1>13, <3>1, <3>2 DEF Relies, OneEvent
    <3> QED BY <1>2, <1>9, <3>1, <3>3 DEF OneInv, PickInv, Looking, Chosen
  <2> QED BY <2>1, <2>2
<1> QED BY <1>8, <1>11, <1>14 DEF OneInv

LEMMA LiveOneInv ==
  ASSUME TypeOK, OneInv, NEW s \in Scanners, LiveStep(s) PROVE OneInv'
<1>0. scan[s] \in ScanRow
  BY DEF TypeOK
<1>1. CASE LiveBegins(s)
  <2>1. /\ [scan[s] EXCEPT !.step = "pick"].step = "pick"
        /\ [scan[s] EXCEPT !.step = "pick"].box = {} /\ [scan[s] EXCEPT !.step = "pick"].group = "none"
    BY <1>0, <1>1 DEF ScanRow, LiveBegins, OneInv, PickInv
  <2>2. scan' = [scan EXCEPT ![s] = [scan[s] EXCEPT !.step = "pick"]] /\ s \in Scripts /\ UNCHANGED order /\ Held(s)
    BY <1>1 DEF LiveBegins, Step, TypeOK, book
  <2> QED BY <2>1, <2>2, HeldFree, ScanStep DEF Looking, Chosen
<1>2. ASSUME NEW m \in Markets, NEW side \in Sides, Picks(s, m, side) PROVE OneInv'
  <2> DEFINE r == [scan[s] EXCEPT !.step = "picked", !.market = m, !.side = side]
  <2>0. scan[s].box = {} /\ scan[s].group = "none"
    BY <1>2 DEF Picks, OneInv, PickInv
  <2>1. r.step = "picked" /\ r.market = m /\ r.box = {}
    BY <1>0, <2>0 DEF ScanRow
  <2>2. scan' = [scan EXCEPT ![s] = r] /\ UNCHANGED <<order, lock>> /\ ~HasActive("live", m) /\ scan[s].step = "pick"
    BY <1>2 DEF Picks, TypeOK, book
  <2>3. s \in Scripts /\ lock = s
    BY <2>2, Alone DEF Looking
  <2> HIDE DEF r
  <2>4. Relies(r)
    BY <2>1, <2>2 DEF Relies, OneEvent
  <2> QED BY <2>1, <2>2, <2>3, <2>4, ScanStep
<1>3. CASE ReadsState(s)
  <2>1. scan[s].step = "picked" /\ UNCHANGED <<order, lock>>
    BY <1>3 DEF ReadsState, book
  <2>2. s \in Scripts /\ lock = s
    BY <2>1, Alone DEF Looking
  <2>3. CASE Returns(s)
    BY <2>1, <2>2, <2>3, ReturnsInv DEF Looking
  <2>4. CASE Step(s, "state")
    <3> DEFINE r == [scan[s] EXCEPT !.step = "state"]
    <3>1. r.step = "state" /\ r.market = scan[s].market /\ r.box = scan[s].box /\ r.group = scan[s].group
      BY <1>0 DEF ScanRow
    <3>2. scan' = [scan EXCEPT ![s] = r]
      BY <2>4 DEF Step, TypeOK
    <3>4. Relies(scan[s])
      BY <2>1 DEF OneInv, PickInv, Chosen
    <3> HIDE DEF r
    <3>3. Relies(r)
      BY <3>1, <3>4 DEF Relies, OneEvent
    <3> QED BY <2>1, <2>2, <3>1, <3>2, <3>3, ScanStep
  <2> QED BY <1>3, <2>3, <2>4 DEF ReadsState
<1>4. CASE ReadsRows(s)
  <2>1. scan[s].step = "state" /\ UNCHANGED <<order, lock>>
    BY <1>4 DEF ReadsRows, book
  <2>2. s \in Scripts /\ lock = s
    BY <2>1, Alone DEF Looking
  <2>3. CASE Returns(s)
    BY <2>1, <2>2, <2>3, ReturnsInv DEF Looking
  <2>4. ASSUME NEW spend \in Spends, scan' = [scan EXCEPT ![s].step = "fit", ![s].spend = spend] PROVE OneInv'
    <3> DEFINE r == [scan[s] EXCEPT !.step = "fit", !.spend = spend]
    <3>1. r.step = "fit" /\ r.market = scan[s].market /\ r.box = scan[s].box /\ r.group = scan[s].group
      BY <1>0 DEF ScanRow
    <3>2. scan' = [scan EXCEPT ![s] = r]
      BY <2>4 DEF TypeOK
    <3>4. Relies(scan[s])
      BY <2>1 DEF OneInv, PickInv, Chosen
    <3> HIDE DEF r
    <3>3. Relies(r)
      BY <3>1, <3>4 DEF Relies, OneEvent
    <3> QED BY <2>1, <2>2, <3>1, <3>2, <3>3, ScanStep
  <2> QED BY <1>4, <2>3, <2>4 DEF ReadsRows
<1>5. CASE Inserts(s)
  <2>1. CASE UNCHANGED book
    <3>1. scan[s].step = "fit" /\ Returns(s) /\ UNCHANGED <<order, lock>>
      BY <1>5, <2>1 DEF Inserts, book
    <3> QED BY <3>1, Alone, ReturnsInv DEF Looking
  <2> QED BY <1>5, <2>1, InsertInv DEF Inserts
<1>6. CASE LiveEnds(s)
  BY <1>6, StopsInv DEF LiveEnds, book
<1>7. ASSUME NEW box \in Boxes, PicksBox(s, box) PROVE OneInv'
  <2>0. scan[s].step = "pick" /\ UNCHANGED <<order, lock>> /\ \A leg \in box : ~HasActive("live", leg[1])
    BY <1>7 DEF PicksBox, book
  <2>1. PICK leg \in box : scan' = [scan EXCEPT ![s].step = "picked", ![s].market = leg[1], ![s].box = box]
    BY <1>7 DEF PicksBox
  <2> DEFINE r == [scan[s] EXCEPT !.step = "picked", !.market = leg[1], !.box = box]
  <2>2. r.step = "picked" /\ r.market = leg[1] /\ r.box = box
    BY <1>0 DEF ScanRow
  <2>3. scan' = [scan EXCEPT ![s] = r]
    BY <2>1 DEF TypeOK
  <2>4. s \in Scripts /\ lock = s
    BY <2>0, Alone DEF Looking
  <2>5. \A c \in Scopes, k \in box : Peers[c][k[1]] = Peers[c][leg[1]]
    BY ConstantsAssumption
  <2> HIDE DEF r
  <2>6. Relies(r)
    BY <2>0, <2>2, <2>5 DEF Relies, OneEvent, OnlyOf, HasActive
  <2> QED BY <2>0, <2>2, <2>3, <2>4, <2>6, ScanStep
<1>8. ASSUME NEW leg \in Markets \X Sides, NEW cost \in 1 .. Capital, InsertsLeg(s, leg, cost) PROVE OneInv'
  BY <1>8, LegInv
<1>9. CASE BoxFails(s)
  <2>1. scan[s].step = "fit" /\ Returns(s) /\ UNCHANGED <<order, lock>>
    BY <1>9 DEF BoxFails, book
  <2> QED BY <2>1, Alone, ReturnsInv DEF Looking
<1> QED BY <1>1, <1>2, <1>3, <1>4, <1>5, <1>6, <1>7, <1>8, <1>9 DEF LiveStep

LEMMA ResearchOneInv ==
  ASSUME TypeOK, OneInv, NEW s \in Scanners, ResearchStep(s) PROVE OneInv'
<1>0. scan[s] \in ScanRow
  BY DEF TypeOK
<1>h. ASSUME scan[s].step # "idle", UNCHANGED lock
      PROVE  /\ s \in Scripts => lock' = s
             /\ \A t \in Scripts \ {s} : lock = t => lock' = t
  BY <1>h DEF OneInv, LockInv
<1>1. CASE ResearchBegins(s)
  <2> DEFINE r == [scan[s] EXCEPT !.step = "plan", !.day = civil]
  <2>1. r.step = "plan"
    BY <1>0 DEF ScanRow
  <2>2. scan' = [scan EXCEPT ![s] = r] /\ UNCHANGED order /\ Held(s)
    BY <1>1 DEF ResearchBegins, TypeOK, book
  <2> HIDE DEF r
  <2> QED BY <2>1, <2>2, HeldFree, ScanStep DEF Looking, Chosen
<1>2. CASE Batches(s)
  <2>1. PICK new \in SUBSET {d \in Decisions : evidence[d].state = "none"} :
          scan' = [scan EXCEPT ![s].step = "admit", ![s].todo = new]
    BY <1>2 DEF Batches, Batch
  <2> DEFINE r == [scan[s] EXCEPT !.step = "admit", !.todo = new]
  <2>2. r.step = "admit"
    BY <1>0 DEF ScanRow
  <2>3. scan' = [scan EXCEPT ![s] = r] /\ UNCHANGED <<order, lock>> /\ scan[s].step = "plan"
    BY <1>2, <2>1 DEF Batches, TypeOK, book
  <2> HIDE DEF r
  <2> QED BY <1>h, <2>2, <2>3, ScanStep DEF Looking, Chosen
<1>3. ASSUME NEW d \in Decisions, Refused(s, d) PROVE OneInv'
  <2> DEFINE r == [scan[s] EXCEPT !.step = "refused", !.decision = d]
  <2>1. r.step = "refused"
    BY <1>0 DEF ScanRow
  <2>2. scan' = [scan EXCEPT ![s] = r] /\ UNCHANGED <<order, lock>> /\ scan[s].step = "admit"
    BY <1>3 DEF Refused, Handles, TypeOK, book
  <2> HIDE DEF r
  <2> QED BY <1>h, <2>1, <2>2, ScanStep DEF Looking, Chosen
<1>4. ASSUME NEW d, Handled(s, d), UNCHANGED <<order, lock>>, scan[s].step # "idle" PROVE OneInv'
  <2> DEFINE r == [scan[s] EXCEPT !.step = "admit", !.todo = @ \ {d}, !.decision = "none"]
  <2>1. r.step = "admit"
    BY <1>0 DEF ScanRow
  <2>2. scan' = [scan EXCEPT ![s] = r]
    BY <1>4 DEF Handled, TypeOK
  <2> HIDE DEF r
  <2> QED BY <1>h, <1>4, <2>1, <2>2, ScanStep DEF Looking, Chosen
<1>5. CASE Marks(s)
  BY <1>4, <1>5 DEF Marks, book
<1>6. ASSUME NEW d \in Decisions, Loses(s, d) PROVE OneInv'
  BY <1>6, StopsInv DEF Loses, book
<1>7. ASSUME NEW d \in Decisions, Admits(s, d) PROVE OneInv'
  <2>1. UNCHANGED lock /\ Handled(s, d) /\ scan[s].step = "admit"
    BY <1>7 DEF Admits, Handles
  <2>2. CASE UNCHANGED book
    BY <1>4, <2>1, <2>2 DEF book
  <2>3. ASSUME NEW o \in Orders, Enter(o, "target", evidence[d].market, evidence[d].side, evidence[d].spend, d, "none")
        PROVE  OneInv'
    <3>1. order[o].account = "none" /\ order'[o].account = "target" /\ \A p \in Orders \ {o} : order'[p] = order[p]
      BY <2>3, EnterFrame
    <3>2. /\ \A m : HasActive("live", m)' <=> HasActive("live", m)
          /\ \A group, m : OnlyOf(group, m)' <=> OnlyOf(group, m)
      BY <3>1 DEF HasActive, OnlyOf, Active, AtRisk
    <3>3. OneLivePosition'
      BY <3>1 DEF OneInv, OneLivePosition, Active, AtRisk
    <3>4. scan'[s].step = "admit" /\ \A t \in Scanners \ {s} : scan'[t] = scan[t]
      BY <1>0, <2>1 DEF Handled, TypeOK, ScanRow
    <3>5. LockInv' /\ LiveInv'
      BY <1>h, <2>1, <3>4 DEF OneInv, LockInv, LiveInv, Looking, Scanners
    <3>6. PickInv'
      BY <3>2, <3>4 DEF OneInv, PickInv, Relies, OneEvent, Chosen
    <3> QED BY <3>3, <3>5, <3>6 DEF OneInv
  <2> QED BY <1>7, <2>2, <2>3 DEF Admits
<1>8. CASE ResearchEnds(s)
  BY <1>8, StopsInv DEF ResearchEnds, book
<1> QED BY <1>1, <1>2, <1>3, <1>5, <1>6, <1>7, <1>8 DEF ResearchStep

-----------------------------------------------------------------------------
(* Evidence and the orders entered on it.                                      *)

LEMMA EvidenceSame ==
  ASSUME EvidenceMatchesOrders, UNCHANGED <<order, evidence, contexts>> PROVE EvidenceMatchesOrders'
BY DEF EvidenceMatchesOrders

LEMMA NoneIsNoDecision == "none" \notin Decisions
BY ConstantsAssumption

(* An entry without evidence, that of the live account.                        *)
LEMMA LiveEntry ==
  ASSUME TypeOK, EvidenceMatchesOrders, UNCHANGED <<evidence, contexts>>,
         NEW o \in Orders, NEW m, NEW side, NEW spend, NEW group, Enter(o, "live", m, side, spend, "none", group)
  PROVE  EvidenceMatchesOrders'
<1>1. /\ order[o].account = "none" /\ order'[o].decision = "none"
      /\ \A p \in Orders \ {o} : order'[p] = order[p]
  BY EnterFrame
<1>2. order[o].decision = "none"
  BY <1>1 DEF EvidenceMatchesOrders
<1> QED BY <1>1, <1>2, NoneIsNoDecision DEF EvidenceMatchesOrders

(* Evidence that is pending has no order, and may be blocked.                  *)
LEMMA BlockedInv ==
  ASSUME TypeOK, EvidenceMatchesOrders, UNCHANGED order, NEW d \in Decisions,
         evidence[d].state = "pending", Decided(d, "blocked")
  PROVE  EvidenceMatchesOrders'
<1>1. /\ \A e \in Decisions \ {d} : evidence'[e] = evidence[e]
      /\ evidence'[d].state = "blocked" /\ evidence'[d].market = evidence[d].market
      /\ evidence'[d].side = evidence[d].side /\ evidence'[d].context = evidence[d].context
  BY DEF Decided, TypeOK, EvidenceRow
<1>2. contexts' = contexts
  BY DEF Decided
<1>3. ~\E o \in Orders : order[o].decision = d
  BY DEF EvidenceMatchesOrders
<1>4. \A o \in Orders : order[o].decision \in Decisions \cup {"none"}
  BY DEF TypeOK, OrderRow
<1> QED BY <1>1, <1>2, <1>3, <1>4 DEF EvidenceMatchesOrders

LEMMA ApprovedInv ==
  ASSUME TypeOK, EvidenceMatchesOrders, NEW d \in Decisions, evidence[d].state = "pending",
         Decided(d, "approved"), NEW o \in Orders,
         Enter(o, "target", evidence[d].market, evidence[d].side, evidence[d].spend, d, "none")
  PROVE  EvidenceMatchesOrders'
<1>1. /\ \A e \in Decisions \ {d} : evidence'[e] = evidence[e]
      /\ evidence'[d].state = "approved" /\ evidence'[d].market = evidence[d].market
      /\ evidence'[d].side = evidence[d].side
  BY DEF Decided, TypeOK, EvidenceRow
<1>2. contexts' = contexts
  BY DEF Decided
<1>3. /\ order[o].account = "none" /\ order'[o].account = "target" /\ order'[o].market = evidence[d].market
      /\ order'[o].side = evidence[d].side /\ order'[o].decision = d
      /\ \A p \in Orders \ {o} : order'[p] = order[p]
  BY EnterFrame
<1>4. order[o].decision = "none" /\ \A p \in Orders : order[p].decision # d
  BY <1>3 DEF EvidenceMatchesOrders
<1>5. \A p \in Orders : order[p].decision \in Decisions \cup {"none"}
  BY DEF TypeOK, OrderRow
<1>6. ASSUME NEW e \in Decisions
      PROVE  /\ evidence'[e].state = "approved" <=> \E p \in Orders : order'[p].decision = e
             /\ evidence'[e].state = "pending" => evidence'[e].context = contexts'
  <2>1. CASE e = d
    BY <1>1, <1>3, <2>1
  <2>2. CASE e # d
    BY <1>1, <1>2, <1>3, <1>4, <2>2, NoneIsNoDecision DEF EvidenceMatchesOrders
  <2> QED BY <2>1, <2>2
<1>7. ASSUME NEW p \in Orders, order'[p].decision # "none"
      PROVE  /\ order'[p].account = "target"
             /\ order'[p].market = evidence'[order'[p].decision].market
             /\ order'[p].side = evidence'[order'[p].decision].side
             /\ \A q \in Orders : order'[q].decision = order'[p].decision => q = p
  <2>1. CASE p = o
    BY <1>1, <1>3, <1>4, <2>1
  <2>2. CASE p # o
    BY <1>1, <1>3, <1>4, <1>5, <1>7, <2>2 DEF EvidenceMatchesOrders
  <2> QED BY <2>1, <2>2
<1> QED BY <1>6, <1>7 DEF EvidenceMatchesOrders

(* A batch takes new evidence, and what it abandons has no order.              *)
LEMMA BatchInv ==
  ASSUME TypeOK, EvidenceMatchesOrders, NEW s \in Scanners, Batches(s) PROVE EvidenceMatchesOrders'
<1>1. PICK new \in SUBSET {d \in Decisions : evidence[d].state = "none"} :
        \E offer \in [new -> Offers], spend \in [new -> Spends] : Batch(s, new, offer, spend)
  BY DEF Batches
<1>2. PICK offer \in [new -> Offers], spend \in [new -> Spends] : Batch(s, new, offer, spend)
  BY <1>1
<1>3. UNCHANGED order /\ contexts' = contexts + 1
  BY DEF Batches, book
<1>4. ASSUME NEW d \in Decisions
      PROVE  \/ /\ evidence[d].state = "none"
                /\ evidence'[d].state = "pending" /\ evidence'[d].context = contexts'
             \/ evidence[d].state = "pending" /\ evidence'[d].state = "abandoned"
             \/ evidence[d].state # "pending" /\ evidence'[d] = evidence[d]
  <2>1. CASE d \in new
    BY <1>2, <1>3, <2>1 DEF Batch
  <2>2. CASE d \notin new
    <3>1. evidence'[d] = Abandoned[d]
      BY <1>2, <2>2 DEF Batch
    <3> QED BY <3>1 DEF Abandoned, TypeOK, EvidenceRow
  <2> QED BY <2>1, <2>2
<1>5. ASSUME NEW o \in Orders, order[o].decision # "none" PROVE evidence'[order[o].decision] = evidence[order[o].decision]
  <2>1. order[o].decision \in Decisions
    BY <1>5 DEF TypeOK, OrderRow
  <2>2. evidence[order[o].decision].state = "approved"
    BY <2>1 DEF EvidenceMatchesOrders
  <2> QED BY <1>4, <2>1, <2>2
<1>6. ASSUME NEW d \in Decisions
      PROVE  /\ evidence'[d].state = "approved" <=> \E o \in Orders : order'[o].decision = d
             /\ evidence'[d].state = "pending" => evidence'[d].context = contexts'
  <2>1. evidence'[d].state = "approved" <=> evidence[d].state = "approved"
    BY <1>4
  <2>2. evidence'[d].state = "pending" => evidence'[d].context = contexts'
    BY <1>4
  <2> QED BY <1>3, <2>1, <2>2 DEF EvidenceMatchesOrders
<1> QED BY <1>3, <1>5, <1>6 DEF EvidenceMatchesOrders

LEMMA ScanEvidenceInv ==
  ASSUME TypeOK, EvidenceMatchesOrders, NEW s \in Scanners, LiveStep(s) \/ ResearchStep(s) \/ Dies(s)
  PROVE  EvidenceMatchesOrders'
<1>1. CASE \/ LiveBegins(s) \/ ReadsState(s) \/ ReadsRows(s) \/ LiveEnds(s) \/ ResearchBegins(s) \/ ResearchEnds(s) \/ Dies(s)
           \/ (\E m \in Markets, side \in Sides : Picks(s, m, side))
           \/ (\E d \in Decisions : Refused(s, d) \/ Loses(s, d))
           \/ (\E box \in Boxes : PicksBox(s, box)) \/ BoxFails(s)
  <2>1. UNCHANGED <<order, evidence, contexts>>
    BY <1>1 DEF LiveBegins, ReadsState, ReadsRows, LiveEnds, ResearchBegins, ResearchEnds, Dies, Picks, Refused,
                Loses, PicksBox, BoxFails, book, journal
  <2> QED BY <2>1, EvidenceSame
<1>2. CASE Inserts(s)
  <2>1. CASE UNCHANGED book
    BY <1>2, <2>1, EvidenceSame DEF Inserts, book, journal
  <2>2. ASSUME NEW o \in Orders, Enter(o, "live", scan[s].market, scan[s].side, scan[s].spend, "none", "none")
        PROVE  EvidenceMatchesOrders'
    BY <1>2, <2>2, LiveEntry DEF Inserts, journal
  <2> QED BY <1>2, <2>1, <2>2 DEF Inserts
<1>3. CASE Batches(s)
  BY <1>3, BatchInv
<1>4. CASE Marks(s)
  <2>1. UNCHANGED order
    BY <1>4 DEF Marks, book
  <2>2. CASE scan[s].decision \in Decisions /\ evidence[scan[s].decision].state = "pending"
    BY <1>4, <2>1, <2>2, BlockedInv DEF Marks
  <2>3. CASE UNCHANGED journal
    BY <2>1, <2>3, EvidenceSame DEF journal
  <2>4. CASE scan[s].decision \notin Decisions /\ Decided(scan[s].decision, "blocked")
    <3>1. evidence' = evidence /\ contexts' = contexts
      BY <2>4 DEF Decided, TypeOK
    <3> QED BY <2>1, <3>1, EvidenceSame
  <2> QED BY <1>4, <2>2, <2>3, <2>4 DEF Marks
<1>5. ASSUME NEW d \in Decisions, Admits(s, d) PROVE EvidenceMatchesOrders'
  <2>1. evidence[d].state = "pending"
    BY <1>5 DEF Admits
  <2>2. CASE UNCHANGED book /\ Decided(d, "blocked")
    BY <2>1, <2>2, BlockedInv DEF book
  <2>3. ASSUME NEW o \in Orders, Decided(d, "approved"),
               Enter(o, "target", evidence[d].market, evidence[d].side, evidence[d].spend, d, "none")
        PROVE  EvidenceMatchesOrders'
    BY <2>1, <2>3, ApprovedInv
  <2> QED BY <1>5, <2>2, <2>3 DEF Admits
<1>6. ASSUME NEW leg \in Markets \X Sides, NEW cost \in 1 .. Capital, InsertsLeg(s, leg, cost)
      PROVE  EvidenceMatchesOrders'
  <2>1. PICK o \in Orders, group \in Orders \cup {"none"} : Enter(o, "live", leg[1], leg[2], cost, "none", group)
    BY <1>6 DEF InsertsLeg, TypeOK, ScanRow
  <2> QED BY <1>6, <2>1, LiveEntry DEF InsertsLeg, journal
<1> QED BY <1>1, <1>2, <1>3, <1>4, <1>5, <1>6 DEF LiveStep, ResearchStep

-----------------------------------------------------------------------------
LEMMA StepIInv == IInv /\ [Next]_vars => IInv'
<1> SUFFICES ASSUME IInv, [Next]_vars PROVE IInv' OBVIOUS
<1>0. TypeOK /\ TypeOK' /\ OneInv /\ EvidenceMatchesOrders
  BY StepTypeOK DEF IInv
<1>1. CASE World
  BY <1>0, <1>1, WorldQuiet, QuietInv DEF IInv
<1>2. CASE \E s \in Scanners : LiveStep(s) \/ ResearchStep(s) \/ Dies(s)
  <2>1. EvidenceMatchesOrders'
    BY <1>0, <1>2, ScanEvidenceInv
  <2>2. ASSUME NEW s \in Scanners, Dies(s) PROVE OneInv'
    BY <1>0, <2>2, StopsInv DEF Dies, book
  <2> QED BY <1>0, <1>2, <2>1, <2>2, LiveOneInv, ResearchOneInv DEF IInv
<1>3. CASE UNCHANGED vars
  <2>1. UNCHANGED <<order, scan, lock, evidence, contexts>>
    BY <1>3 DEF vars, book, journal
  <2>2. Quieter
    BY <2>1 DEF Quieter, Active, AtRisk
  <2> QED BY <1>0, <2>1, <2>2, QuietInv DEF IInv
<1> QED BY <1>1, <1>2, <1>3 DEF Next

(* The inductive invariant.                                                    *)
THEOREM Inductive == Spec => []IInv
BY InitIInv, StepIInv, PTL DEF Spec

(* However many scans of either kind run beside each other, the live account   *)
(* never holds two positions in a market.                                      *)
THEOREM OneLiveCorrect == Spec => []OneLivePosition
<1>1. IInv => OneLivePosition
  BY DEF IInv, OneInv
<1> QED BY <1>1, Inductive, PTL

(* No order is entered on evidence that another scan has taken away, and none  *)
(* is entered twice.                                                           *)
THEOREM EvidenceCorrect == Spec => []EvidenceMatchesOrders
<1>1. IInv => EvidenceMatchesOrders
  BY DEF IInv
<1> QED BY <1>1, Inductive, PTL

-----------------------------------------------------------------------------
(* The risk of an account in some markets, of any rows. *)
RowRisk(rows) == [o \in Orders |-> rows[o].open + rows[o].reserved]
RowsOf(rows, a, M) == {o \in Orders : rows[o].account = a /\ rows[o].market \in M}
RowsRisk(rows, a, M) == SumFunctionOnSet(RowRisk(rows), RowsOf(rows, a, M))

(* Risk before and after a step is the risk of the rows before and after it.   *)
LEMMA RiskOfRows ==
  ASSUME NEW a, NEW M PROVE Risk(a, M) = RowsRisk(order, a, M) /\ Risk(a, M)' = RowsRisk(order', a, M)
BY DEF Risk, AtRisk, RowsRisk, RowRisk, RowsOf

(* The rows of an account in some markets are finitely many.                   *)
LEMMA RowsFinite ==
  ASSUME NEW rows \in [Orders -> OrderRow], NEW a, NEW M
  PROVE  /\ IsFiniteSet(Orders) /\ IsFiniteSet(RowsOf(rows, a, M))
         /\ RowsOf(rows, a, M) \in SUBSET Orders
         /\ \A o \in Orders : RowRisk(rows)[o] \in Nat
<1>1. IsFiniteSet(Orders) /\ RowsOf(rows, a, M) \in SUBSET Orders
  BY ConstantsAssumption DEF RowsOf
<1>2. \A o \in Orders : RowRisk(rows)[o] \in Nat
  BY DEF RowRisk, OrderRow
<1> QED BY <1>1, <1>2, FS_Subset

(* Their risk is a number.                                                     *)
LEMMA RiskInt == ASSUME NEW rows \in [Orders -> OrderRow], NEW a, NEW M PROVE RowsRisk(rows, a, M) \in Int
BY RowsFinite, SumInt DEF RowsRisk

(* An order entered adds what it costs to the risk of its account.             *)
LEMMA EnteredRisk ==
  ASSUME NEW old \in [Orders -> OrderRow], NEW new \in [Orders -> OrderRow], NEW o \in Orders,
         \A p \in Orders \ {o} : new[p] = old[p],
         NEW a \in Accounts, old[o].account = "none", new[o].account = a,
         NEW b \in Accounts, NEW M
  PROVE  RowsRisk(new, b, M) =
           RowsRisk(old, b, M) + (IF b = a /\ new[o].market \in M THEN new[o].open + new[o].reserved ELSE 0)
<1> DEFINE F == [p \in Orders |-> IF p \in RowsOf(old, b, M) THEN RowRisk(old)[p] ELSE 0]
           G == [p \in Orders |-> IF p \in RowsOf(new, b, M) THEN RowRisk(new)[p] ELSE 0]
<1>0. IsFiniteSet(Orders)
  BY ConstantsAssumption
<1>1. RowsRisk(old, b, M) = SumFunctionOnSet(F, Orders)
  BY RowsFinite, SumWithin DEF RowsRisk
<1>2. RowsRisk(new, b, M) = SumFunctionOnSet(G, Orders)
  BY RowsFinite, SumWithin DEF RowsRisk
<1>3. \A p \in Orders : F[p] \in Int /\ G[p] \in Int
  BY RowsFinite
<1>4. \A p \in Orders \ {o} : G[p] = F[p]
  BY DEF RowsOf, RowRisk
<1>5. F[o] = 0
  BY DEF RowsOf, Accounts
<1>6. G[o] = IF b = a /\ new[o].market \in M THEN new[o].open + new[o].reserved ELSE 0
  BY DEF RowsOf, RowRisk
<1>7. SumFunctionOnSet(F, Orders) \in Int
  BY <1>0, <1>3, SumInt
<1> HIDE DEF F, G
<1>8. SumFunctionOnSet(G, Orders) = SumFunctionOnSet(F, Orders) + G[o] - F[o]
  BY <1>0, <1>3, <1>4, SumChange
<1> QED BY <1>1, <1>2, <1>3, <1>5, <1>6, <1>7, <1>8

(* Rows that only lose what they have at risk.                                 *)
LEMMA QuietRisk ==
  ASSUME NEW old \in [Orders -> OrderRow], NEW new \in [Orders -> OrderRow],
         \A o \in Orders : /\ new[o].account = old[o].account /\ new[o].market = old[o].market
                           /\ new[o].open + new[o].reserved <= old[o].open + old[o].reserved,
         NEW a, NEW M
  PROVE  RowsRisk(new, a, M) <= RowsRisk(old, a, M)
<1>1. RowsOf(new, a, M) = RowsOf(old, a, M)
  BY DEF RowsOf
<1>2. IsFiniteSet(RowsOf(old, a, M)) /\ RowsOf(old, a, M) \in SUBSET Orders
  BY RowsFinite
<1>3. \A o \in RowsOf(old, a, M) :
        RowRisk(new)[o] \in Int /\ RowRisk(old)[o] \in Int /\ RowRisk(new)[o] <= RowRisk(old)[o]
  <2> SUFFICES ASSUME NEW o \in Orders
      PROVE RowRisk(new)[o] \in Int /\ RowRisk(old)[o] \in Int /\ RowRisk(new)[o] <= RowRisk(old)[o]
    BY <1>2
  <2>1. old[o] \in OrderRow /\ new[o] \in OrderRow
    OBVIOUS
  <2> QED BY <2>1 DEF RowRisk, OrderRow
<1> QED BY <1>1, <1>2, <1>3, SumMonotone DEF RowsRisk

-----------------------------------------------------------------------------
(* Money.  What the two accounts must not exceed, said of rows, cash and the   *)
(* high-water mark as values.                                                  *)

TargetLimits(rows, money) ==
  /\ money >= 0
  /\ \A c \in Scopes, m \in Markets : RowsRisk(rows, "target", Peers[c][m]) <= TargetCap[c]

LiveLimits(rows, money, high) ==
  /\ money >= 0
  /\ \A c \in Scopes, m \in Markets : 100 * RowsRisk(rows, "live", Peers[c][m]) <= LivePct[c] * high

(* What a live scan has read of its account is no more than is there, and what *)
(* it is about to insert still fits.                                           *)
ReadFits(sc, rd, rows, money, high) ==
  /\ sc.step = "state" => rd.equity <= high /\ rd.cash <= money
  /\ sc.step = "fit" =>
       /\ sc.spend <= money
       /\ \A c \in Scopes : 100 * (RowsRisk(rows, "live", Peers[c][sc.market]) + sc.spend) <= LivePct[c] * high

(* What a live scan reads of its account.                                      *)
ReadRow == [equity : Int, cash : Int, halved : BOOLEAN]

(* The inductive invariant of the limits.  The limits themselves are not: an   *)
(* insert stays within them because of what its scan read, so the invariant    *)
(* says of every live scan that is about to insert that what it read has       *)
(* stayed true of the account, at least.                                       *)
MoneyInv ==
  /\ highWater \in Int /\ read \in [Scanners -> ReadRow]
  /\ TargetLimits(order, cash["target"])
  /\ LiveLimits(order, cash["live"], highWater)
  /\ \A s \in Scanners : ReadFits(scan[s], read[s], order, cash["live"], highWater)

(* Rows that do not gain risk. *)
NoMore(old, new, a) == \A M \in SUBSET Markets : RowsRisk(new, a, M) <= RowsRisk(old, a, M)

(* A share of more is more.                                                    *)
LEMMA TimesMonotone == ASSUME NEW n \in Nat, NEW i \in Int, NEW j \in Int, i <= j PROVE n * i <= n * j
OBVIOUS

(* The limits and scopes of the constants.                                     *)
LEMMA PeersType ==
  ASSUME NEW c \in Scopes, NEW m \in Markets
  PROVE  /\ Peers[c][m] \in SUBSET Markets /\ LivePct[c] \in Nat /\ TargetCap[c] \in Nat
         /\ \A p \in Peers[c][m] : Peers[c][p] = Peers[c][m]
BY ConstantsAssumption

(* The limits, and what a scan has read, stay true when risk goes down and     *)
(* money or the high-water mark up.                                            *)
LEMMA TargetEases ==
  ASSUME NEW old \in [Orders -> OrderRow], NEW new \in [Orders -> OrderRow], NEW was \in Int, NEW is \in Int,
         TargetLimits(old, was), NoMore(old, new, "target"), was <= is
  PROVE  TargetLimits(new, is)
<1>1. ASSUME NEW c \in Scopes, NEW m \in Markets PROVE RowsRisk(new, "target", Peers[c][m]) <= TargetCap[c]
  <2>1. /\ RowsRisk(new, "target", Peers[c][m]) <= RowsRisk(old, "target", Peers[c][m])
        /\ RowsRisk(old, "target", Peers[c][m]) <= TargetCap[c]
    BY PeersType DEF NoMore, TargetLimits
  <2>2. RowsRisk(new, "target", Peers[c][m]) \in Int /\ RowsRisk(old, "target", Peers[c][m]) \in Int
    BY RiskInt
  <2> QED BY <2>1, <2>2, PeersType
<1> QED BY <1>1 DEF TargetLimits

LEMMA LiveEases ==
  ASSUME NEW old \in [Orders -> OrderRow], NEW new \in [Orders -> OrderRow],
         NEW was \in Int, NEW is \in Int, NEW high \in Int, NEW higher \in Int,
         LiveLimits(old, was, high), NoMore(old, new, "live"), was <= is, high <= higher
  PROVE  LiveLimits(new, is, higher)
<1>1. ASSUME NEW c \in Scopes, NEW m \in Markets
      PROVE  100 * RowsRisk(new, "live", Peers[c][m]) <= LivePct[c] * higher
  <2> DEFINE a == RowsRisk(new, "live", Peers[c][m])
             b == RowsRisk(old, "live", Peers[c][m])
             x == LivePct[c] * high
             y == LivePct[c] * higher
  <2>1. a <= b /\ 100 * b <= x
    BY PeersType DEF NoMore, LiveLimits
  <2>2. a \in Int /\ b \in Int
    BY RiskInt
  <2>3. x <= y /\ x \in Int /\ y \in Int
    BY PeersType, TimesMonotone
  <2> HIDE DEF a, b, x, y
  <2>4. 100 * a <= y
    BY <2>1, <2>2, <2>3
  <2> QED BY <2>4 DEF a, y
<1> QED BY <1>1 DEF LiveLimits

LEMMA ReadEases ==
  ASSUME NEW sc \in ScanRow, NEW rd \in ReadRow,
         NEW old \in [Orders -> OrderRow], NEW new \in [Orders -> OrderRow],
         NEW was \in Int, NEW is \in Int, NEW high \in Int, NEW higher \in Int,
         ReadFits(sc, rd, old, was, high), NoMore(old, new, "live"), was <= is, high <= higher
  PROVE  ReadFits(sc, rd, new, is, higher)
<1>0. rd.equity \in Int /\ rd.cash \in Int /\ sc.spend \in Nat /\ sc.market \in Markets
  BY DEF ScanRow, ReadRow
<1>1. ASSUME NEW c \in Scopes, sc.step = "fit"
      PROVE  100 * (RowsRisk(new, "live", Peers[c][sc.market]) + sc.spend) <= LivePct[c] * higher
  <2> DEFINE a == RowsRisk(new, "live", Peers[c][sc.market])
             b == RowsRisk(old, "live", Peers[c][sc.market])
             x == LivePct[c] * high
             y == LivePct[c] * higher
  <2>1. a <= b /\ 100 * (b + sc.spend) <= x
    BY <1>0, <1>1, PeersType DEF NoMore, ReadFits
  <2>2. a \in Int /\ b \in Int
    BY RiskInt
  <2>3. x <= y /\ x \in Int /\ y \in Int
    BY <1>0, PeersType, TimesMonotone
  <2> HIDE DEF a, b, x, y
  <2>4. 100 * (a + sc.spend) <= y
    BY <1>0, <2>1, <2>2, <2>3
  <2> QED BY <2>4 DEF a, y
<1>2. sc.step = "state" => rd.equity <= higher /\ rd.cash <= is
  BY <1>0 DEF ReadFits
<1>3. sc.step = "fit" => sc.spend <= is
  BY <1>0 DEF ReadFits
<1> QED BY <1>1, <1>2, <1>3 DEF ReadFits

(* What an entry does to the two accounts.                                     *)
LEMMA EnterMoney ==
  ASSUME TypeOK, TypeOK', NEW o \in Orders, NEW a \in Accounts, NEW m \in Markets, NEW side, NEW spend \in Nat, NEW d,
         NEW group, Enter(o, a, m, side, spend, d, group)
  PROVE  /\ cash'[a] = cash[a] - spend
         /\ \A M \in SUBSET Markets : RowsRisk(order', a, M) = RowsRisk(order, a, M) + (IF m \in M THEN spend ELSE 0)
         /\ \A b \in Accounts \ {a} : cash'[b] = cash[b] /\ NoMore(order, order', b)
<1>1. /\ order[o].account = "none" /\ order'[o].account = a /\ order'[o].market = m
      /\ \A p \in Orders \ {o} : order'[p] = order[p]
  BY EnterFrame
<1>2. order'[o].open + order'[o].reserved = spend
  BY DEF Enter, TypeOK
<1>3. order \in [Orders -> OrderRow] /\ order' \in [Orders -> OrderRow]
  BY DEF TypeOK
<1>4. \A b \in Accounts : \A M : RowsRisk(order', b, M) =
        RowsRisk(order, b, M) + (IF b = a /\ m \in M THEN spend ELSE 0)
  BY <1>1, <1>2, <1>3, EnteredRisk
<1>5. \A b \in Accounts : \A M : RowsRisk(order, b, M) \in Int
  BY <1>3, RiskInt
<1>6. \A b \in Accounts \ {a} : NoMore(order, order', b)
  BY <1>4, <1>5 DEF NoMore
<1>7. cash'[a] = cash[a] - spend /\ \A b \in Accounts \ {a} : cash'[b] = cash[b]
  BY DEF Enter, TypeOK
<1> QED BY <1>4, <1>6, <1>7

(* What fills, expiries and closes do.                                         *)
Eases == \A a \in Accounts : cash[a] <= cash'[a] /\ NoMore(order, order', a)

LEMMA SameEases == ASSUME TypeOK, UNCHANGED <<order, cash>> PROVE Eases
<1>1. \A a \in Accounts : \A M : RowsRisk(order, a, M) \in Int
  BY RiskInt DEF TypeOK
<1>2. \A a \in Accounts : cash[a] \in Int
  BY DEF TypeOK
<1> QED BY <1>1, <1>2 DEF Eases, NoMore

LEMMA WorldEases == ASSUME TypeOK, TypeOK', World PROVE Eases /\ UNCHANGED <<scan, read, highWater>>
<1> DEFINE Less == \A o \in Orders : /\ order'[o].account = order[o].account /\ order'[o].market = order[o].market
                                     /\ order'[o].open + order'[o].reserved <= order[o].open + order[o].reserved
           Gains == \A a \in Accounts : cash[a] <= cash'[a]
<1>0. \A o \in Orders : order[o] \in OrderRow /\ order[o].open \in Nat /\ order[o].reserved \in Nat
  BY DEF TypeOK, OrderRow
<1>c. \A a \in Accounts : cash[a] \in Int
  BY DEF TypeOK
<1>1. ASSUME NEW o \in Orders, Expires(o) PROVE Less /\ Gains
  <2>1. order' = [order EXCEPT ![o].reserved = 0]
    BY <1>1 DEF Expires
  <2>2. Less
    BY <1>0, <2>1 DEF TypeOK
  <2>3. cash' = [cash EXCEPT ![order[o].account] = @ + order[o].reserved]
    BY <1>1 DEF Expires
  <2>4. Gains
    BY <1>0, <1>c, <2>3 DEF TypeOK
  <2> QED BY <2>2, <2>4
<1>2. ASSUME NEW o \in Orders, NEW q \in 1 .. Capital, Fills(o, q) PROVE Less /\ Gains
  <2>1. order' = [order EXCEPT ![o].open = @ + q, ![o].reserved = @ - q] /\ q \in Nat
    BY <1>2, ConstantsAssumption DEF Fills
  <2>2. order'[o].open + order'[o].reserved = order[o].open + order[o].reserved
    BY <1>0, <2>1 DEF TypeOK
  <2>3. \A p \in Orders : order'[p].account = order[p].account /\ order'[p].market = order[p].market
    BY <2>1 DEF TypeOK
  <2>4. \A p \in Orders \ {o} : order'[p] = order[p]
    BY <2>1 DEF TypeOK
  <2>5. Less
    BY <1>0, <2>2, <2>3, <2>4
  <2>6. Gains
    BY <1>2, <1>c DEF Fills
  <2> QED BY <2>5, <2>6
<1>3. ASSUME NEW o \in Orders, NEW q \in 1 .. Capital, NEW pnl \in Profits, Closes(o, q, pnl) PROVE Less /\ Gains
  <2>1. order' = [order EXCEPT ![o].open = @ - q, ![o].reserved = 0] /\ q \in Nat
    BY <1>3, ConstantsAssumption DEF Closes
  <2>2. Less
    BY <1>0, <2>1 DEF TypeOK
  <2>3. cash' = [cash EXCEPT ![order[o].account] = @ + order[o].reserved + q + pnl] /\ pnl >= -q /\ pnl \in Int
    BY <1>3, ConstantsAssumption DEF Closes
  <2>4. Gains
    BY <1>0, <1>c, <2>1, <2>3 DEF TypeOK
  <2> QED BY <2>2, <2>4
<1>4. ASSUME LiveDayTurns \/ ObjectiveDayTurns PROVE Less /\ Gains
  BY <1>0, <1>c, <1>4 DEF LiveDayTurns, ObjectiveDayTurns
<1>5. Less /\ Gains
  BY <1>1, <1>2, <1>3, <1>4 DEF World
<1>6. \A a \in Accounts : NoMore(order, order', a)
  <2>1. order \in [Orders -> OrderRow] /\ order' \in [Orders -> OrderRow]
    BY DEF TypeOK
  <2> QED BY <1>5, <2>1, QuietRisk DEF NoMore
<1>7. UNCHANGED <<scan, read, highWater>>
  BY DEF World, Expires, Fills, Closes, LiveDayTurns, ObjectiveDayTurns
<1> QED BY <1>5, <1>6, <1>7 DEF Eases

(* A step that adds no risk and takes no money keeps the invariant.            *)
LEMMA MoneyEases ==
  ASSUME TypeOK, TypeOK', MoneyInv, Eases, UNCHANGED highWater, read' \in [Scanners -> ReadRow],
         \A s \in Scanners : \/ scan'[s].step \notin {"state", "fit"}
                             \/ scan'[s] = scan[s] /\ read'[s] = read[s]
  PROVE  MoneyInv'
<1>0. /\ order \in [Orders -> OrderRow] /\ order' \in [Orders -> OrderRow]
      /\ \A a \in Accounts : cash[a] \in Int /\ cash'[a] \in Int
      /\ "target" \in Accounts /\ "live" \in Accounts
  BY DEF TypeOK, Accounts
<1>1. TargetLimits(order', cash'["target"])
  BY <1>0, TargetEases DEF MoneyInv, Eases
<1>2. highWater \in Int /\ highWater <= highWater
  BY DEF MoneyInv
<1>3. LiveLimits(order', cash'["live"], highWater)
  BY <1>0, <1>2, LiveEases DEF MoneyInv, Eases
<1>4. ASSUME NEW s \in Scanners PROVE ReadFits(scan'[s], read'[s], order', cash'["live"], highWater)
  <2>1. CASE scan'[s].step \notin {"state", "fit"}
    BY <2>1 DEF ReadFits
  <2>2. CASE scan'[s] = scan[s] /\ read'[s] = read[s]
    <3>1. scan[s] \in ScanRow /\ read[s] \in ReadRow
      BY DEF TypeOK, MoneyInv
    <3>2. ReadFits(scan[s], read[s], order, cash["live"], highWater) /\ NoMore(order, order', "live")
          /\ cash["live"] <= cash'["live"]
      BY <1>0 DEF MoneyInv, Eases
    <3>3. ReadFits(scan[s], read[s], order', cash'["live"], highWater)
      BY <1>0, <1>2, <3>1, <3>2, ReadEases
    <3> QED BY <2>2, <3>3
  <2> QED BY <2>1, <2>2
<1> QED BY <1>1, <1>2, <1>3, <1>4 DEF MoneyInv

(* What a scan holds before it has read anything.                              *)
LEMMA BlankRead == NoRead \in ReadRow
BY DEF NoRead, ReadRow

(* A scan that reads nothing and enters nothing.                               *)
LEMMA ScanMoney ==
  ASSUME TypeOK, TypeOK', MoneyInv, UNCHANGED <<order, cash, highWater>>, NEW s \in Scanners,
         \A t \in Scanners \ {s} : scan'[t] = scan[t] /\ read'[t] = read[t],
         read' \in [Scanners -> ReadRow], scan'[s].step \notin {"state", "fit"}
  PROVE  MoneyInv'
BY SameEases, MoneyEases

(* A scan that ends, or returns to its next candidate.                         *)
LEMMA StopsMoney ==
  ASSUME TypeOK, TypeOK', MoneyInv, UNCHANGED <<order, cash, highWater>>, NEW s \in Scanners, Stops(s) \/ Returns(s)
  PROVE  MoneyInv'
<1>1. read' \in [Scanners -> ReadRow]
  BY BlankRead DEF MoneyInv, Stops, Returns
<1>2. \A t \in Scanners \ {s} : scan'[t] = scan[t] /\ read'[t] = read[t]
  BY DEF Stops, Returns, TypeOK, MoneyInv
<1>3. scan'[s].step \notin {"state", "fit"}
  BY DEF Stops, Returns, NoScan, TypeOK
<1> QED BY <1>1, <1>2, <1>3, ScanMoney

(* Equity is a number.                                                         *)
LEMMA EquityInt == ASSUME TypeOK PROVE Equity("live") \in Int /\ cash["live"] \in Int
<1>1. Risk("live", Markets) = RowsRisk(order, "live", Markets)
  BY RiskOfRows
<1>2. RowsRisk(order, "live", Markets) \in Int
  BY RiskInt DEF TypeOK
<1>3. cash["live"] \in Int
  BY DEF TypeOK, Accounts
<1> QED BY <1>1, <1>2, <1>3 DEF Equity

(* The account state is read in one transaction: it is true when it is read.   *)
LEMMA ReadsStateMoney ==
  ASSUME TypeOK, TypeOK', MoneyInv, NEW s \in Scanners, ReadsState(s) PROVE MoneyInv'
<1> DEFINE e == Equity("live")
           high == IF e > highWater THEN e ELSE highWater
<1>0. /\ e \in Int /\ highWater \in Int /\ high \in Int /\ highWater <= high /\ e <= high
      /\ order \in [Orders -> OrderRow] /\ cash["live"] \in Int /\ "live" \in Accounts
  BY EquityInt DEF MoneyInv, TypeOK, Accounts
<1>1. highWater' = high /\ UNCHANGED <<order, cash>>
  BY DEF ReadsState, book
<1>2. \/ Returns(s)
      \/ /\ Step(s, "state")
         /\ \E h \in BOOLEAN : read' = [read EXCEPT ![s] = [equity |-> e, cash |-> cash["live"], halved |-> h]]
  <2> DEFINE h == 100 * (high - e) >= 10 * high
  <2>1. h \in BOOLEAN
    OBVIOUS
  <2>2. \/ Returns(s)
        \/ Step(s, "state") /\ read' = [read EXCEPT ![s] = [equity |-> e, cash |-> cash["live"], halved |-> h]]
    BY Zenon DEF ReadsState
  <2> QED BY <2>1, <2>2, Zenon
<1>3. \A a : NoMore(order, order, a)
  <2>1. \A a, M : RowsRisk(order, a, M) \in Int
    BY <1>0, RiskInt
  <2> QED BY <2>1 DEF NoMore
<1>4. TargetLimits(order, cash["target"])
  BY DEF MoneyInv
<1>5. LiveLimits(order, cash["live"], high)
  <2>1. LiveLimits(order, cash["live"], highWater) /\ cash["live"] <= cash["live"]
    BY <1>0 DEF MoneyInv
  <2> HIDE DEF high
  <2> QED BY <1>0, <1>3, <2>1, LiveEases
<1>6. ASSUME NEW t \in Scanners PROVE ReadFits(scan[t], read[t], order, cash["live"], high)
  <2>1. ReadFits(scan[t], read[t], order, cash["live"], highWater) /\ cash["live"] <= cash["live"]
        /\ scan[t] \in ScanRow /\ read[t] \in ReadRow
    BY <1>0 DEF MoneyInv, TypeOK
  <2> HIDE DEF high
  <2> QED BY <1>0, <1>3, <2>1, ReadEases
<1>7. ASSUME NEW r \in ReadRow, read' = [read EXCEPT ![s] = r], scan'[s].step \notin {"state", "fit"} \/
                    (scan'[s].step = "state" /\ r.equity = e /\ r.cash = cash["live"]),
             \A t \in Scanners \ {s} : scan'[t] = scan[t]
      PROVE MoneyInv'
  <2>1. read' \in [Scanners -> ReadRow]
    BY <1>7 DEF MoneyInv
  <2>2. ASSUME NEW t \in Scanners PROVE ReadFits(scan'[t], read'[t], order, cash["live"], high)
    <3>1. CASE t = s
      <4>1. read'[s] = r
        BY <1>7 DEF MoneyInv
      <4> HIDE DEF e, high
      <4> QED BY <1>0, <1>7, <3>1, <4>1 DEF ReadFits
    <3>2. CASE t # s
      <4>1. scan'[t] = scan[t] /\ read'[t] = read[t]
        BY <1>7, <3>2 DEF MoneyInv
      <4> QED BY <1>6, <4>1
    <3> QED BY <3>1, <3>2
  <2> HIDE DEF high
  <2> QED BY <1>0, <1>1, <1>4, <1>5, <2>1, <2>2 DEF MoneyInv
<1>8. CASE Returns(s)
  <2>1. scan'[s].step = "pick" /\ \A t \in Scanners \ {s} : scan'[t] = scan[t]
    BY <1>8 DEF Returns, NoScan, TypeOK
  <2>2. read' = [read EXCEPT ![s] = NoRead]
    BY <1>8 DEF Returns
  <2> QED BY <1>7, <2>1, <2>2, BlankRead
<1>9. ASSUME Step(s, "state"), NEW h \in BOOLEAN,
             read' = [read EXCEPT ![s] = [equity |-> e, cash |-> cash["live"], halved |-> h]]
      PROVE  MoneyInv'
  <2> DEFINE r == [equity |-> e, cash |-> cash["live"], halved |-> h]
  <2>1. scan'[s].step = "state" /\ \A t \in Scanners \ {s} : scan'[t] = scan[t]
    BY <1>9 DEF Step, TypeOK, ScanRow
  <2>2. r \in ReadRow /\ r.equity = e /\ r.cash = cash["live"]
    BY <1>0 DEF ReadRow
  <2>3. read' = [read EXCEPT ![s] = r]
    BY <1>9
  <2> HIDE DEF r
  <2> QED BY <1>7, <2>1, <2>2, <2>3
<1> QED BY <1>2, <1>8, <1>9

(* The active rows are read later: the size fits the rows of now and a cash    *)
(* and an equity that were read before, and only more is there since.          *)
LEMMA ReadsRowsMoney ==
  ASSUME TypeOK, TypeOK', MoneyInv, NEW s \in Scanners, ReadsRows(s) PROVE MoneyInv'
<1>1. UNCHANGED <<order, cash, highWater>> /\ scan[s].step = "state"
  BY DEF ReadsRows, book
<1>2. CASE Returns(s)
  BY <1>1, <1>2, StopsMoney
<1>3. ASSUME NEW spend \in Spends, LiveFits(s, spend), UNCHANGED read,
             scan' = [scan EXCEPT ![s].step = "fit", ![s].spend = spend]
      PROVE  MoneyInv'
  <2>0. /\ scan[s] \in ScanRow /\ read[s] \in ReadRow /\ order \in [Orders -> OrderRow]
        /\ spend \in Nat /\ cash["live"] \in Int /\ highWater \in Int
        /\ read[s].equity \in Int /\ read[s].cash \in Int /\ scan[s].market \in Markets
    BY ConstantsAssumption DEF TypeOK, MoneyInv, ScanRow, ReadRow, Accounts
  <2>1. /\ scan'[s].step = "fit" /\ scan'[s].spend = spend /\ scan'[s].market = scan[s].market
        /\ \A t \in Scanners \ {s} : scan'[t] = scan[t]
    BY <1>3, <2>0 DEF TypeOK, ScanRow
  <2>2. read[s].equity <= highWater /\ read[s].cash <= cash["live"]
    BY <1>1 DEF MoneyInv, ReadFits
  <2>3. spend <= read[s].cash /\ \A c \in Scopes :
          100 * (RowsRisk(order, "live", Peers[c][scan[s].market]) + spend) <= LivePct[c] * read[s].equity
    BY <1>3, RiskOfRows DEF LiveFits
  <2>4. spend <= cash["live"]
    BY <2>0, <2>2, <2>3
  <2>5. ASSUME NEW c \in Scopes
        PROVE  100 * (RowsRisk(order, "live", Peers[c][scan[s].market]) + spend) <= LivePct[c] * highWater
    <3> DEFINE a == RowsRisk(order, "live", Peers[c][scan[s].market])
               x == LivePct[c] * read[s].equity
               y == LivePct[c] * highWater
    <3>1. x <= y /\ x \in Int /\ y \in Int
      BY <2>0, <2>2, PeersType, TimesMonotone
    <3>2. a \in Int /\ 100 * (a + spend) <= x
      BY <2>0, <2>3, RiskInt
    <3> HIDE DEF a, x, y
    <3>3. 100 * (a + spend) <= y
      BY <2>0, <3>1, <3>2
    <3> QED BY <3>3 DEF a, y
  <2>6. ReadFits(scan'[s], read[s], order, cash["live"], highWater)
    BY <2>1, <2>2, <2>4, <2>5 DEF ReadFits
  <2>7. \A t \in Scanners : ReadFits(scan'[t], read[t], order, cash["live"], highWater)
    BY <2>1, <2>6 DEF MoneyInv
  <2> QED BY <1>1, <1>3, <2>7 DEF MoneyInv
<1> QED BY <1>2, <1>3 DEF ReadsRows

(* The insert: nobody else has entered on the live account since the scan      *)
(* read it, because no other script is past the lock, so what fitted then      *)
(* fits now; the scopes of other markets that share the limit have the same    *)
(* rows.                                                                       *)
LEMMA EntryMoney ==
  ASSUME TypeOK, TypeOK', OneInv, MoneyInv, NEW s \in Scanners, UNCHANGED highWater,
         scan[s].step = "fit", \A t \in Scanners \ {s} : scan'[t] = scan[t],
         read' \in [Scanners -> ReadRow],
         NEW o \in Orders, NEW m \in Markets, NEW side, NEW spend \in Nat, NEW group,
         Enter(o, "live", m, side, spend, "none", group), spend <= scan[s].spend,
         \A c \in Scopes : Peers[c][m] = Peers[c][scan[s].market],
         \/ scan'[s].step \notin {"state", "fit"}
         \/ /\ scan'[s].step = "fit" /\ scan'[s].market = scan[s].market
            /\ scan'[s].spend = scan[s].spend - spend
  PROVE  MoneyInv'
<1>2. /\ highWater \in Int
      /\ order \in [Orders -> OrderRow] /\ order' \in [Orders -> OrderRow]
      /\ \A a \in Accounts : cash[a] \in Int /\ cash'[a] \in Int
      /\ "target" \in Accounts /\ "live" \in Accounts
  BY DEF TypeOK, MoneyInv, Accounts
<1>3. /\ cash'["live"] = cash["live"] - spend
      /\ \A M \in SUBSET Markets : RowsRisk(order', "live", M) = RowsRisk(order, "live", M) + (IF m \in M THEN spend ELSE 0)
      /\ cash'["target"] = cash["target"] /\ NoMore(order, order', "target")
  <2>1. "target" \in Accounts \ {"live"}
    BY <1>2
  <2>3. /\ cash'["live"] = cash["live"] - spend
        /\ \A M \in SUBSET Markets : RowsRisk(order', "live", M) = RowsRisk(order, "live", M) + (IF m \in M THEN spend ELSE 0)
        /\ \A b \in Accounts \ {"live"} : cash'[b] = cash[b] /\ NoMore(order, order', b)
    BY <1>2, EnterMoney
  <2> QED BY <2>1, <2>3
<1>f. /\ scan[s].spend \in Nat /\ scan[s].spend <= cash["live"]
      /\ \A c \in Scopes :
           100 * (RowsRisk(order, "live", Peers[c][m]) + scan[s].spend) <= LivePct[c] * highWater
  BY DEF TypeOK, ScanRow, MoneyInv, ReadFits
<1>4. /\ spend <= cash["live"]
      /\ \A c \in Scopes : 100 * (RowsRisk(order, "live", Peers[c][m]) + spend) <= LivePct[c] * highWater
  <2>1. ASSUME NEW c \in Scopes
        PROVE  100 * (RowsRisk(order, "live", Peers[c][m]) + spend) <= LivePct[c] * highWater
    <3> DEFINE a == RowsRisk(order, "live", Peers[c][m])
               y == LivePct[c] * highWater
    <3>1. a \in Int /\ y \in Int /\ 100 * (a + scan[s].spend) <= y
      BY <1>2, <1>f, RiskInt, PeersType
    <3> HIDE DEF a, y
    <3>2. 100 * (a + spend) <= y
      BY <1>f, <3>1
    <3> QED BY <3>2 DEF a, y
  <2> QED BY <1>2, <1>f, <2>1
<1>5. TargetLimits(order', cash'["target"])
  <2>1. cash["target"] <= cash'["target"] /\ TargetLimits(order, cash["target"])
    BY <1>2, <1>3 DEF MoneyInv
  <2> QED BY <1>2, <1>3, <2>1, TargetEases
<1>6. ASSUME NEW c \in Scopes, NEW n \in Markets
      PROVE  100 * RowsRisk(order', "live", Peers[c][n]) <= LivePct[c] * highWater
  <2>1. CASE m \in Peers[c][n]
    <3>1. Peers[c][m] = Peers[c][n] /\ Peers[c][n] \in SUBSET Markets
      BY <2>1, PeersType
    <3>2. RowsRisk(order', "live", Peers[c][n]) = RowsRisk(order, "live", Peers[c][m]) + spend
      BY <1>3, <2>1, <3>1
    <3> QED BY <1>4, <3>2
  <2>2. CASE m \notin Peers[c][n]
    <3>1. RowsRisk(order', "live", Peers[c][n]) = RowsRisk(order, "live", Peers[c][n])
      <4>1. RowsRisk(order, "live", Peers[c][n]) \in Int
        BY <1>2, RiskInt
      <4> QED BY <1>3, <2>2, <4>1, PeersType
    <3> QED BY <3>1 DEF MoneyInv, LiveLimits
  <2> QED BY <2>1, <2>2
<1>7. cash'["live"] >= 0
  BY <1>2, <1>3, <1>4
<1>8. LiveLimits(order', cash'["live"], highWater)
  BY <1>6, <1>7 DEF LiveLimits
<1>9. \A t \in Scanners \ {s} : scan'[t].step \notin {"state", "fit"}
  BY Alone DEF Looking
<1>10. ReadFits(scan'[s], read'[s], order', cash'["live"], highWater)
  <2>1. CASE scan'[s].step \notin {"state", "fit"}
    BY <2>1 DEF ReadFits
  <2>2. CASE scan'[s].step = "fit" /\ scan'[s].market = scan[s].market /\ scan'[s].spend = scan[s].spend - spend
    <3>1. ASSUME NEW c \in Scopes
          PROVE  100 * (RowsRisk(order', "live", Peers[c][scan'[s].market]) + scan'[s].spend) <= LivePct[c] * highWater
      <4>0. /\ scan[s].market \in Markets /\ Peers[c][m] \in SUBSET Markets
            /\ Peers[c][scan[s].market] = Peers[c][m]
        BY PeersType DEF TypeOK, ScanRow
      <4> DEFINE M == Peers[c][m]
                 a == RowsRisk(order, "live", M)
                 b == RowsRisk(order', "live", M)
                 y == LivePct[c] * highWater
      <4>1. a \in Int /\ b \in Int /\ y \in Int
        BY <1>2, RiskInt, PeersType
      <4>2. b = a + (IF m \in M THEN spend ELSE 0)
        BY <1>3, <4>0
      <4>3. 100 * (a + scan[s].spend) <= y
        BY <1>f
      <4>4. Peers[c][scan'[s].market] = M
        BY <2>2, <4>0
      <4> HIDE DEF a, b, y, M
      <4>5. 100 * (b + scan'[s].spend) <= y
        BY <1>f, <2>2, <4>1, <4>2, <4>3
      <4> QED BY <4>4, <4>5 DEF b, y
    <3>2. scan'[s].spend <= cash'["live"]
      BY <1>2, <1>3, <1>f, <2>2
    <3> QED BY <2>2, <3>1, <3>2 DEF ReadFits
  <2> QED BY <2>1, <2>2
<1> QED BY <1>2, <1>5, <1>8, <1>9, <1>10 DEF MoneyInv, ReadFits

LEMMA InsertMoney ==
  ASSUME TypeOK, TypeOK', OneInv, MoneyInv, NEW s \in Scanners, Inserts(s), NEW o \in Orders,
         Enter(o, "live", scan[s].market, scan[s].side, scan[s].spend, "none", "none")
  PROVE  MoneyInv'
<1>1. scan[s].step = "fit" /\ Returns(s) /\ UNCHANGED highWater
  BY DEF Inserts
<1>2. scan[s].market \in Markets /\ scan[s].spend \in Nat
  BY DEF TypeOK, ScanRow
<1>3. scan'[s].step = "pick" /\ \A t \in Scanners \ {s} : scan'[t] = scan[t]
  BY <1>1 DEF Returns, NoScan, TypeOK
<1>4. read' \in [Scanners -> ReadRow]
  BY <1>1, BlankRead DEF Returns, MoneyInv
<1>5. scan'[s].step \notin {"state", "fit"} /\ scan[s].spend <= scan[s].spend
  BY <1>2, <1>3
<1> QED BY <1>1, <1>2, <1>3, <1>4, <1>5, EntryMoney

(* A leg takes part of what was fit for the whole box, and leaves the rest to  *)
(* the other legs.                                                             *)
LEMMA LegMoney ==
  ASSUME TypeOK, TypeOK', OneInv, MoneyInv, NEW s \in Scanners,
         NEW leg \in Markets \X Sides, NEW cost \in 1 .. Capital, InsertsLeg(s, leg, cost)
  PROVE  MoneyInv'
<1>1. /\ scan[s].step = "fit" /\ leg \in scan[s].box /\ UNCHANGED highWater
      /\ cost \in Nat /\ cost <= scan[s].spend /\ leg[1] \in Markets
  BY ConstantsAssumption DEF InsertsLeg, TypeOK, ScanRow
<1>2. PICK o \in Orders, group \in Orders \cup {"none"} :
        /\ Enter(o, "live", leg[1], leg[2], cost, "none", group)
        /\ \/ Returns(s)
           \/ /\ scan' = [scan EXCEPT ![s].box = @ \ {leg}, ![s].spend = @ - cost, ![s].group = group]
              /\ UNCHANGED read
  BY DEF InsertsLeg, TypeOK, ScanRow
<1>3. \A c \in Scopes : Peers[c][leg[1]] = Peers[c][scan[s].market]
  BY <1>1 DEF OneInv, PickInv, Chosen, Relies, OneEvent
<1>4. CASE Returns(s)
  <2>1. scan'[s].step = "pick" /\ \A t \in Scanners \ {s} : scan'[t] = scan[t]
    BY <1>4 DEF Returns, NoScan, TypeOK
  <2>2. read' \in [Scanners -> ReadRow]
    BY <1>4, BlankRead DEF Returns, MoneyInv
  <2>3. scan'[s].step \notin {"state", "fit"}
    BY <2>1
  <2> QED BY <1>1, <1>2, <1>3, <2>1, <2>2, <2>3, EntryMoney
<1>5. CASE /\ scan' = [scan EXCEPT ![s].box = @ \ {leg}, ![s].spend = @ - cost, ![s].group = group]
           /\ UNCHANGED read
  <2>1. /\ scan'[s].step = "fit" /\ scan'[s].market = scan[s].market /\ scan'[s].spend = scan[s].spend - cost
        /\ \A t \in Scanners \ {s} : scan'[t] = scan[t]
    BY <1>1, <1>5 DEF TypeOK, ScanRow
  <2>2. read' \in [Scanners -> ReadRow]
    BY <1>5 DEF MoneyInv
  <2> QED BY <1>1, <1>2, <1>3, <2>1, <2>2, EntryMoney
<1> QED BY <1>2, <1>4, <1>5

(* The target account: the limits are read in the inserting transaction.       *)
LEMMA AdmitMoney ==
  ASSUME TypeOK, TypeOK', MoneyInv, NEW s \in Scanners, NEW d \in Decisions, Admits(s, d),
         TargetFits(evidence[d].market, evidence[d].spend), NEW o \in Orders,
         Enter(o, "target", evidence[d].market, evidence[d].side, evidence[d].spend, d, "none")
  PROVE  MoneyInv'
<1>1. Handled(s, d) /\ UNCHANGED <<highWater, read>>
  BY DEF Admits
<1>p. PICK m \in Markets, spend \in Nat, side \in Sides :
        m = evidence[d].market /\ spend = evidence[d].spend /\ side = evidence[d].side
  BY DEF TypeOK, EvidenceRow
<1>e. Enter(o, "target", m, side, spend, d, "none")
  BY <1>p DEF Enter
<1>2. /\ highWater \in Int /\ highWater <= highWater
      /\ order \in [Orders -> OrderRow] /\ order' \in [Orders -> OrderRow]
      /\ \A a \in Accounts : cash[a] \in Int /\ cash'[a] \in Int
      /\ "target" \in Accounts /\ "live" \in Accounts
  BY DEF TypeOK, EvidenceRow, MoneyInv, Accounts
<1>3. /\ cash'["target"] = cash["target"] - spend
      /\ \A M \in SUBSET Markets : RowsRisk(order', "target", M) = RowsRisk(order, "target", M) + (IF m \in M THEN spend ELSE 0)
      /\ cash'["live"] = cash["live"] /\ NoMore(order, order', "live")
  <2>1. "live" \in Accounts \ {"target"}
    BY <1>2
  <2>3. /\ cash'["target"] = cash["target"] - spend
        /\ \A M \in SUBSET Markets : RowsRisk(order', "target", M) = RowsRisk(order, "target", M) + (IF m \in M THEN spend ELSE 0)
        /\ \A b \in Accounts \ {"target"} : cash'[b] = cash[b] /\ NoMore(order, order', b)
    BY <1>2, <1>e, EnterMoney
  <2> QED BY <2>1, <2>3
<1>4. /\ spend <= cash["target"]
      /\ \A c \in Scopes : RowsRisk(order, "target", Peers[c][m]) + spend <= TargetCap[c]
  BY <1>p, RiskOfRows DEF TargetFits
<1>5. ASSUME NEW c \in Scopes, NEW n \in Markets
      PROVE  RowsRisk(order', "target", Peers[c][n]) <= TargetCap[c]
  <2>1. CASE m \in Peers[c][n]
    <3>1. Peers[c][m] = Peers[c][n] /\ Peers[c][n] \in SUBSET Markets
      BY <2>1, PeersType
    <3>2. RowsRisk(order', "target", Peers[c][n]) = RowsRisk(order, "target", Peers[c][m]) + spend
      BY <1>3, <2>1, <3>1
    <3> QED BY <1>4, <3>2
  <2>2. CASE m \notin Peers[c][n]
    <3>1. RowsRisk(order', "target", Peers[c][n]) = RowsRisk(order, "target", Peers[c][n])
      <4>1. RowsRisk(order, "target", Peers[c][n]) \in Int
        BY <1>2, RiskInt
      <4> QED BY <1>3, <2>2, <4>1, PeersType
    <3> QED BY <3>1 DEF MoneyInv, TargetLimits
  <2> QED BY <2>1, <2>2
<1>6. TargetLimits(order', cash'["target"])
  BY <1>2, <1>3, <1>4, <1>5 DEF TargetLimits
<1>7. cash["live"] <= cash'["live"]
  BY <1>2, <1>3
<1>8. LiveLimits(order', cash'["live"], highWater)
  BY <1>2, <1>3, <1>7, LiveEases DEF MoneyInv
<1>9. ASSUME NEW t \in Scanners PROVE ReadFits(scan'[t], read[t], order', cash'["live"], highWater)
  <2>1. CASE t = s
    <3>1. scan'[s].step = "admit"
      BY <1>1 DEF Handled, TypeOK, ScanRow
    <3> QED BY <2>1, <3>1 DEF ReadFits
  <2>2. CASE t # s
    <3>1. scan'[t] = scan[t] /\ scan[t] \in ScanRow /\ read[t] \in ReadRow
      BY <1>1, <2>2 DEF Handled, TypeOK, MoneyInv
    <3>2. ReadFits(scan[t], read[t], order, cash["live"], highWater)
      BY DEF MoneyInv
    <3> QED BY <1>2, <1>3, <1>7, <3>1, <3>2, ReadEases
  <2> QED BY <2>1, <2>2
<1> QED BY <1>1, <1>2, <1>6, <1>8, <1>9 DEF MoneyInv

(* Before the first scan nobody has anything at risk.                          *)
LEMMA InitMoney == Init => MoneyInv
<1> SUFFICES ASSUME Init PROVE MoneyInv OBVIOUS
<1>0. TypeOK /\ order = [o \in Orders |-> NoOrder] /\ Capital \in Nat
  BY InitTypeOK, ConstantsAssumption DEF Init
<1>1. ASSUME NEW a \in Accounts, NEW M PROVE RowsRisk(order, a, M) = 0
  <2>1. RowsOf(order, a, M) = {}
    BY <1>0 DEF RowsOf, NoOrder, Accounts
  <2> QED BY <2>1, SumEmpty DEF RowsRisk
<1>2. "live" \in Accounts /\ "target" \in Accounts /\ cash["live"] = Capital /\ cash["target"] = Capital
      /\ highWater = Capital
  BY DEF Init, Accounts
<1>3. \A c \in Scopes : TargetCap[c] \in Nat /\ LivePct[c] \in Nat
  BY ConstantsAssumption
<1>4. TargetLimits(order, cash["target"])
  BY <1>0, <1>1, <1>2, <1>3 DEF TargetLimits
<1>5. LiveLimits(order, cash["live"], highWater)
  <2>1. \A c \in Scopes : LivePct[c] * highWater >= 0
    BY <1>0, <1>2, <1>3, TimesMonotone
  <2>2. \A c \in Scopes, m \in Markets : 100 * RowsRisk(order, "live", Peers[c][m]) = 0
    BY <1>1, <1>2
  <2> QED BY <1>0, <1>2, <2>1, <2>2 DEF LiveLimits
<1>6. \A s \in Scanners : ReadFits(scan[s], read[s], order, cash["live"], highWater)
  BY DEF Init, NoScan, ReadFits
<1>7. read \in [Scanners -> ReadRow]
  BY BlankRead DEF Init
<1> QED BY <1>0, <1>2, <1>4, <1>5, <1>6, <1>7 DEF MoneyInv

(* One step of a live scan.                                                    *)
LEMMA LiveMoney ==
  ASSUME TypeOK, TypeOK', OneInv, MoneyInv, NEW s \in Scanners, LiveStep(s) PROVE MoneyInv'
<1>0. scan[s] \in ScanRow /\ read \in [Scanners -> ReadRow]
  BY DEF TypeOK, MoneyInv
<1>1. CASE LiveBegins(s)
  <2>1. scan'[s].step = "pick" /\ \A t \in Scanners \ {s} : scan'[t] = scan[t]
    BY <1>1 DEF LiveBegins, Step, TypeOK, ScanRow
  <2> QED BY <1>0, <1>1, <2>1, ScanMoney DEF LiveBegins, book
<1>2. ASSUME NEW m \in Markets, NEW side \in Sides, Picks(s, m, side) PROVE MoneyInv'
  <2>1. scan'[s].step = "picked" /\ \A t \in Scanners \ {s} : scan'[t] = scan[t]
    BY <1>2 DEF Picks, TypeOK, ScanRow
  <2> QED BY <1>0, <1>2, <2>1, ScanMoney DEF Picks, book
<1>3. CASE ReadsState(s)
  BY <1>3, ReadsStateMoney
<1>4. CASE ReadsRows(s)
  BY <1>4, ReadsRowsMoney
<1>5. CASE Inserts(s)
  <2>1. CASE UNCHANGED book
    BY <1>5, <2>1, StopsMoney DEF Inserts, book
  <2>2. ASSUME NEW o \in Orders, Enter(o, "live", scan[s].market, scan[s].side, scan[s].spend, "none", "none")
        PROVE  MoneyInv'
    BY <1>5, <2>2, InsertMoney
  <2> QED BY <1>5, <2>1, <2>2 DEF Inserts
<1>6. CASE LiveEnds(s)
  BY <1>6, StopsMoney DEF LiveEnds, book
<1>7. ASSUME NEW box \in Boxes, PicksBox(s, box) PROVE MoneyInv'
  <2>1. scan'[s].step = "picked" /\ \A t \in Scanners \ {s} : scan'[t] = scan[t]
    BY <1>7 DEF PicksBox, TypeOK, ScanRow
  <2> QED BY <1>0, <1>7, <2>1, ScanMoney DEF PicksBox, book
<1>8. ASSUME NEW leg \in Markets \X Sides, NEW cost \in 1 .. Capital, InsertsLeg(s, leg, cost) PROVE MoneyInv'
  BY <1>8, LegMoney
<1>9. CASE BoxFails(s)
  BY <1>9, StopsMoney DEF BoxFails, book
<1> QED BY <1>1, <1>2, <1>3, <1>4, <1>5, <1>6, <1>7, <1>8, <1>9 DEF LiveStep

(* One step of a research scan.                                                *)
LEMMA ResearchMoney ==
  ASSUME TypeOK, TypeOK', MoneyInv, NEW s \in Scanners, ResearchStep(s) PROVE MoneyInv'
<1>0. scan[s] \in ScanRow /\ read \in [Scanners -> ReadRow]
  BY DEF TypeOK, MoneyInv
<1>h. ASSUME NEW d, Handled(s, d) PROVE scan'[s].step = "admit" /\ \A t \in Scanners \ {s} : scan'[t] = scan[t]
  BY <1>h DEF Handled, TypeOK, ScanRow
<1>1. CASE ResearchBegins(s)
  <2>1. scan'[s].step = "plan" /\ \A t \in Scanners \ {s} : scan'[t] = scan[t]
    BY <1>1 DEF ResearchBegins, TypeOK, ScanRow
  <2> QED BY <1>0, <1>1, <2>1, ScanMoney DEF ResearchBegins, book
<1>2. CASE Batches(s)
  <2>1. scan'[s].step = "admit" /\ \A t \in Scanners \ {s} : scan'[t] = scan[t]
    <3>1. PICK new : scan' = [scan EXCEPT ![s].step = "admit", ![s].todo = new]
      BY <1>2 DEF Batches, Batch
    <3> QED BY <3>1 DEF TypeOK, ScanRow
  <2> QED BY <1>0, <1>2, <2>1, ScanMoney DEF Batches, book
<1>3. ASSUME NEW d \in Decisions, Refused(s, d) PROVE MoneyInv'
  <2>1. scan'[s].step = "refused" /\ \A t \in Scanners \ {s} : scan'[t] = scan[t]
    BY <1>3 DEF Refused, TypeOK, ScanRow
  <2> QED BY <1>0, <1>3, <2>1, ScanMoney DEF Refused, book
<1>4. CASE Marks(s)
  <2>1. scan'[s].step = "admit" /\ \A t \in Scanners \ {s} : scan'[t] = scan[t]
    BY <1>4, <1>h DEF Marks
  <2> QED BY <1>0, <1>4, <2>1, ScanMoney DEF Marks, book
<1>5. ASSUME NEW d \in Decisions, Loses(s, d) \/ ResearchEnds(s) PROVE MoneyInv'
  BY <1>5, StopsMoney DEF Loses, ResearchEnds, book
<1>6. CASE ResearchEnds(s)
  BY <1>6, StopsMoney DEF ResearchEnds, book
<1>7. ASSUME NEW d \in Decisions, Admits(s, d) PROVE MoneyInv'
  <2>1. CASE UNCHANGED book
    <3>1. scan'[s].step = "admit" /\ \A t \in Scanners \ {s} : scan'[t] = scan[t]
      BY <1>7, <1>h DEF Admits
    <3> QED BY <1>0, <1>7, <2>1, <3>1, ScanMoney DEF Admits, book
  <2>2. ASSUME TargetFits(evidence[d].market, evidence[d].spend), NEW o \in Orders,
               Enter(o, "target", evidence[d].market, evidence[d].side, evidence[d].spend, d, "none")
        PROVE  MoneyInv'
    BY <1>7, <2>2, AdmitMoney
  <2> QED BY <1>7, <2>1, <2>2 DEF Admits
<1> QED BY <1>1, <1>2, <1>3, <1>4, <1>5, <1>6, <1>7 DEF ResearchStep

(* Every step.                                                                 *)
LEMMA StepMoney == IInv /\ MoneyInv /\ [Next]_vars => (IInv /\ MoneyInv)'
<1> SUFFICES ASSUME IInv, MoneyInv, [Next]_vars PROVE MoneyInv'
  BY StepIInv
<1>0. TypeOK /\ TypeOK' /\ OneInv
  BY StepTypeOK DEF IInv
<1>1. CASE World
  <2>1. Eases /\ UNCHANGED <<scan, read, highWater>>
    BY <1>0, <1>1, WorldEases
  <2>2. read' \in [Scanners -> ReadRow]
    BY <2>1 DEF MoneyInv
  <2> QED BY <1>0, <2>1, <2>2, MoneyEases
<1>2. ASSUME NEW s \in Scanners, LiveStep(s) PROVE MoneyInv'
  BY <1>0, <1>2, LiveMoney
<1>3. ASSUME NEW s \in Scanners, ResearchStep(s) PROVE MoneyInv'
  BY <1>0, <1>3, ResearchMoney
<1>4. ASSUME NEW s \in Scanners, Dies(s) PROVE MoneyInv'
  BY <1>0, <1>4, StopsMoney DEF Dies, book
<1>5. CASE UNCHANGED vars
  <2>1. UNCHANGED <<order, cash, scan, read, highWater>>
    BY <1>5 DEF vars, book
  <2>2. read' \in [Scanners -> ReadRow]
    BY <2>1 DEF MoneyInv
  <2> QED BY <1>0, <2>1, <2>2, SameEases, MoneyEases
<1> QED BY <1>1, <1>2, <1>3, <1>4, <1>5 DEF Next

(* The inductive invariant of the limits, with that of the live positions: a   *)
(* live scan that inserts is alone.                                            *)
THEOREM MoneyKept == Spec => [](IInv /\ MoneyInv)
<1>1. Init => IInv /\ MoneyInv
  BY InitIInv, InitMoney
<1> QED BY <1>1, StepMoney, PTL DEF Spec

(* Whoever scans beside whom, and whatever the monitor fills, expires or       *)
(* closes in between, the target account keeps every limit and never pays      *)
(* with money it does not have.                                                *)
THEOREM TargetLimitsHold == Spec => []TargetWithinLimits
<1>1. MoneyInv => TargetWithinLimits
  BY RiskOfRows DEF MoneyInv, TargetLimits, TargetWithinLimits
<1> QED BY <1>1, MoneyKept, PTL

(* The live account keeps its shares of the highest equity seen, and its       *)
(* cash, although its entries are decided on state, rows and an insert that    *)
(* are three transactions.                                                     *)
THEOREM LiveLimitsHold == Spec => []LiveWithinLimits
<1>1. MoneyInv => LiveWithinLimits
  BY RiskOfRows DEF MoneyInv, LiveLimits, LiveWithinLimits
<1> QED BY <1>1, MoneyKept, PTL

-----------------------------------------------------------------------------
(* MakerTape: the types of its state and of an allocation in the making.       *)
Taking == [queue : Nat, fill : Nat]
RowStatus == {"NONE", "RESTING", "FILLED", "EXPIRED", "EXITED", "CUT_OVER", "SETTLED_OUT"}
RowType == [status : RowStatus, placed : Nat, expires : Nat, pulled : BOOLEAN, filled : Int, queue : Int]
StateType == [left : [VolumeScopes -> [Trades -> Nat]], queue : [Quotes -> Nat], unfilled : [Quotes -> Nat],
              got : [Quotes -> [Trades -> Taking]]]

RowTypes ==
  /\ row \in [Quotes -> RowType]
  /\ executed \in [Trades -> Nat]
  /\ allocations \in [Quotes -> [Trades -> Taking]]

(* What the quotes and trades of the market are.                               *)
LEMMA Terms ==
  /\ \A o \in Quotes : /\ o \in Nat /\ QuoteTerms[o].limit \in Nat /\ QuoteTerms[o].queuePrice \in Nat
                       /\ QuoteTerms[o].queue \in Nat /\ QuoteTerms[o].quantity \in Nat
                       /\ QuoteTerms[o].ttl \in Nat
                       /\ QuoteTerms[o].limit > QuoteTerms[o].queuePrice => QuoteTerms[o].queue = 0
  /\ \A t \in Trades : t \in Nat /\ TradeTerms[t].price \in Nat /\ TradeTerms[t].quantity \in Nat
  BY TermsAssumption, QueueAssumption

(* The quotes that share a volume are those of the scope of each of them.      *)
LEMMA ScopeParts ==
  /\ \A o \in Quotes : Scope(o) \in VolumeScopes /\ o \in Scope(o) /\ Scope(o) \in SUBSET Quotes
  /\ \A S \in VolumeScopes, o \in Quotes : o \in S => S = Scope(o)
  /\ \A S \in VolumeScopes : S \in SUBSET Quotes /\ IsFiniteSet(S)
<1>1. \A o \in Quotes : Scope(o) \in VolumeScopes /\ o \in Scope(o) /\ Scope(o) \in SUBSET Quotes
  BY DEF Scope, VolumeScopes
<1>2. ASSUME NEW S \in VolumeScopes, NEW o \in Quotes, o \in S PROVE S = Scope(o)
  <2>1. PICK p \in Quotes : S = Scope(p) BY DEF VolumeScopes
  <2> QED BY <1>2, <2>1 DEF Scope
<1>3. \A S \in VolumeScopes : S \in SUBSET Quotes BY <1>1 DEF VolumeScopes
<1> QED BY <1>1, <1>2, <1>3, FS_Subset, TermsAssumption

-----------------------------------------------------------------------------
(* The order of the offers.                                                    *)
LEMMA BeforeOrders ==
  ASSUME RowTypes
  PROVE  /\ \A q, r \in Trades \X Quotes : q # r => Before(q, r) \/ Before(r, q)
         /\ \A q, r, u \in Trades \X Quotes : Before(q, r) /\ Before(r, u) => Before(q, u)
         /\ \A t \in Trades, o, p \in Quotes : Before(<<t, o>>, <<t, p>>) => ~Priority(p, o)
<1>1. \A t \in Trades : executed[t] \in Nat /\ t \in Nat BY Terms DEF RowTypes
<1>2. \A o \in Quotes : row[o].placed \in Nat /\ o \in Nat /\ QuoteTerms[o].limit \in Nat
  BY Terms DEF RowTypes, RowType
<1>3. /\ \A t, u \in Trades : t # u => TradeOrder(t, u) \/ TradeOrder(u, t)
      /\ \A t, u, v \in Trades : TradeOrder(t, u) /\ TradeOrder(u, v) => TradeOrder(t, v)
  BY <1>1 DEF TradeOrder
<1>4. /\ \A o, p \in Quotes : o # p => Priority(o, p) \/ Priority(p, o)
      /\ \A o, p, q \in Quotes : Priority(o, p) /\ Priority(p, q) => Priority(o, q)
  BY <1>2 DEF Priority
<1>5. \A q \in Trades \X Quotes : q[1] \in Trades /\ q[2] \in Quotes /\ q = <<q[1], q[2]>>
  OBVIOUS
<1>6. ASSUME NEW q \in Trades \X Quotes, NEW r \in Trades \X Quotes, q # r
      PROVE  Before(q, r) \/ Before(r, q)
  BY <1>3, <1>4, <1>5, <1>6 DEF Before
<1>7. ASSUME NEW q \in Trades \X Quotes, NEW r \in Trades \X Quotes, NEW u \in Trades \X Quotes,
             Before(q, r), Before(r, u)
      PROVE  Before(q, u)
  BY <1>3, <1>4, <1>5, <1>7 DEF Before
<1>8. ASSUME NEW t \in Trades, NEW o \in Quotes, NEW p \in Quotes, Before(<<t, o>>, <<t, p>>)
      PROVE  ~Priority(p, o)
  <2>1. ~TradeOrder(t, t) BY <1>1 DEF TradeOrder
  <2>2. Priority(o, p) BY <1>8, <2>1 DEF Before
  <2> QED BY <1>2, <2>2 DEF Priority
<1> QED BY <1>6, <1>7, <1>8

(* A set of offers that is not empty has a last one.                           *)
LEMMA LastOfferExists ==
  ASSUME RowTypes, NEW P \in SUBSET (Trades \X Quotes)
  PROVE  \A offers \in SUBSET P : IsFiniteSet(P) /\ offers # {} =>
           /\ LastOffer(offers) \in offers
           /\ \A r \in offers \ {LastOffer(offers)} : Before(r, LastOffer(offers))
<1> SUFFICES ASSUME IsFiniteSet(P)
             PROVE  \A offers \in SUBSET P : offers # {} =>
                      /\ LastOffer(offers) \in offers
                      /\ \A r \in offers \ {LastOffer(offers)} : Before(r, LastOffer(offers))
  OBVIOUS
<1> DEFINE Last(T) == \E q \in T : \A r \in T \ {q} : Before(r, q)
           Good == {T \in SUBSET P : T # {} => Last(T)}
<1>1. ASSUME NEW T \in SUBSET P, \A q \in T : T \ {q} \in Good PROVE T \in Good
  <2> SUFFICES ASSUME T # {} PROVE Last(T) OBVIOUS
  <2>1. PICK q \in T : TRUE OBVIOUS
  <2>2. CASE T \ {q} = {} BY <2>2
  <2>3. CASE T \ {q} # {}
    <3>1. PICK p \in T \ {q} : \A r \in (T \ {q}) \ {p} : Before(r, p) BY <1>1, <2>3
    <3>2. p \in Trades \X Quotes /\ q \in Trades \X Quotes /\ \A r \in T : r \in Trades \X Quotes
      OBVIOUS
    <3>3. Before(p, q) \/ Before(q, p) BY <3>2, BeforeOrders
    <3>4. CASE Before(q, p)
      <4>1. \A r \in T \ {p} : Before(r, p) BY <3>1, <3>4
      <4> QED BY <4>1
    <3>5. CASE Before(p, q)
      <4>1. \A r \in T \ {q} : Before(r, q) BY <3>1, <3>2, <3>5, BeforeOrders
      <4> QED BY <4>1
    <3> QED BY <3>3, <3>4, <3>5
  <2> QED BY <2>2, <2>3
<1>2. \A T \in SUBSET P : T \in Good
  <2> HIDE DEF Good
  <2> QED BY <1>1, SubsetInduction
<1>3. ASSUME NEW offers \in SUBSET P, offers # {}
      PROVE  /\ LastOffer(offers) \in offers
             /\ \A r \in offers \ {LastOffer(offers)} : Before(r, LastOffer(offers))
  <2>1. Last(offers) BY <1>2, <1>3
  <2> QED BY <2>1 DEF LastOffer
<1> QED BY <1>3
-----------------------------------------------------------------------------
(* One offer.                                                                  *)

(* A quote can take nothing more of a trade, were there all the volume left;   *)
(* or it cannot because there is none.                                         *)
Blocked(s, t, o) ==
  \/ ~DuringLife(t, o)
  \/ s.unfilled[o] <= 0
  \/ s.queue[o] > 0 /\ ~Reaches(t, QuoteTerms[o].queuePrice)
  \/ s.queue[o] = 0 /\ ~Reaches(t, QuoteTerms[o].limit)

Spent(s, t, o) == s.left[Scope(o)][t] <= 0 \/ Blocked(s, t, o)

(* From s to s1 quote o takes q for its queue and f for itself of trade t.     *)
Takes(s, s1, t, o, q, f) ==
  /\ s1 \in StateType
  /\ \A S \in VolumeScopes, u \in Trades :
       s1.left[S][u] = s.left[S][u] - (IF S = Scope(o) /\ u = t THEN q + f ELSE 0)
  /\ \A p \in Quotes : s1.queue[p] = s.queue[p] - (IF p = o THEN q ELSE 0)
  /\ \A p \in Quotes : s1.unfilled[p] = s.unfilled[p] - (IF p = o THEN f ELSE 0)
  /\ \A p \in Quotes, u \in Trades :
       s1.got[p][u] = IF p = o /\ u = t THEN [queue |-> q, fill |-> f] ELSE s.got[p][u]

(* The record that Offer returns takes what it says.                           *)
LEMMA TakesOffered ==
  ASSUME NEW s \in StateType, NEW t \in Trades, NEW o \in Quotes, NEW q \in Nat, NEW f \in Nat,
         NEW l, l = s.left[Scope(o)][t] - (q + f),
         q <= s.queue[o], f <= s.unfilled[o], q + f <= s.left[Scope(o)][t]
  PROVE  Takes(s, [left |-> [s.left EXCEPT ![Scope(o)][t] = l],
                   queue |-> [s.queue EXCEPT ![o] = @ - q],
                   unfilled |-> [s.unfilled EXCEPT ![o] = @ - f],
                   got |-> [s.got EXCEPT ![o][t] = [queue |-> q, fill |-> f]]], t, o, q, f)
<1> DEFINE S0 == Scope(o)
           left1 == [s.left EXCEPT ![S0][t] = l]
           queue1 == [s.queue EXCEPT ![o] = @ - q]
           unfilled1 == [s.unfilled EXCEPT ![o] = @ - f]
           got1 == [s.got EXCEPT ![o][t] = [queue |-> q, fill |-> f]]
           s1 == [left |-> left1, queue |-> queue1, unfilled |-> unfilled1, got |-> got1]
<1>1. S0 \in VolumeScopes BY ScopeParts
<1>2. /\ s.left \in [VolumeScopes -> [Trades -> Nat]] /\ s.queue \in [Quotes -> Nat]
      /\ s.unfilled \in [Quotes -> Nat] /\ s.got \in [Quotes -> [Trades -> Taking]]
      /\ s = [left |-> s.left, queue |-> s.queue, unfilled |-> s.unfilled, got |-> s.got]
  BY DEF StateType
<1> HIDE DEF S0
<1>3. l \in Nat BY <1>1, <1>2 DEF S0
<1>4. /\ left1 \in [VolumeScopes -> [Trades -> Nat]]
      /\ \A S \in VolumeScopes, u \in Trades :
           left1[S][u] = s.left[S][u] - (IF S = S0 /\ u = t THEN q + f ELSE 0)
  BY <1>1, <1>2, <1>3 DEF S0
<1>5. /\ queue1 \in [Quotes -> Nat]
      /\ \A p \in Quotes : queue1[p] = s.queue[p] - (IF p = o THEN q ELSE 0)
  BY <1>2
<1>6. /\ unfilled1 \in [Quotes -> Nat]
      /\ \A p \in Quotes : unfilled1[p] = s.unfilled[p] - (IF p = o THEN f ELSE 0)
  BY <1>2
<1>7. [queue |-> q, fill |-> f] \in Taking BY DEF Taking
<1>8. /\ got1 \in [Quotes -> [Trades -> Taking]]
      /\ \A p \in Quotes, u \in Trades :
           got1[p][u] = IF p = o /\ u = t THEN [queue |-> q, fill |-> f] ELSE s.got[p][u]
  BY <1>2, <1>7
<1> HIDE DEF left1, queue1, unfilled1, got1
<1>10. s1 \in StateType BY <1>4, <1>5, <1>6, <1>8 DEF StateType
<1>11. s1.left = left1 /\ s1.queue = queue1 /\ s1.unfilled = unfilled1 /\ s1.got = got1 OBVIOUS
<1> HIDE DEF s1
<1>12. Takes(s, s1, t, o, q, f) BY <1>4, <1>5, <1>6, <1>8, <1>10, <1>11 DEF Takes, S0
<1> QED BY <1>12 DEF s1, S0, left1, queue1, unfilled1, got1

(* An allocation that stays as it is takes nothing.                            *)
LEMMA TakesNothing ==
  ASSUME NEW s \in StateType, NEW t \in Trades, NEW o \in Quotes, s.got[o][t] = Nothing
  PROVE  Takes(s, s, t, o, 0, 0)
<1>1. /\ \A S \in VolumeScopes, u \in Trades : s.left[S][u] \in Int
      /\ \A p \in Quotes : s.queue[p] \in Int /\ s.unfilled[p] \in Int
  BY DEF StateType
<1> QED BY <1>1 DEF Takes, Nothing

(* The bounds of what an offer gives, and that it gives all it can.            *)
Offered(s, s1, t, o, q, f) ==
  /\ Takes(s, s1, t, o, q, f)
  /\ q <= s.queue[o] /\ f <= s.unfilled[o] /\ q + f <= s.left[Scope(o)][t]
  /\ Spent(s, t, o) => q = 0 /\ f = 0
  /\ Spent(s1, t, o)

(* An offer gives what the bounds allow, and when it is over the quote can     *)
(* take nothing more of that trade.                                            *)
LEMMA OfferGives ==
  ASSUME NEW s \in StateType, NEW t \in Trades, NEW o \in Quotes, NEW n, n = s.got[o][t]
  PROVE  /\ Offer(s, t, o) \in StateType
         /\ n = Nothing => \E q, f \in Nat : Offered(s, Offer(s, t, o), t, o, q, f)
<1> DEFINE left == s.left[Scope(o)][t]
           toQueue == Consumed(s.queue[o], left)
           rest == left - toQueue
           toFill == IF s.queue[o] > toQueue \/ ~Reaches(t, QuoteTerms[o].limit) THEN 0
                     ELSE Consumed(s.unfilled[o], rest)
           s1 == Offer(s, t, o)
           Skips == \/ left <= 0
                    \/ ~DuringLife(t, o)
                    \/ s.unfilled[o] <= 0
                    \/ s.queue[o] > 0 /\ ~Reaches(t, QuoteTerms[o].queuePrice)
<1>1. left \in Nat /\ s.queue[o] \in Nat /\ s.unfilled[o] \in Nat
  BY ScopeParts DEF StateType
<1>2. s1 = IF Skips THEN s
           ELSE [left |-> [s.left EXCEPT ![Scope(o)][t] = rest - toFill],
                 queue |-> [s.queue EXCEPT ![o] = @ - toQueue],
                 unfilled |-> [s.unfilled EXCEPT ![o] = @ - toFill],
                 got |-> [s.got EXCEPT ![o][t] = [queue |-> toQueue, fill |-> toFill]]]
  BY DEF Offer
<1>3. CASE Skips
  <2>1. s1 = s BY <1>2, <1>3
  <2>2. Spent(s, t, o) BY <1>3 DEF Spent, Blocked
  <2>3. n = Nothing => Takes(s, s, t, o, 0, 0) BY TakesNothing
  <2>4. n = Nothing => Offered(s, s, t, o, 0, 0) BY <1>1, <2>2, <2>3 DEF Offered
  <2> QED BY <2>1, <2>4
<1>4. CASE ~Skips
  <2>1. /\ toQueue \in Nat /\ toQueue <= s.queue[o] /\ toQueue <= left
        /\ toQueue = s.queue[o] \/ toQueue = left
    BY <1>1 DEF Consumed
  <2>2. rest \in Nat BY <1>1, <2>1
  <2>3. /\ toFill \in Nat /\ toFill <= s.unfilled[o] /\ toFill <= rest
    BY <1>1, <2>1, <2>2 DEF Consumed
  <2>4. \/ toFill = rest \/ toFill = s.unfilled[o] \/ s.queue[o] > toQueue
        \/ ~Reaches(t, QuoteTerms[o].limit)
    BY <1>1, <2>2 DEF Consumed
  <2>5. s.queue[o] > toQueue => toFill = 0 /\ toQueue = left BY <1>1, <2>1
  <2>6. ~Reaches(t, QuoteTerms[o].limit) => toFill = 0 OBVIOUS
  <2>7. s.queue[o] = 0 => toQueue = 0 BY <2>1
  <2>8. rest = left - toQueue OBVIOUS
  <2>9. left = s.left[Scope(o)][t] OBVIOUS
  <2>10. ~Skips => /\ DuringLife(t, o) /\ s.unfilled[o] > 0 /\ left > 0
                   /\ s.queue[o] > 0 => Reaches(t, QuoteTerms[o].queuePrice)
    BY <1>1
  <2>11. s1 = [left |-> [s.left EXCEPT ![Scope(o)][t] = rest - toFill],
                 queue |-> [s.queue EXCEPT ![o] = @ - toQueue],
                 unfilled |-> [s.unfilled EXCEPT ![o] = @ - toFill],
                 got |-> [s.got EXCEPT ![o][t] = [queue |-> toQueue, fill |-> toFill]]]
    BY <1>2, <1>4
  <2>12. ~Skips BY <1>4
  <2> HIDE DEF left, toQueue, rest, toFill, s1, Skips
  <2>13. rest - toFill = s.left[Scope(o)][t] - (toQueue + toFill) BY <1>1, <2>1, <2>2, <2>3, <2>8, <2>9
  <2>18. toQueue + toFill <= s.left[Scope(o)][t] BY <1>1, <2>1, <2>2, <2>3, <2>8, <2>9
  <2>14. Takes(s, s1, t, o, toQueue, toFill) BY <2>1, <2>3, <2>11, <2>13, <2>18, TakesOffered
  <2>15. /\ s1.left[Scope(o)][t] = rest - toFill /\ s1.queue[o] = s.queue[o] - toQueue
         /\ s1.unfilled[o] = s.unfilled[o] - toFill
    BY <2>13, <2>14, <2>9, ScopeParts DEF Takes
  <2>16. Spent(s1, t, o)
    <3>1. CASE toFill = rest BY <3>1, <2>15, <2>2 DEF Spent, Blocked
    <3>2. CASE toFill = s.unfilled[o] BY <3>2, <2>15, <1>1 DEF Spent, Blocked
    <3>3. CASE s.queue[o] > toQueue BY <3>3, <2>2, <2>5, <2>8, <2>15, <1>1 DEF Spent, Blocked
    <3>4. CASE ~Reaches(t, QuoteTerms[o].limit) /\ ~(s.queue[o] > toQueue)
      <4>1. s1.queue[o] = 0 BY <3>4, <2>1, <2>15, <1>1
      <4> QED BY <3>4, <4>1 DEF Spent, Blocked
    <3> QED BY <3>1, <3>2, <3>3, <3>4, <2>4
  <2>17. Spent(s, t, o) => toQueue = 0 /\ toFill = 0
    <3> SUFFICES ASSUME Spent(s, t, o) PROVE toQueue = 0 /\ toFill = 0 OBVIOUS
    <3>1. s.queue[o] = 0 /\ ~Reaches(t, QuoteTerms[o].limit)
      BY <2>9, <2>10, <2>12, <1>1 DEF Spent, Blocked
    <3> QED BY <3>1, <2>6, <2>7
  <2>19. Offered(s, s1, t, o, toQueue, toFill) BY <2>1, <2>3, <2>14, <2>16, <2>17, <2>18 DEF Offered
  <2> QED BY <2>1, <2>3, <2>14, <2>19 DEF s1, Takes
<1> QED BY <1>3, <1>4

-----------------------------------------------------------------------------
(* What an allocation that has made the offers P has given.                    *)
Given(s, t) == [o \in Quotes |-> s.got[o][t].queue + s.got[o][t].fill]

(* Nothing is lost or made: what is left and what was given are what there was. *)
Conserves(s, base) ==
  /\ \A S \in VolumeScopes, t \in Trades : s.left[S][t] + SumFunctionOnSet(Given(s, t), S) = base.left[S][t]
  /\ \A o \in Quotes : /\ s.queue[o] + Total(s.got[o], "queue") = base.queue[o]
                       /\ s.unfilled[o] + Total(s.got[o], "fill") = base.unfilled[o]

(* A quote whose offer was made, or that could take nothing before, can take   *)
(* nothing now; without an offer it got nothing.                               *)
Exhausts(s, base, P) ==
  \A o \in Quotes, t \in Trades :
    /\ Spent(base, t, o) \/ <<t, o>> \in P => Spent(s, t, o)
    /\ Spent(base, t, o) \/ <<t, o>> \notin P => s.got[o][t] = Nothing

(* A quote got shares of a trade only after those before it could take no more. *)
Ordered(s, P) ==
  \A t \in Trades, o, p \in Quotes :
    /\ <<t, o>> \in P /\ <<t, p>> \in P /\ Scope(o) = Scope(p) /\ Priority(o, p)
    /\ s.got[p][t] # Nothing
    => Blocked(s, t, o)

Sound(s, base, P) ==
  /\ s \in StateType
  /\ \A o \in Quotes : s.queue[o] <= QuoteTerms[o].queue
  /\ Conserves(s, base)
  /\ Exhausts(s, base, P)
  /\ Ordered(s, P)

(* What one quote takes never lets another one take more: the queue ahead of   *)
(* a quote that joined a bid ends at a price at or above its own limit.        *)
LEMMA SpentStays ==
  ASSUME NEW s \in StateType, NEW s1 \in StateType, NEW t0 \in Trades, NEW o0 \in Quotes,
         NEW q \in Nat, NEW f \in Nat, Takes(s, s1, t0, o0, q, f),
         \A o \in Quotes : s.queue[o] <= QuoteTerms[o].queue,
         NEW o \in Quotes, NEW t \in Trades
  PROVE  /\ Spent(s, t, o) => Spent(s1, t, o)
         /\ Blocked(s, t, o) => Blocked(s1, t, o)
         /\ s1.left[Scope(o)][t] > 0 => s.left[Scope(o)][t] > 0
<1>1. /\ s.left[Scope(o)][t] \in Nat /\ s.queue[o] \in Nat /\ s.unfilled[o] \in Nat
      /\ s1.left[Scope(o)][t] \in Nat /\ s1.queue[o] \in Nat /\ s1.unfilled[o] \in Nat
  BY ScopeParts DEF StateType
<1>2. /\ s1.left[Scope(o)][t] <= s.left[Scope(o)][t] /\ s1.queue[o] <= s.queue[o]
      /\ s1.unfilled[o] <= s.unfilled[o]
  BY <1>1, ScopeParts DEF Takes
<1>3. CASE s.queue[o] > 0 /\ ~Reaches(t, QuoteTerms[o].queuePrice)
  <2>1. QuoteTerms[o].queue > 0 BY <1>1, <1>3, Terms
  <2>2. QuoteTerms[o].limit <= QuoteTerms[o].queuePrice BY <2>1, Terms
  <2>3. ~Reaches(t, QuoteTerms[o].limit) BY <1>3, <2>2, Terms DEF Reaches
  <2> QED BY <1>1, <1>2, <1>3, <2>3 DEF Spent, Blocked
<1>4. CASE s.queue[o] = 0 /\ ~Reaches(t, QuoteTerms[o].limit)
  BY <1>1, <1>2, <1>4 DEF Spent, Blocked
<1> QED BY <1>1, <1>2, <1>3, <1>4 DEF Spent, Blocked

(* Totals of what a quote took, when what it took of one trade changes.        *)
LEMMA OneTotal ==
  ASSUME NEW a \in [Trades -> Taking], NEW b \in [Trades -> Taking], NEW t \in Trades,
         \A u \in Trades \ {t} : b[u] = a[u]
  PROVE  /\ Total(b, "queue") = Total(a, "queue") + b[t].queue - a[t].queue
         /\ Total(b, "fill") = Total(a, "fill") + b[t].fill - a[t].fill
<1> DEFINE aq == [u \in Trades |-> a[u]["queue"]]
           bq == [u \in Trades |-> b[u]["queue"]]
           af == [u \in Trades |-> a[u]["fill"]]
           bf == [u \in Trades |-> b[u]["fill"]]
<1>1. \A u \in Trades : /\ aq[u] = a[u].queue /\ bq[u] = b[u].queue
                        /\ af[u] = a[u].fill /\ bf[u] = b[u].fill
  OBVIOUS
<1>2. \A u \in Trades : aq[u] \in Int /\ bq[u] \in Int /\ af[u] \in Int /\ bf[u] \in Int
  BY <1>1 DEF Taking
<1>3. \A u \in Trades \ {t} : bq[u] = aq[u] /\ bf[u] = af[u] OBVIOUS
<1> HIDE DEF aq, bq, af, bf
<1>4. IsFiniteSet(Trades) BY TermsAssumption
<1>5. SumFunctionOnSet(bq, Trades) = SumFunctionOnSet(aq, Trades) + bq[t] - aq[t]
  BY <1>2, <1>3, <1>4, SumChange
<1>6. SumFunctionOnSet(bf, Trades) = SumFunctionOnSet(af, Trades) + bf[t] - af[t]
  BY <1>2, <1>3, <1>4, SumChange
<1> QED BY <1>1, <1>5, <1>6 DEF Total, aq, bq, af, bf

(* Totals are natural numbers.                                                 *)
LEMMA TotalType ==
  ASSUME NEW a \in [Trades -> Taking]
  PROVE  Total(a, "queue") \in Nat /\ Total(a, "fill") \in Nat
<1> DEFINE aq == [u \in Trades |-> a[u]["queue"]]
           af == [u \in Trades |-> a[u]["fill"]]
           z == [u \in Trades |-> 0]
<1>1. \A u \in Trades : aq[u] = a[u].queue /\ af[u] = a[u].fill
  OBVIOUS
<1>2. \A u \in Trades : aq[u] \in Nat /\ af[u] \in Nat /\ z[u] \in Int /\ z[u] = 0
  BY <1>1 DEF Taking
<1> HIDE DEF aq, af, z
<1>3. IsFiniteSet(Trades) BY TermsAssumption
<1>4. SumFunctionOnSet(aq, Trades) \in Int /\ SumFunctionOnSet(af, Trades) \in Int
  BY <1>2, <1>3, SumInt
<1>5. SumFunctionOnSet(z, Trades) = 0
  BY <1>2, <1>3, SumZero
<1>6. SumFunctionOnSet(z, Trades) <= SumFunctionOnSet(aq, Trades)
      /\ SumFunctionOnSet(z, Trades) <= SumFunctionOnSet(af, Trades)
  BY <1>2, <1>3, SumMonotone
<1> QED BY <1>4, <1>5, <1>6 DEF Total, aq, af

(* A quote that took nothing has totals of zero.                               *)
LEMMA NothingTotal ==
  ASSUME NEW a \in [Trades -> Taking], \A t \in Trades : a[t] = Nothing
  PROVE  Total(a, "queue") = 0 /\ Total(a, "fill") = 0
<1> DEFINE aq == [u \in Trades |-> a[u]["queue"]]
           af == [u \in Trades |-> a[u]["fill"]]
<1>1. \A u \in Trades : aq[u] = a[u].queue /\ af[u] = a[u].fill
  OBVIOUS
<1>2. \A u \in Trades : aq[u] = 0 /\ af[u] = 0 BY <1>1 DEF Nothing
<1> HIDE DEF aq, af
<1>3. SumFunctionOnSet(aq, Trades) = 0 /\ SumFunctionOnSet(af, Trades) = 0
  BY <1>2, SumZero, TermsAssumption
<1> QED BY <1>3 DEF Total, aq, af
-----------------------------------------------------------------------------
(* An offer more.                                                              *)
LEMMA OfferConserves ==
  ASSUME NEW s \in StateType, NEW s1 \in StateType, NEW base, NEW t \in Trades, NEW o \in Quotes,
         NEW q \in Nat, NEW f \in Nat, Takes(s, s1, t, o, q, f), s.got[o][t] = Nothing,
         Conserves(s, base)
  PROVE  Conserves(s1, base)
<1>1. ASSUME NEW S \in VolumeScopes, NEW u \in Trades
      PROVE  s1.left[S][u] + SumFunctionOnSet(Given(s1, u), S) = base.left[S][u]
  <2>1. S \in SUBSET Quotes /\ IsFiniteSet(S) BY ScopeParts
  <2>2. \A p \in S : Given(s, u)[p] \in Int /\ Given(s1, u)[p] \in Int
    BY <2>1 DEF Given, StateType, Taking
  <2>3. SumFunctionOnSet(Given(s, u), S) \in Int BY <2>1, <2>2, SumInt
  <2>4. s1.left[S][u] \in Int /\ s.left[S][u] \in Int BY DEF StateType
  <2>5. s.left[S][u] + SumFunctionOnSet(Given(s, u), S) = base.left[S][u] BY DEF Conserves
  <2>6. CASE S = Scope(o) /\ u = t
    <3>1. o \in S BY <2>6, ScopeParts
    <3>2. \A p \in S \ {o} : Given(s1, u)[p] = Given(s, u)[p]
      BY <2>1, <2>6 DEF Given, Takes
    <3>3. Given(s, u)[o] = 0 /\ Given(s1, u)[o] = q + f
      BY <2>6 DEF Given, Takes, Nothing
    <3>4. SumFunctionOnSet(Given(s1, u), S) = SumFunctionOnSet(Given(s, u), S) + Given(s1, u)[o] - Given(s, u)[o]
      BY <2>1, <2>2, <3>1, <3>2, SumChange
    <3>5. s1.left[S][u] = s.left[S][u] - (q + f) BY <2>6 DEF Takes
    <3> QED BY <2>3, <2>4, <2>5, <3>3, <3>4, <3>5
  <2>7. CASE ~(S = Scope(o) /\ u = t)
    <3>1. \A p \in S : ~(p = o /\ u = t) BY <2>1, <2>7, ScopeParts
    <3>2. \A p \in S : Given(s1, u)[p] = Given(s, u)[p]
      BY <2>1, <3>1 DEF Given, Takes
    <3>3. SumFunctionOnSet(Given(s1, u), S) = SumFunctionOnSet(Given(s, u), S)
      BY <2>1, <2>2, <3>2, SumSame
    <3>4. s1.left[S][u] = s.left[S][u] BY <2>4, <2>7 DEF Takes
    <3> QED BY <2>5, <3>3, <3>4
  <2> QED BY <2>6, <2>7
<1>2. ASSUME NEW p \in Quotes
      PROVE  /\ s1.queue[p] + Total(s1.got[p], "queue") = base.queue[p]
             /\ s1.unfilled[p] + Total(s1.got[p], "fill") = base.unfilled[p]
  <2>1. s.got[p] \in [Trades -> Taking] /\ s1.got[p] \in [Trades -> Taking] BY DEF StateType
  <2>2. s.queue[p] + Total(s.got[p], "queue") = base.queue[p] /\ s.unfilled[p] + Total(s.got[p], "fill") = base.unfilled[p]
    BY DEF Conserves
  <2>3. /\ Total(s.got[p], "queue") \in Nat /\ Total(s.got[p], "fill") \in Nat
        /\ s.queue[p] \in Nat /\ s.unfilled[p] \in Nat
    BY <2>1, TotalType DEF StateType
  <2>4. \A u \in Trades \ {t} : s1.got[p][u] = s.got[p][u] BY DEF Takes
  <2>5. /\ Total(s1.got[p], "queue") = Total(s.got[p], "queue") + s1.got[p][t].queue - s.got[p][t].queue
        /\ Total(s1.got[p], "fill") = Total(s.got[p], "fill") + s1.got[p][t].fill - s.got[p][t].fill
    BY <2>1, <2>4, OneTotal
  <2>6. CASE p = o
    <3>1. s1.got[p][t].queue = q /\ s1.got[p][t].fill = f BY <2>6 DEF Takes
    <3>2. s.got[p][t].queue = 0 /\ s.got[p][t].fill = 0 BY <2>6 DEF Nothing
    <3>3. s1.queue[p] = s.queue[p] - q /\ s1.unfilled[p] = s.unfilled[p] - f BY <2>6 DEF Takes
    <3> QED BY <2>2, <2>3, <2>5, <3>1, <3>2, <3>3
  <2>7. CASE p # o
    <3>1. s1.got[p][t] = s.got[p][t] /\ s.got[p][t] \in Taking BY <2>1, <2>7 DEF Takes
    <3>2. s1.queue[p] = s.queue[p] /\ s1.unfilled[p] = s.unfilled[p] BY <2>3, <2>7 DEF Takes
    <3> QED BY <2>2, <2>3, <2>5, <3>1, <3>2 DEF Taking
  <2> QED BY <2>6, <2>7
<1> QED BY <1>1, <1>2 DEF Conserves

(* An offer that was not made yet keeps an allocation sound.                   *)
LEMMA OfferSound ==
  ASSUME RowTypes, NEW s, NEW base, NEW P \in SUBSET (Trades \X Quotes), NEW t \in Trades, NEW o \in Quotes,
         <<t, o>> \notin P, \A r \in P : Before(r, <<t, o>>), Sound(s, base, P)
  PROVE  Sound(Offer(s, t, o), base, P \cup {<<t, o>>})
<1> DEFINE s1 == Offer(s, t, o)
<1>0. s \in StateType /\ \A p \in Quotes : s.queue[p] <= QuoteTerms[p].queue BY DEF Sound
<1>1. s.got[o][t] = Nothing BY DEF Sound, Exhausts
<1>2. s1 \in StateType BY <1>0, OfferGives
<1>3. PICK q \in Nat, f \in Nat : Offered(s, s1, t, o, q, f) BY <1>0, <1>1, OfferGives
<1> HIDE DEF s1
<1>4. Takes(s, s1, t, o, q, f) BY <1>3 DEF Offered
<1>5. Conserves(s1, base) BY <1>0, <1>1, <1>2, <1>4, OfferConserves DEF Sound
<1>6. \A p \in Quotes : s1.queue[p] <= QuoteTerms[p].queue
  <2>1. \A p \in Quotes : s.queue[p] \in Nat /\ s1.queue[p] \in Nat /\ QuoteTerms[p].queue \in Nat
    BY <1>0, <1>2, Terms DEF StateType
  <2> QED BY <1>0, <1>4, <2>1 DEF Takes
<1>7. ASSUME NEW p \in Quotes, NEW u \in Trades, Spent(base, u, p) \/ <<u, p>> \in P \cup {<<t, o>>}
      PROVE  Spent(s1, u, p)
  <2>1. CASE Spent(base, u, p) \/ <<u, p>> \in P
    <3>1. Spent(s, u, p) BY <2>1 DEF Sound, Exhausts
    <3> QED BY <1>0, <1>2, <1>4, <3>1, SpentStays
  <2>2. CASE <<u, p>> = <<t, o>> BY <1>3, <2>2 DEF Offered
  <2> QED BY <1>7, <2>1, <2>2
<1>8. ASSUME NEW p \in Quotes, NEW u \in Trades, Spent(base, u, p) \/ <<u, p>> \notin P \cup {<<t, o>>}
      PROVE  s1.got[p][u] = Nothing
  <2>1. CASE p = o /\ u = t
    <3>1. Spent(s, t, o) BY <1>8, <2>1 DEF Sound, Exhausts
    <3>2. q = 0 /\ f = 0 BY <1>3, <3>1 DEF Offered
    <3> QED BY <1>4, <2>1, <3>2 DEF Takes, Nothing
  <2>2. CASE ~(p = o /\ u = t)
    <3>1. s1.got[p][u] = s.got[p][u] BY <1>4, <2>2 DEF Takes
    <3>2. s.got[p][u] = Nothing BY <1>8 DEF Sound, Exhausts
    <3> QED BY <3>1, <3>2
  <2> QED BY <2>1, <2>2
<1>9. Exhausts(s1, base, P \cup {<<t, o>>}) BY <1>7, <1>8 DEF Exhausts
<1>10. ASSUME NEW u \in Trades, NEW a \in Quotes, NEW b \in Quotes,
              <<u, a>> \in P \cup {<<t, o>>}, <<u, b>> \in P \cup {<<t, o>>},
              Scope(a) = Scope(b), Priority(a, b), s1.got[b][u] # Nothing
       PROVE  Blocked(s1, u, a)
  <2>1. CASE u = t /\ b = o
    <3>1. ~Priority(o, o) BY Terms DEF Priority, RowTypes, RowType
    <3>2. <<u, a>> \in P BY <1>10, <2>1, <3>1
    <3>3. Spent(s, u, a) BY <3>2 DEF Sound, Exhausts
    <3>4. s.left[Scope(o)][t] > 0 /\ ~(s.left[Scope(o)][t] <= 0)
      <4>1. ~Spent(s, t, o)
        <5> SUFFICES ASSUME Spent(s, t, o) PROVE FALSE OBVIOUS
        <5>1. q = 0 /\ f = 0 BY <1>3 DEF Offered
        <5> QED BY <1>4, <1>10, <2>1, <5>1 DEF Takes, Nothing
      <4>2. s.left[Scope(o)][t] \in Nat BY <1>0, ScopeParts DEF StateType
      <4> QED BY <4>1, <4>2 DEF Spent
    <3>5. Blocked(s, u, a) BY <1>10, <2>1, <3>3, <3>4 DEF Spent
    <3> QED BY <1>0, <1>2, <1>4, <3>5, SpentStays
  <2>2. CASE ~(u = t /\ b = o)
    <3>1. <<u, b>> \in P /\ s1.got[b][u] = s.got[b][u] BY <1>4, <1>10, <2>2 DEF Takes
    <3>2. CASE <<u, a>> \in P
      <4>1. Blocked(s, u, a) BY <1>10, <3>1, <3>2 DEF Sound, Ordered
      <4> QED BY <1>0, <1>2, <1>4, <4>1, SpentStays
    <3>3. CASE u = t /\ a = o
      <4>1. Before(<<t, b>>, <<t, o>>) BY <3>1, <3>3
      <4> QED BY <1>10, <3>3, <4>1, BeforeOrders
    <3> QED BY <1>10, <3>2, <3>3
  <2> QED BY <2>1, <2>2
<1>11. Ordered(s1, P \cup {<<t, o>>}) BY <1>10 DEF Ordered
<1> QED BY <1>2, <1>5, <1>6, <1>9, <1>11 DEF Sound, s1

(* Before the first offer.                                                     *)
LEMMA StartSound ==
  ASSUME NEW s \in StateType, \A o \in Quotes : s.queue[o] <= QuoteTerms[o].queue,
         \A o \in Quotes, t \in Trades : s.got[o][t] = Nothing
  PROVE  Sound(s, s, {})
<1>1. ASSUME NEW S \in VolumeScopes, NEW t \in Trades
      PROVE  s.left[S][t] + SumFunctionOnSet(Given(s, t), S) = s.left[S][t]
  <2>1. S \in SUBSET Quotes /\ IsFiniteSet(S) BY ScopeParts
  <2>2. \A p \in S : Given(s, t)[p] = 0 BY <2>1 DEF Given, Nothing
  <2>3. SumFunctionOnSet(Given(s, t), S) = 0 BY <2>1, <2>2, SumZero
  <2>4. s.left[S][t] \in Nat BY DEF StateType
  <2> QED BY <2>3, <2>4
<1>2. \A o \in Quotes : s.queue[o] + Total(s.got[o], "queue") = s.queue[o] /\ s.unfilled[o] + Total(s.got[o], "fill") = s.unfilled[o]
  <2> SUFFICES ASSUME NEW o \in Quotes
               PROVE  s.queue[o] + Total(s.got[o], "queue") = s.queue[o] /\ s.unfilled[o] + Total(s.got[o], "fill") = s.unfilled[o]
    OBVIOUS
  <2>1. s.got[o] \in [Trades -> Taking] /\ s.queue[o] \in Nat /\ s.unfilled[o] \in Nat BY DEF StateType
  <2>2. Total(s.got[o], "queue") = 0 /\ Total(s.got[o], "fill") = 0 BY <2>1, NothingTotal
  <2> QED BY <2>1, <2>2
<1> QED BY <1>1, <1>2 DEF Sound, Conserves, Exhausts, Ordered
-----------------------------------------------------------------------------
(* The recursion over the offers, as MapThenFoldSet chooses it.                *)
AllocationSteps(offers) ==
  CHOOSE iter : iter = [P \in SUBSET offers |->
     IF P = {} THEN Start ELSE LET q == LastOffer(P) IN Offer(iter[P \ {q}], q[1], q[2])]

(* The offer it makes last, and what that offer does.                          *)
LastOf(offers) == [P \in SUBSET offers |-> LastOffer(P)]
Offering(offers) == [P \in SUBSET offers |-> [s \in StateType |-> Offer(s, LastOffer(P)[1], LastOffer(P)[2])]]

(* The allocation is that recursion, taken at all the offers.                  *)
LEMMA AllocatedUnfolds ==
  ASSUME NEW tape
  PROVE  Allocated(tape) = AllocationSteps(tape \X Resting)[tape \X Resting]
BY DEF Allocated, MapThenFoldSet, AllocationSteps

(* It is sound once every offer was made, by induction over the offers.        *)
LEMMA AllocatedSound ==
  ASSUME RowTypes, Start \in StateType, \A o \in Quotes : row[o].queue <= QuoteTerms[o].queue,
         NEW tape \in SUBSET Trades
  PROVE  Sound(Allocated(tape), Start, tape \X Resting)
<1> DEFINE offers == tape \X Resting
           f == AllocationSteps(offers)
           Good == {P \in SUBSET offers : Sound(f[P], Start, P)}
<1>1. offers \in SUBSET (Trades \X Quotes) /\ IsFiniteSet(offers)
  <2>1. Resting \in SUBSET Quotes BY DEF Resting
  <2>2. IsFiniteSet(tape) /\ IsFiniteSet(Resting) BY <2>1, TermsAssumption, FS_Subset
  <2> QED BY <2>1, <2>2, FS_Product
<1> HIDE DEF offers
<1>2. \A P \in SUBSET offers : P # {} =>
         LastOffer(P) \in P /\ \A r \in P \ {LastOffer(P)} : Before(r, LastOffer(P))
  BY <1>1, LastOfferExists
<1>3. \A q \in offers : q[1] \in Trades /\ q[2] \in Quotes /\ q = <<q[1], q[2]>> BY <1>1
<1>4. \A P \in SUBSET offers : P # {} => LastOf(offers)[P] \in P BY <1>2 DEF LastOf
<1>5. \A P \in SUBSET offers : \A s \in StateType : P # {} => Offering(offers)[P][s] \in StateType
  <2> SUFFICES ASSUME NEW P \in SUBSET offers, NEW s \in StateType, P # {}
               PROVE  Offer(s, LastOffer(P)[1], LastOffer(P)[2]) \in StateType
    BY DEF Offering
  <2>1. LastOffer(P)[1] \in Trades /\ LastOffer(P)[2] \in Quotes BY <1>2, <1>3
  <2> QED BY <2>1, OfferGives
<1>6. PICK g \in [SUBSET offers -> StateType] : Solves(g, SUBSET offers, Start, LastOf(offers), Offering(offers))
  BY ONLY <1>1, <1>4, <1>5, Start \in StateType, FoldExists, Zenon
<1>7. g = [P \in SUBSET offers |->
     IF P = {} THEN Start ELSE LET q == LastOffer(P) IN Offer(g[P \ {q}], q[1], q[2])]
  <2>1. ASSUME NEW P \in SUBSET offers, P # {}
        PROVE  g[P] = Offer(g[P \ {LastOffer(P)}], LastOffer(P)[1], LastOffer(P)[2])
    <3>1. P \ {LastOffer(P)} \in SUBSET offers OBVIOUS
    <3>2. g[P \ {LastOffer(P)}] \in StateType BY <3>1
    <3>3. g[P] = Offering(offers)[P][g[P \ {LastOf(offers)[P]}]] BY <1>6, <2>1 DEF Solves
    <3> QED BY <3>2, <3>3 DEF Offering, LastOf
  <2>2. {} \in SUBSET offers /\ g[{}] = Start BY <1>6 DEF Solves
  <2> QED BY <2>1, <2>2
<1>8. f = [P \in SUBSET offers |->
     IF P = {} THEN Start ELSE LET q == LastOffer(P) IN Offer(f[P \ {q}], q[1], q[2])]
  BY <1>7 DEF AllocationSteps
<1>9. Sound(Start, Start, {})
  <2>1. \A o \in Quotes : Start.queue[o] <= QuoteTerms[o].queue BY DEF Start
  <2>2. \A o \in Quotes, t \in Trades : Start.got[o][t] = Nothing BY DEF Start
  <2> QED BY <2>1, <2>2, StartSound
<1>10. ASSUME NEW P \in SUBSET offers, \A q \in P : P \ {q} \in Good PROVE P \in Good
  <2>1. CASE P = {}
    <3>1. f[{}] = Start BY <1>8
    <3> QED BY <1>9, <2>1, <3>1
  <2>2. CASE P # {}
    <3>1. PICK q \in P : q = LastOffer(P) BY <1>2, <2>2
    <3>2. q[1] \in Trades /\ q[2] \in Quotes /\ q = <<q[1], q[2]>> BY <1>3, <3>1
    <3>3. f[P] = Offer(f[P \ {q}], q[1], q[2]) BY <1>8, <2>2, <3>1
    <3>4. Sound(f[P \ {q}], Start, P \ {q}) BY <1>10, <3>1
    <3>5. <<q[1], q[2]>> \notin P \ {q} BY <3>2
    <3>6. (P \ {q}) \cup {<<q[1], q[2]>>} = P BY <3>1, <3>2
    <3>7. P \ {q} \in SUBSET (Trades \X Quotes) /\ \A r \in P \ {q} : Before(r, <<q[1], q[2]>>)
      BY <1>1, <1>2, <2>2, <3>1, <3>2
    <3> HIDE DEF f
    <3>8. Sound(Offer(f[P \ {q}], q[1], q[2]), Start, (P \ {q}) \cup {<<q[1], q[2]>>})
      BY <3>2, <3>4, <3>5, <3>7, OfferSound
    <3> QED BY <3>3, <3>6, <3>8
  <2> QED BY <2>1, <2>2
<1>11. \A P \in SUBSET offers : P \in Good
  <2> HIDE DEF Good
  <2> QED BY <1>1, <1>10, SubsetInduction
<1>12. Sound(f[offers], Start, offers) BY <1>11
<1> QED BY <1>12, AllocatedUnfolds DEF offers

(* The totals of what was taken add up. *)
LEMMA TotalsAdd ==
  ASSUME NEW a \in [Trades -> Taking], NEW b \in [Trades -> Taking], NEW c,
         \A t \in Trades : c[t].queue = a[t].queue + b[t].queue /\ c[t].fill = a[t].fill + b[t].fill
  PROVE  /\ Total(c, "queue") = Total(a, "queue") + Total(b, "queue")
         /\ Total(c, "fill") = Total(a, "fill") + Total(b, "fill")
<1> DEFINE aq == [u \in Trades |-> a[u]["queue"]]
           bq == [u \in Trades |-> b[u]["queue"]]
           cq == [u \in Trades |-> c[u]["queue"]]
           af == [u \in Trades |-> a[u]["fill"]]
           bf == [u \in Trades |-> b[u]["fill"]]
           cf == [u \in Trades |-> c[u]["fill"]]
<1>1. \A u \in Trades : /\ aq[u] = a[u].queue /\ bq[u] = b[u].queue /\ cq[u] = c[u].queue
                        /\ af[u] = a[u].fill /\ bf[u] = b[u].fill /\ cf[u] = c[u].fill
  OBVIOUS
<1>2. \A u \in Trades : /\ aq[u] \in Int /\ bq[u] \in Int /\ cq[u] = aq[u] + bq[u]
                        /\ af[u] \in Int /\ bf[u] \in Int /\ cf[u] = af[u] + bf[u]
  BY <1>1 DEF Taking
<1> HIDE DEF aq, bq, cq, af, bf, cf
<1>3. IsFiniteSet(Trades) BY TermsAssumption
<1>4. SumFunctionOnSet(cq, Trades) = SumFunctionOnSet(aq, Trades) + SumFunctionOnSet(bq, Trades)
  BY <1>2, <1>3, SumPlus
<1>5. SumFunctionOnSet(cf, Trades) = SumFunctionOnSet(af, Trades) + SumFunctionOnSet(bf, Trades)
  BY <1>2, <1>3, SumPlus
<1> QED BY <1>4, <1>5 DEF Total, aq, bq, cq, af, bf, cf

-----------------------------------------------------------------------------
(* The inductive invariant.                                                    *)

(* Quote o can take nothing more of trade t: the volume, its life, its size,   *)
(* or the price ends it.                                                       *)
Done(t, o) ==
  \/ Available(Scope(o), t) <= 0
  \/ ~DuringLife(t, o)
  \/ QuoteTerms[o].quantity - row[o].filled <= 0
  \/ row[o].queue > 0 /\ ~Reaches(t, QuoteTerms[o].queuePrice)
  \/ row[o].queue = 0 /\ ~Reaches(t, QuoteTerms[o].limit)

ClockInv ==
  /\ now \in 1..MaxTime
  /\ open \in BOOLEAN
  /\ \A t \in Trades : executed[t] <= now
  /\ published \subseteq {t \in Trades : executed[t] # 0}
  /\ garbled \subseteq published
  /\ \A t \in Trades \ published : executed[t] # 0 => now < executed[t] + Grace

RowInv ==
  /\ \A o \in Quotes : row[o].filled \in 0..QuoteTerms[o].quantity /\ row[o].queue \in 0..QuoteTerms[o].queue
  /\ \A o \in Resting : row[o].placed <= now

JournalInv ==
  /\ \A o \in Quotes, t \in Trades : allocations[o][t] # Nothing => executed[t] # 0 /\ row[o].status # "NONE"
  /\ RowsMatchJournal
  /\ \A S \in VolumeScopes, t \in Trades : TakenBy(S, t) <= TradeTerms[t].quantity
  /\ \A o \in Resting, t \in Trades : allocations[o][t] # Nothing => Done(t, o)

(* The query of a pass reaches back to every quote that rests, and what it got *)
(* is all there is that a grace passed for.                                    *)
PassType ==
  [pc : {"idle", "query", "fetched", "applied"}, from : Nat, through : Nat, tape : SUBSET Trades,
   complete : BOOLEAN]

QueryInv ==
  /\ pass \in PassType /\ pass.through <= now
  /\ pass.pc = "query" => ~pass.complete
  /\ \A t \in pass.tape : executed[t] # 0 /\ executed[t] <= pass.through
  /\ pass.pc # "idle" => \A o \in Resting : pass.from <= row[o].placed \/ pass.through <= row[o].placed
  /\ pass.pc # "idle" /\ pass.complete =>
       \A t \in Trades : executed[t] # 0 /\ executed[t] + Grace <= pass.through /\ pass.from <= executed[t] =>
          t \in pass.tape

AppliedInv ==
  pass.pc = "applied" => \A o \in Resting, t \in pass.tape : Done(t, o)

TapeInv == RowTypes /\ ClockInv /\ RowInv /\ JournalInv /\ QueryInv /\ AppliedInv

-----------------------------------------------------------------------------
(* The journal's sums.                                                         *)
(* What a set of quotes took of a trade is a natural number.                   *)
LEMMA VolumeType ==
  ASSUME RowTypes
  PROVE  \A S \in SUBSET Quotes, t \in Trades :
           /\ IsFiniteSet(S) /\ \A o \in S : Volume(t)[o] \in Nat
           /\ TakenBy(S, t) \in Nat
<1> SUFFICES ASSUME NEW S \in SUBSET Quotes, NEW t \in Trades
             PROVE  /\ IsFiniteSet(S) /\ \A o \in S : Volume(t)[o] \in Nat
                    /\ TakenBy(S, t) \in Nat
  OBVIOUS
<1>1. IsFiniteSet(S) BY FS_Subset, TermsAssumption
<1>2. \A o \in S : Volume(t)[o] \in Nat BY DEF RowTypes, Taking, Volume
<1> DEFINE z == [o \in Quotes |-> 0]
<1>3. \A o \in S : z[o] = 0 OBVIOUS
<1> HIDE DEF z
<1>4. SumFunctionOnSet(z, S) = 0 BY <1>1, <1>3, SumZero
<1>5. SumFunctionOnSet(z, S) <= SumFunctionOnSet(Volume(t), S)
  <2>1. \A o \in S : z[o] \in Int /\ Volume(t)[o] \in Int /\ z[o] <= Volume(t)[o] BY <1>2, <1>3
  <2> QED BY <1>1, <2>1, SumMonotone
<1>6. SumFunctionOnSet(Volume(t), S) \in Int
  <2>1. \A o \in S : Volume(t)[o] \in Int BY <1>2
  <2> QED BY <1>1, <2>1, SumInt
<1> QED BY <1>1, <1>2, <1>4, <1>5, <1>6 DEF TakenBy

(* An allocation starts from what the rows and the journal leave.              *)
LEMMA StartType ==
  ASSUME TapeInv
  PROVE  /\ Start \in StateType
         /\ \A o \in Quotes : Start.queue[o] = row[o].queue
                              /\ Start.unfilled[o] = QuoteTerms[o].quantity - row[o].filled
         /\ \A S \in VolumeScopes, t \in Trades : Start.left[S][t] = Available(S, t)
         /\ \A o \in Quotes, t \in Trades : Done(t, o) <=> Spent(Start, t, o)
<1>1. \A S \in VolumeScopes, t \in Trades : Available(S, t) \in Nat
  <2> SUFFICES ASSUME NEW S \in VolumeScopes, NEW t \in Trades PROVE Available(S, t) \in Nat OBVIOUS
  <2>1. S \in SUBSET Quotes BY ScopeParts
  <2>2. TakenBy(S, t) \in Nat /\ TakenBy(S, t) <= TradeTerms[t].quantity
    BY <2>1, VolumeType DEF TapeInv, JournalInv
  <2> QED BY <2>2, Terms DEF Available
<1>2. \A o \in Quotes : row[o].queue \in Nat /\ QuoteTerms[o].quantity - row[o].filled \in Nat
  BY Terms DEF TapeInv, RowInv
<1>3. Nothing \in Taking BY DEF Nothing, Taking
<1>4. Start \in StateType BY <1>1, <1>2, <1>3 DEF Start, StateType
<1>5. \A o \in Quotes : Start.queue[o] = row[o].queue
                        /\ Start.unfilled[o] = QuoteTerms[o].quantity - row[o].filled
  BY DEF Start
<1>6. \A S \in VolumeScopes, t \in Trades : Start.left[S][t] = Available(S, t) BY DEF Start
<1>7. \A o \in Quotes, t \in Trades : Done(t, o) <=> Spent(Start, t, o)
  BY <1>5, <1>6, ScopeParts DEF Done, Spent, Blocked
<1> QED BY <1>4, <1>5, <1>6, <1>7

(* What a batch credits: what the allocation gives, the journal refusing none  *)
(* of it.                                                                      *)
LEMMA Credits ==
  ASSUME TapeInv, NEW tape \in SUBSET Trades
  PROVE  /\ Sound(Allocated(tape), Start, tape \X Resting)
         /\ \A o \in Quotes : Novel(tape)[o] = Allocated(tape).got[o]
         /\ \A o \in Quotes, t \in Trades :
              Novel(tape)[o][t] # Nothing => /\ o \in Resting /\ t \in tape /\ ~Done(t, o)
                                             /\ allocations[o][t] = Nothing
<1>1. Sound(Allocated(tape), Start, tape \X Resting)
  <2>1. \A o \in Quotes : row[o].queue <= QuoteTerms[o].queue BY DEF TapeInv, RowInv
  <2>2. Start \in StateType /\ RowTypes BY StartType DEF TapeInv
  <2> QED BY <2>1, <2>2, AllocatedSound
<1> DEFINE got == Allocated(tape).got
<1>2. got \in [Quotes -> [Trades -> Taking]] BY <1>1 DEF Sound, StateType
<1>3. \A o \in Quotes, t \in Trades : got[o][t] # Nothing => o \in Resting /\ t \in tape /\ ~Done(t, o)
  BY <1>1, StartType DEF Sound, Exhausts
<1>4. \A o \in Quotes, t \in Trades : got[o][t] # Nothing => allocations[o][t] = Nothing
  BY <1>3 DEF TapeInv, JournalInv
<1>5. Novel(tape) = [o \in Quotes |-> [t \in Trades |-> IF allocations[o][t] = Nothing THEN got[o][t] ELSE Nothing]]
  BY DEF Novel, Allocation
<1> HIDE DEF got
<1>6. \A o \in Quotes : Novel(tape)[o] = got[o]
  <2> SUFFICES ASSUME NEW o \in Quotes PROVE Novel(tape)[o] = got[o] OBVIOUS
  <2>1. got[o] = [t \in Trades |-> got[o][t]] BY <1>2
  <2> QED BY <1>4, <1>5, <2>1
<1> QED BY <1>1, <1>3, <1>4, <1>6 DEF got
-----------------------------------------------------------------------------
(* Steps that credit nothing.                                                  *)

(* What pulling and ending a quote do to its row, and what the steps of the    *)
(* exchange and of a query do not: nothing is credited, a life gets no longer. *)
Keeps(o) ==
  /\ row'[o].filled = row[o].filled /\ row'[o].queue \in {row[o].queue, 0}
  /\ row'[o].placed = row[o].placed /\ row'[o].expires <= row[o].expires
  /\ row'[o].status \in {"RESTING", "FILLED"} =>
        row'[o].status = row[o].status /\ row'[o].queue = row[o].queue
  /\ row'[o].status = "NONE" <=> row[o].status = "NONE"

(* The sums do not change while the journal does not.                          *)
LEMMA SameVolumes ==
  ASSUME allocations' = allocations
  PROVE  /\ \A S, t : TakenBy(S, t)' = TakenBy(S, t)
         /\ \A S, t : Available(S, t)' = Available(S, t)
         /\ \A o : Total(allocations[o], "queue")' = Total(allocations[o], "queue")
         /\ \A o : Total(allocations[o], "fill")' = Total(allocations[o], "fill")
BY DEF TakenBy, Volume, Available, Total

(* A quote that could take nothing of a trade still cannot.                    *)
LEMMA DoneKept ==
  ASSUME RowTypes, RowTypes', executed' = executed, allocations' = allocations,
         NEW o \in Quotes, NEW t \in Trades, Keeps(o), row'[o].queue = row[o].queue, Done(t, o)
  PROVE  Done(t, o)'
<1>1. Available(Scope(o), t)' = Available(Scope(o), t) BY SameVolumes
<1>2. executed[t] \in Nat /\ row[o].expires \in Nat /\ row'[o].expires \in Nat BY DEF RowTypes, RowType
<1>3. ~DuringLife(t, o) => ~DuringLife(t, o)' BY <1>2 DEF DuringLife, Keeps
<1> QED BY <1>1, <1>3 DEF Done, Keeps, Reaches

(* Rows and journal keep their invariants when nothing is credited.            *)
LEMMA BookKept ==
  ASSUME TapeInv, row' \in [Quotes -> RowType], executed' = executed, allocations' = allocations,
         now' \in Nat, now <= now', \A o \in Quotes : Keeps(o)
  PROVE  /\ RowTypes' /\ RowInv' /\ JournalInv'
         /\ Resting' \in SUBSET Resting
         /\ \A o \in Resting', t \in Trades : Done(t, o) => Done(t, o)'
<1>1. RowTypes' BY DEF TapeInv, RowTypes
<1>2. RowTypes BY DEF TapeInv
<1>4. Resting' \in SUBSET Resting BY DEF Resting, Keeps
<1>3. ASSUME NEW o \in Resting', NEW t \in Trades, Done(t, o) PROVE Done(t, o)'
  <2>1. o \in Quotes /\ row'[o].status = "RESTING" BY <1>3 DEF Resting
  <2>2. Keeps(o) /\ row'[o].queue = row[o].queue BY <2>1 DEF Keeps
  <2> QED BY <1>1, <1>2, <1>3, <2>1, <2>2, DoneKept
<1>5. RowInv'
  <2>1. \A o \in Quotes : row'[o].filled \in 0..QuoteTerms[o].quantity /\ row'[o].queue \in 0..QuoteTerms[o].queue
    BY Terms DEF TapeInv, RowInv, Keeps
  <2>2. ASSUME NEW o \in Resting' PROVE row'[o].placed <= now'
    <3>1. o \in Quotes /\ o \in Resting BY <1>4, <2>2 DEF Resting
    <3>2. row[o].placed <= now /\ row'[o].placed = row[o].placed BY <3>1 DEF TapeInv, RowInv, Keeps
    <3>3. row[o].placed \in Nat /\ now \in Nat BY <1>2, <3>1 DEF RowTypes, RowType, TapeInv, ClockInv
    <3> QED BY <3>2, <3>3
  <2> QED BY <2>1, <2>2 DEF RowInv
<1>6. JournalInv'
  <2>1. \A o \in Quotes, t \in Trades : allocations'[o][t] # Nothing => executed'[t] # 0 /\ row'[o].status # "NONE"
    BY DEF TapeInv, JournalInv, Keeps
  <2>2. RowsMatchJournal'
    <3>1. RowsMatchJournal BY DEF TapeInv, JournalInv
    <3> QED BY <3>1, SameVolumes DEF RowsMatchJournal, Keeps
  <2>3. \A S \in VolumeScopes, t \in Trades : TakenBy(S, t)' <= TradeTerms[t].quantity
    BY SameVolumes DEF TapeInv, JournalInv
  <2>4. \A o \in Resting', t \in Trades : allocations'[o][t] # Nothing => Done(t, o)'
    <3>1. Resting \in SUBSET Quotes BY DEF Resting
    <3> QED BY <1>3, <1>4, <3>1 DEF TapeInv, JournalInv
  <2> QED BY <2>1, <2>2, <2>3, <2>4 DEF JournalInv
<1> QED BY <1>1, <1>3, <1>4, <1>5, <1>6

(* Nothing happens to the rows. *)
LEMMA NoRowKeeps ==
  ASSUME RowTypes, row' = row
  PROVE  row' \in [Quotes -> RowType] /\ \A o \in Quotes : Keeps(o)
<1>1. \A o \in Quotes : row[o].expires \in Nat BY DEF RowTypes, RowType
<1> QED BY <1>1 DEF RowTypes, Keeps

(* The pass and its quotes while the pass stands still. *)
LEMMA PassKept ==
  ASSUME TapeInv, row' \in [Quotes -> RowType], executed' = executed, allocations' = allocations, pass' = pass,
         now' \in Nat, now <= now', \A o \in Quotes : Keeps(o)
  PROVE  QueryInv' /\ AppliedInv'
<1>1. Resting' \in SUBSET Resting /\ \A o \in Resting', t \in Trades : Done(t, o) => Done(t, o)' BY BookKept
<1>2. Resting \in SUBSET Quotes BY DEF Resting
<1>3. AppliedInv' 
  <2>1. ASSUME pass.pc = "applied", NEW o \in Resting', NEW t \in pass.tape PROVE Done(t, o)'
    <3>1. o \in Quotes /\ t \in Trades BY <1>1, <1>2, <2>1 DEF TapeInv, QueryInv, PassType
    <3>2. Done(t, o) BY <1>1, <2>1 DEF TapeInv, AppliedInv
    <3> QED BY <1>1, <2>1, <3>1, <3>2
  <2> QED BY <2>1 DEF AppliedInv
<1>4. QueryInv'
  <2>1. now \in Nat /\ pass.through \in Nat BY DEF TapeInv, ClockInv, QueryInv, PassType
  <2>2. pass.through <= now' BY <2>1 DEF TapeInv, QueryInv, PassType
  <2>3. ASSUME pass.pc # "idle", NEW o \in Resting' PROVE pass.from <= row'[o].placed \/ pass.through <= row'[o].placed
    <3>1. o \in Resting /\ o \in Quotes /\ row'[o].placed = row[o].placed BY <1>1, <1>2, <2>3 DEF Keeps
    <3> QED BY <2>3, <3>1 DEF TapeInv, QueryInv, PassType
  <2> QED BY <2>2, <2>3 DEF TapeInv, QueryInv, PassType
<1> QED BY <1>3, <1>4

-----------------------------------------------------------------------------
(* The clock and the exchange.                                                 *)
(* It holds of an empty market.                                                *)
LEMMA TapeInitInv == TapeInit => TapeInv
<1> SUFFICES ASSUME TapeInit PROVE TapeInv OBVIOUS
<1> USE DEF TapeInit
<1>1. NoRow \in RowType BY DEF NoRow, RowType, RowStatus
<1>2. RowTypes BY <1>1 DEF RowTypes, Nothing, Taking
<1>3. Resting = {} BY DEF Resting, NoRow
<1>4. ClockInv /\ RowInv BY <1>3, TimeAssumption, Terms DEF ClockInv, RowInv, NoRow
<1>5. JournalInv
  <2>1. \A S \in VolumeScopes, t \in Trades : TakenBy(S, t) <= TradeTerms[t].quantity
    <3> SUFFICES ASSUME NEW S \in VolumeScopes, NEW t \in Trades PROVE TakenBy(S, t) <= TradeTerms[t].quantity OBVIOUS
    <3>1. S \in SUBSET Quotes /\ IsFiniteSet(S) BY ScopeParts
    <3>2. \A o \in S : Volume(t)[o] = 0 BY <3>1 DEF Volume, Nothing
    <3>3. TakenBy(S, t) = 0 BY <3>1, <3>2, SumZero DEF TakenBy
    <3> QED BY <3>3, Terms
  <2> QED BY <1>3, <2>1 DEF JournalInv, RowsMatchJournal, NoRow
<1>6. QueryInv /\ AppliedInv BY <1>3 DEF QueryInv, PassType, AppliedInv, NoPass
<1> QED BY <1>2, <1>4, <1>5, <1>6 DEF TapeInv

(* The clock runs, the market closes, a trade appears on the public tape.      *)
LEMMA ExchangeStep == ASSUME TapeInv, Tick \/ Close \/ \E t \in Trades : Publish(t) PROVE TapeInv'
<1>1. /\ executed' = executed /\ row' = row /\ allocations' = allocations /\ pass' = pass
      /\ now \in Nat /\ now' \in Nat /\ now <= now'
  BY DEF Tick, Close, Publish, TapeInv, ClockInv
<1>2. RowTypes BY DEF TapeInv
<1>3. row' \in [Quotes -> RowType] /\ \A o \in Quotes : Keeps(o) BY <1>1, <1>2, NoRowKeeps
<1>4. RowTypes' /\ RowInv' /\ JournalInv' BY <1>1, <1>3, BookKept
<1>5. QueryInv' /\ AppliedInv' BY <1>1, <1>3, PassKept
<1>6. ClockInv'
  <2>1. CASE Tick
    <3>1. now' \in 1..MaxTime BY <2>1, TimeAssumption DEF Tick, TapeInv, ClockInv
    <3>2. \A t \in Trades : executed[t] \in Nat /\ executed[t] <= now BY <1>2 DEF RowTypes, TapeInv, ClockInv
    <3>3. \A t \in Trades : executed[t] <= now' BY <1>1, <3>2
    <3>4. \A t \in Trades \ published : executed[t] # 0 => now' < executed[t] + Grace BY <2>1 DEF Tick
    <3> QED BY <2>1, <3>1, <3>3, <3>4 DEF Tick, TapeInv, ClockInv
  <2>2. CASE Close BY <2>2 DEF Close, TapeInv, ClockInv
  <2>3. ASSUME NEW t \in Trades, Publish(t) PROVE ClockInv' BY <2>3 DEF Publish, TapeInv, ClockInv
  <2> QED BY <2>1, <2>2, <2>3
<1> QED BY <1>4, <1>5, <1>6 DEF TapeInv

(* A trade executes: no batch knows it yet.                                    *)
LEMMA ExecuteStep == ASSUME TapeInv, NEW u \in Trades, Execute(u) PROVE TapeInv'
<1>1. /\ now' = now /\ published' = published /\ garbled' = garbled /\ open' = open /\ row' = row
      /\ allocations' = allocations /\ pass' = pass
      /\ executed[u] = 0 /\ executed' = [executed EXCEPT ![u] = now]
  BY DEF Execute
<1>2. RowTypes /\ now \in Nat /\ now >= 1 /\ executed \in [Trades -> Nat] BY DEF TapeInv, ClockInv, RowTypes
<1>3. executed'[u] = now /\ \A t \in Trades \ {u} : executed'[t] = executed[t] BY <1>1, <1>2
<1>4. RowTypes' BY <1>1, <1>2 DEF RowTypes
<1>5. ClockInv'
  <2>1. \A t \in Trades : executed'[t] <= now BY <1>2, <1>3 DEF TapeInv, ClockInv
  <2>2. \A t \in Trades \ published : executed'[t] # 0 => now < executed'[t] + Grace
    BY <1>2, <1>3, TimeAssumption DEF TapeInv, ClockInv
  <2>3. published \subseteq {t \in Trades : executed'[t] # 0} BY <1>2, <1>3 DEF TapeInv, ClockInv
  <2> QED BY <1>1, <2>1, <2>2, <2>3 DEF TapeInv, ClockInv
<1>6. Resting' = Resting /\ Resting \in SUBSET Quotes BY <1>1 DEF Resting
<1>7. RowInv' BY <1>1, <1>6 DEF TapeInv, RowInv
<1>8. \A o \in Quotes, t \in Trades \ {u} : Done(t, o) => Done(t, o)'
  <2> SUFFICES ASSUME NEW o \in Quotes, NEW t \in Trades \ {u}, Done(t, o) PROVE Done(t, o)' OBVIOUS
  <2>1. Available(Scope(o), t)' = Available(Scope(o), t) BY <1>1, SameVolumes
  <2>2. DuringLife(t, o)' <=> DuringLife(t, o) BY <1>1, <1>3 DEF DuringLife
  <2> QED BY <1>1, <2>1, <2>2 DEF Done, Reaches
<1>9. JournalInv'
  <2>1. RowsMatchJournal' BY <1>1, SameVolumes DEF RowsMatchJournal, TapeInv, JournalInv
  <2>2. \A S \in VolumeScopes, t \in Trades : TakenBy(S, t)' <= TradeTerms[t].quantity
    BY <1>1, SameVolumes DEF TapeInv, JournalInv
  <2>3. \A o \in Quotes : allocations[o][u] = Nothing BY <1>1 DEF TapeInv, JournalInv
  <2>4. \A o \in Resting, t \in Trades : allocations[o][t] # Nothing => Done(t, o)'
    BY <1>6, <1>8, <2>3 DEF TapeInv, JournalInv
  <2>5. \A o \in Quotes, t \in Trades : allocations[o][t] # Nothing => executed'[t] # 0 /\ row[o].status # "NONE"
    BY <1>3, <2>3 DEF TapeInv, JournalInv
  <2> QED BY <1>1, <1>6, <2>1, <2>2, <2>4, <2>5 DEF JournalInv
<1>10. u \notin pass.tape BY <1>1 DEF TapeInv, QueryInv, PassType
<1>11. QueryInv'
  <2>1. \A t \in pass.tape : executed'[t] # 0 /\ executed'[t] <= pass.through
    BY <1>3, <1>10 DEF TapeInv, QueryInv, PassType
  <2>2. ASSUME pass.pc # "idle", pass.complete, NEW t \in Trades, executed'[t] # 0,
               executed'[t] + Grace <= pass.through, pass.from <= executed'[t]
        PROVE  t \in pass.tape
    <3>1. t # u
      <4>1. pass.through \in Nat /\ pass.through <= now BY DEF TapeInv, QueryInv, PassType
      <4> QED BY <1>2, <1>3, <2>2, <4>1, TimeAssumption
    <3> QED BY <1>3, <2>2, <3>1 DEF TapeInv, QueryInv, PassType
  <2> QED BY <1>1, <1>6, <2>1, <2>2 DEF TapeInv, QueryInv, PassType
<1>12. AppliedInv'
  <2>1. pass.tape \in SUBSET Trades BY DEF TapeInv, QueryInv, PassType
  <2> QED BY <1>1, <1>6, <1>8, <1>10, <2>1 DEF TapeInv, AppliedInv
<1> QED BY <1>4, <1>5, <1>7, <1>9, <1>11, <1>12 DEF TapeInv
-----------------------------------------------------------------------------
(* The quotes.                                                                 *)
(* A new quote begins its life after all that the pass under way asked for.    *)
LEMMA PlaceStep == ASSUME TapeInv, NEW p \in Quotes, Place(p) PROVE TapeInv'
<1> DEFINE r == [NoRow EXCEPT !.status = "RESTING", !.placed = now, !.expires = now + QuoteTerms[p].ttl,
                              !.queue = QuoteTerms[p].queue]
<1>1. /\ now' = now /\ executed' = executed /\ published' = published /\ garbled' = garbled /\ open' = open
      /\ allocations' = allocations /\ pass' = pass
      /\ row[p].status = "NONE" /\ row' = [row EXCEPT ![p] = r]
  BY DEF Place
<1>2. RowTypes /\ now \in Nat BY DEF TapeInv, ClockInv
<1>3. /\ r \in RowType
      /\ r.status = "RESTING" /\ r.placed = now /\ r.filled = 0 /\ r.queue = QuoteTerms[p].queue
  <2>1. now + QuoteTerms[p].ttl \in Nat /\ QuoteTerms[p].queue \in Nat BY <1>2, Terms
  <2>2. NoRow \in RowType /\ NoRow.filled = 0 BY DEF NoRow, RowType, RowStatus
  <2> DEFINE e == now + QuoteTerms[p].ttl
             q == QuoteTerms[p].queue
             r1 == [NoRow EXCEPT !.status = "RESTING", !.placed = now, !.expires = e, !.queue = q]
  <2>3. e \in Nat /\ q \in Int BY <2>1
  <2>4. r = r1 OBVIOUS
  <2> HIDE DEF e, q, r
  <2>5. r1 \in RowType BY <1>2, <2>2, <2>3 DEF RowType, RowStatus
  <2>6. r1.status = "RESTING" /\ r1.placed = now /\ r1.filled = 0 /\ r1.queue = q
    BY <2>2 DEF RowType
  <2> QED BY <2>4, <2>5, <2>6 DEF q
<1> HIDE DEF r
<1>4. row'[p] = r /\ \A o \in Quotes \ {p} : row'[o] = row[o] BY <1>1, <1>2 DEF RowTypes
<1>5. RowTypes' BY <1>1, <1>2, <1>3 DEF RowTypes
<1>6. Resting' = Resting \cup {p} /\ Resting \in SUBSET Quotes /\ p \notin Resting
  BY <1>1, <1>3, <1>4 DEF Resting
<1>7. ClockInv' BY <1>1 DEF TapeInv, ClockInv
<1>8. RowInv'
  <2>1. \A o \in Quotes : row'[o].filled \in 0..QuoteTerms[o].quantity /\ row'[o].queue \in 0..QuoteTerms[o].queue
    BY <1>3, <1>4, Terms DEF TapeInv, RowInv
  <2>2. \A o \in Resting' : row'[o].placed <= now
    BY <1>2, <1>3, <1>4, <1>6 DEF TapeInv, RowInv
  <2> QED BY <1>1, <2>1, <2>2 DEF RowInv
<1>9. \A o \in Quotes \ {p}, t \in Trades : Done(t, o) => Done(t, o)'
  <2> SUFFICES ASSUME NEW o \in Quotes \ {p}, NEW t \in Trades, Done(t, o) PROVE Done(t, o)' OBVIOUS
  <2>1. row[o].expires \in Nat BY <1>2 DEF RowTypes, RowType
  <2>2. Keeps(o) BY <1>4, <2>1 DEF Keeps
  <2> QED BY <1>1, <1>2, <1>5, <2>2, DoneKept
<1>10. \A t \in Trades : allocations[p][t] = Nothing BY <1>1 DEF TapeInv, JournalInv
<1>11. JournalInv'
  <2>1. \A o \in Quotes, t \in Trades : allocations[o][t] # Nothing => executed[t] # 0 /\ row'[o].status # "NONE"
    BY <1>3, <1>4 DEF TapeInv, JournalInv
  <2>2. allocations[p] \in [Trades -> Taking] BY <1>2 DEF RowTypes
  <2>3. Total(allocations[p], "queue") = 0 /\ Total(allocations[p], "fill") = 0 BY <1>10, <2>2, NothingTotal
  <2>4. RowsMatchJournal'
    <3>1. RowsMatchJournal BY DEF TapeInv, JournalInv
    <3>2. ASSUME NEW o \in Quotes, row'[o].status # "NONE"
          PROVE  /\ row'[o].filled = Total(allocations[o], "fill")
                 /\ row'[o].status \in {"RESTING", "FILLED"} =>
                       row'[o].queue = QuoteTerms[o].queue - Total(allocations[o], "queue")
      <4>1. CASE o = p BY <1>3, <1>4, <2>3, <4>1, Terms
      <4>2. CASE o # p BY <1>4, <3>1, <3>2, <4>2 DEF RowsMatchJournal
      <4> QED BY <4>1, <4>2
    <3> QED BY <1>1, <3>2, SameVolumes DEF RowsMatchJournal
  <2>5. \A S \in VolumeScopes, t \in Trades : TakenBy(S, t)' <= TradeTerms[t].quantity
    BY <1>1, SameVolumes DEF TapeInv, JournalInv
  <2>6. \A o \in Resting', t \in Trades : allocations[o][t] # Nothing => Done(t, o)'
    BY <1>6, <1>9, <1>10 DEF TapeInv, JournalInv
  <2> QED BY <1>1, <2>1, <2>4, <2>5, <2>6 DEF JournalInv
<1>12. pass.through \in Nat /\ pass.through <= now BY DEF TapeInv, QueryInv, PassType
<1>13. QueryInv'
  <2>1. \A o \in Resting' : pass.pc # "idle" => pass.from <= row'[o].placed \/ pass.through <= row'[o].placed
    BY <1>3, <1>4, <1>6, <1>12 DEF TapeInv, QueryInv, PassType
  <2> QED BY <1>1, <2>1 DEF TapeInv, QueryInv, PassType
<1>14. AppliedInv'
  <2>1. ASSUME pass.pc = "applied", NEW o \in Resting', NEW t \in pass.tape PROVE Done(t, o)'
    <3>1. t \in Trades /\ executed[t] <= pass.through /\ executed[t] \in Nat
      BY <2>1, <1>2 DEF TapeInv, QueryInv, PassType, RowTypes
    <3>2. CASE o = p
      <4>1. ~(executed'[t] > row'[p].placed) BY <1>1, <1>2, <1>3, <1>4, <1>12, <3>1
      <4> QED BY <3>2, <4>1 DEF Done, DuringLife
    <3>3. CASE o # p
      <4>1. o \in Resting /\ o \in Quotes \ {p} BY <1>6, <2>1, <3>3
      <4> QED BY <1>9, <2>1, <3>1, <4>1 DEF TapeInv, AppliedInv
    <3> QED BY <3>2, <3>3
  <2> QED BY <1>1, <2>1 DEF AppliedInv
<1> QED BY <1>5, <1>7, <1>8, <1>11, <1>13, <1>14 DEF TapeInv

(* A row whose quote ended, with its queue given up or not.                    *)
EndedRow(o, s) ==
  /\ Ended(row[o], s) \in RowType /\ [row[o] EXCEPT !.status = s] \in RowType
  /\ \A r \in {Ended(row[o], s), [row[o] EXCEPT !.status = s]} :
        /\ r.status = s /\ r.filled = row[o].filled /\ r.queue \in {row[o].queue, 0}
        /\ r.placed = row[o].placed /\ r.expires = row[o].expires

LEMMA EndedRows ==
  ASSUME RowTypes PROVE \A o \in Quotes, s \in RowStatus : EndedRow(o, s)
<1> SUFFICES ASSUME NEW o \in Quotes, NEW s \in RowStatus PROVE EndedRow(o, s) OBVIOUS
<1>1. row[o] \in RowType BY DEF RowTypes
<1> DEFINE r1 == [row[o] EXCEPT !.status = s, !.queue = 0]
           r2 == [row[o] EXCEPT !.status = s]
<1>2. /\ r1 \in RowType /\ r1.status = s /\ r1.filled = row[o].filled /\ r1.queue = 0
      /\ r1.placed = row[o].placed /\ r1.expires = row[o].expires
  <2> DEFINE zero == 0
             r0 == [row[o] EXCEPT !.status = s, !.queue = zero]
  <2>1. r1 = r0 /\ zero \in Int OBVIOUS
  <2> HIDE DEF zero, r1
  <2>2. /\ r0 \in RowType /\ r0.status = s /\ r0.filled = row[o].filled /\ r0.queue = zero
        /\ r0.placed = row[o].placed /\ r0.expires = row[o].expires
    BY <1>1, <2>1 DEF RowType
  <2> QED BY <2>1, <2>2 DEF zero
<1>3. /\ r2 \in RowType /\ r2.status = s /\ r2.filled = row[o].filled /\ r2.queue = row[o].queue
      /\ r2.placed = row[o].placed /\ r2.expires = row[o].expires
  BY <1>1 DEF RowType
<1> QED BY <1>2, <1>3 DEF EndedRow, Ended

(* Pulling shortens a life; expiry, an exit, a cutover and settlement end it.  *)
LEMMA EndingStep ==
  ASSUME TapeInv, Cutover \/ Settle \/ \E p \in Quotes : Pull(p) \/ Expire(p) \/ Exit(p) PROVE TapeInv'
<1>1. /\ now' = now /\ executed' = executed /\ published' = published /\ garbled' = garbled
      /\ open' = open /\ allocations' = allocations /\ pass' = pass
  <2>1. CASE Cutover \/ Settle BY <2>1 DEF Cutover, Settle
  <2>2. ASSUME NEW p \in Quotes, Pull(p) \/ Expire(p) \/ Exit(p)
        PROVE  /\ now' = now /\ executed' = executed /\ published' = published /\ garbled' = garbled
               /\ open' = open /\ allocations' = allocations /\ pass' = pass
    BY <2>2 DEF Pull, Expire, Exit
  <2> QED BY <2>1, <2>2
<1>2. RowTypes /\ now \in Nat BY DEF TapeInv, ClockInv
<1>3. row' \in [Quotes -> RowType] /\ \A o \in Quotes : Keeps(o)
  <2>1. \A o \in Quotes : row[o] \in RowType /\ row[o].expires \in Nat BY <1>2 DEF RowTypes, RowType
  <2>2. ASSUME NEW p \in Quotes, Pull(p) PROVE row' \in [Quotes -> RowType] /\ \A o \in Quotes : Keeps(o)
    <3> DEFINE e == IF row[p].expires <= now THEN row[p].expires ELSE now
               r == [row[p] EXCEPT !.pulled = TRUE, !.expires = e]
    <3>1. row' = [row EXCEPT ![p] = r] BY <2>2 DEF Pull
    <3>2. e \in Nat /\ e <= row[p].expires BY <1>2, <2>1
    <3> HIDE DEF e
    <3>3. /\ r \in RowType
          /\ r.status = row[p].status /\ r.filled = row[p].filled /\ r.queue = row[p].queue
          /\ r.placed = row[p].placed /\ r.expires = e
      BY <2>1, <3>2 DEF RowType
    <3> HIDE DEF r
    <3>4. row'[p] = r /\ \A o \in Quotes \ {p} : row'[o] = row[o] BY <1>2, <3>1 DEF RowTypes
    <3> QED BY <1>2, <2>1, <3>1, <3>2, <3>3, <3>4 DEF RowTypes, Keeps
  <2>3. ASSUME NEW p \in Quotes, Expire(p) \/ Exit(p)
        PROVE  row' \in [Quotes -> RowType] /\ \A o \in Quotes : Keeps(o)
    <3>1. PICK s \in {"EXPIRED", "EXITED"} : row' = [row EXCEPT ![p] = Ended(row[p], s)]
      BY <2>3 DEF Expire, Exit
    <3>2. row[p].status = "RESTING" BY <2>3 DEF Expire, Exit, Due, Resting
    <3>3. row'[p] = Ended(row[p], s) /\ \A o \in Quotes \ {p} : row'[o] = row[o] BY <1>2, <3>1 DEF RowTypes
    <3>4. EndedRow(p, s) /\ s \in RowStatus BY <1>2, EndedRows DEF RowStatus
    <3>5. row' \in [Quotes -> RowType] BY <1>2, <3>1, <3>4 DEF RowTypes, EndedRow
    <3>6. Keeps(p) BY <2>1, <3>2, <3>3, <3>4 DEF Keeps, EndedRow
    <3>7. \A o \in Quotes \ {p} : Keeps(o) BY <2>1, <3>3 DEF Keeps
    <3> QED BY <3>5, <3>6, <3>7
  <2>4. ASSUME NEW s \in {"CUT_OVER", "SETTLED_OUT"}, row' \in [Quotes -> RowType],
               \A o \in Quotes : /\ o \notin Resting => row'[o] = row[o]
                                 /\ o \in Resting => row'[o] \in {Ended(row[o], s), [row[o] EXCEPT !.status = s]}
        PROVE  \A o \in Quotes : Keeps(o)
    <3> SUFFICES ASSUME NEW o \in Quotes PROVE Keeps(o) OBVIOUS
    <3>1. CASE o \notin Resting BY <2>1, <2>4, <3>1 DEF Keeps
    <3>2. CASE o \in Resting
      <4>1. row[o].status = "RESTING" BY <3>2 DEF Resting
      <4>2. EndedRow(o, s) BY <1>2, EndedRows DEF RowStatus
      <4>3. row'[o] \in {Ended(row[o], s), [row[o] EXCEPT !.status = s]} BY <2>4, <3>2
      <4>4. /\ row'[o].status = s /\ row'[o].filled = row[o].filled /\ row'[o].queue \in {row[o].queue, 0}
            /\ row'[o].placed = row[o].placed /\ row'[o].expires = row[o].expires
        BY <4>2, <4>3 DEF EndedRow
      <4> QED BY <2>1, <4>1, <4>4 DEF Keeps
    <3> QED BY <3>1, <3>2
  <2>5. CASE Cutover
    <3>1. row' = [o \in Quotes |-> IF o \in Resting THEN Ended(row[o], "CUT_OVER") ELSE row[o]]
      BY <2>5 DEF Cutover
    <3>2. \A o \in Quotes : EndedRow(o, "CUT_OVER") BY <1>2, EndedRows DEF RowStatus
    <3>3. row' \in [Quotes -> RowType] BY <2>1, <3>1, <3>2 DEF EndedRow
    <3> QED BY <2>4, <3>1, <3>3
  <2>6. CASE Settle
    <3>1. row' = [o \in Quotes |->
                    IF o \notin Resting THEN row[o]
                    ELSE IF row[o].filled > 0 THEN Ended(row[o], "SETTLED_OUT")
                    ELSE [row[o] EXCEPT !.status = "SETTLED_OUT"]]
      BY <2>6 DEF Settle
    <3>2. \A o \in Quotes : EndedRow(o, "SETTLED_OUT") BY <1>2, EndedRows DEF RowStatus
    <3>3. row' \in [Quotes -> RowType] BY <2>1, <3>1, <3>2 DEF EndedRow
    <3> QED BY <2>4, <3>1, <3>3
  <2> QED BY <2>2, <2>3, <2>5, <2>6
<1>4. now' \in Nat /\ now <= now' BY <1>1, <1>2
<1>5. RowTypes' /\ RowInv' /\ JournalInv' BY <1>1, <1>3, <1>4, BookKept
<1>6. QueryInv' /\ AppliedInv' BY <1>1, <1>3, <1>4, PassKept
<1>7. ClockInv' BY <1>1 DEF TapeInv, ClockInv
<1> QED BY <1>5, <1>6, <1>7 DEF TapeInv

-----------------------------------------------------------------------------
(* The query of a pass.                                                        *)
(* A pass begins, reads the tape or ends.                                      *)
LEMMA PassStep ==
  ASSUME TapeInv, BeginPass \/ Fetch \/ FetchFails \/ EndPass \/ Crash PROVE TapeInv'
<1>1. /\ now' = now /\ executed' = executed /\ published' = published /\ garbled' = garbled /\ open' = open
      /\ row' = row /\ allocations' = allocations
  BY DEF BeginPass, Fetch, FetchFails, EndPass, Crash
<1>2. RowTypes /\ now \in Nat BY DEF TapeInv, ClockInv
<1>3. row' \in [Quotes -> RowType] /\ \A o \in Quotes : Keeps(o) BY <1>1, <1>2, NoRowKeeps
<1>4. RowTypes' /\ RowInv' /\ JournalInv'
  <2>1. now' \in Nat /\ now <= now' BY <1>1, <1>2
  <2> QED BY <1>1, <1>3, <2>1, BookKept
<1>5. ClockInv' BY <1>1 DEF TapeInv, ClockInv
<1>6. Resting' = Resting BY <1>1 DEF Resting
<1>7. pass'.pc # "applied"
  <2>1. pass \in PassType BY DEF TapeInv, QueryInv
  <2>2. CASE BeginPass BY <2>2 DEF BeginPass, NoPass
  <2>3. CASE Fetch BY <2>1, <2>3 DEF Fetch, PassType
  <2>4. CASE FetchFails \/ EndPass \/ Crash BY <2>4 DEF FetchFails, EndPass, Crash, NoPass
  <2> QED BY <2>2, <2>3, <2>4
<1>8. AppliedInv' BY <1>7 DEF AppliedInv
<1>9. \A t \in Trades : executed[t] \in Nat BY <1>2 DEF RowTypes
<1>10. QueryInv'
  <2>1. CASE BeginPass
    <3> DEFINE placements == {row[o].placed : o \in Resting}
    <3>1. pass' = [NoPass EXCEPT !.pc = "query", !.through = now, !.from = Min(placements)] /\ Resting # {}
      BY <2>1 DEF BeginPass
    <3>2. placements \in SUBSET Nat /\ placements # {}
      <4>1. \A o \in Resting : row[o].placed \in Nat BY <1>2 DEF Resting, RowTypes, RowType
      <4> QED BY <3>1, <4>1
    <3>3. Min(placements) \in placements /\ \A n \in placements : Min(placements) <= n
      <4> HIDE DEF placements
      <4>1. \E n \in placements : \A m \in placements : n <= m BY <3>2, LeastNat
      <4> QED BY <4>1 DEF Min
    <3>4. \A o \in Resting : Min(placements) <= row[o].placed BY <3>3
    <3>5. Min(placements) \in Nat BY <3>2, <3>3
    <3> HIDE DEF placements
    <3>6. pass' = [pc |-> "query", from |-> Min(placements), through |-> now, tape |-> {}, complete |-> FALSE]
      BY <3>1 DEF NoPass
    <3> QED BY <1>1, <1>2, <1>6, <3>4, <3>5, <3>6 DEF QueryInv, PassType
  <2>2. CASE Fetch
    <3> DEFINE whole == Visible \cap garbled = {}
    <3>1. pass.pc = "query" /\ pass' = [pass EXCEPT !.pc = "fetched", !.tape = Visible \ garbled, !.complete = whole]
      BY <2>2 DEF Fetch
    <3>2. /\ pass'.pc = "fetched" /\ pass'.tape = Visible \ garbled /\ pass'.from = pass.from
          /\ pass'.through = pass.through /\ pass'.complete = whole
      BY <3>1 DEF TapeInv, QueryInv, PassType
    <3>3. Visible \in SUBSET Trades /\ \A t \in Visible : executed[t] # 0 /\ executed[t] <= pass.through
      BY DEF Visible, TapeInv, ClockInv
    <3>4. ASSUME NEW t \in Trades, executed[t] # 0, executed[t] + Grace <= pass.through, pass.from <= executed[t]
          PROVE  t \in Visible
      <4>1. pass.through \in Nat /\ pass.through <= now BY DEF TapeInv, QueryInv, PassType
      <4>2. t \in published BY <1>1, <1>9, <3>4, <4>1, TimeAssumption DEF TapeInv, ClockInv
      <4>3. executed[t] <= pass.through BY <1>9, <3>4, <4>1, TimeAssumption
      <4> QED BY <3>4, <4>2, <4>3 DEF Visible
    <3>5. whole => Visible \ garbled = Visible OBVIOUS
    <3>6. whole \in BOOLEAN OBVIOUS
    <3>8. pass.pc = "query" BY <3>1
    <3>7. pass' \in PassType BY <3>1, <3>3, <3>6 DEF TapeInv, QueryInv, PassType
    <3> HIDE DEF whole
    <3> QED BY <1>1, <1>6, <3>2, <3>3, <3>4, <3>5, <3>7, <3>8 DEF TapeInv, QueryInv
  <2>3. CASE FetchFails \/ EndPass \/ Crash
    <3>1. pass' = NoPass BY <2>3 DEF FetchFails, EndPass, Crash
    <3> QED BY <1>1, <1>2, <3>1 DEF NoPass, QueryInv, PassType
  <2> QED BY <2>1, <2>2, <2>3
<1> QED BY <1>4, <1>5, <1>8, <1>10 DEF TapeInv
-----------------------------------------------------------------------------
(* A batch is applied.                                                         *)
(* What a batch writes on a row: what the allocation gave the quote; what is    *)
(* left for the quote then is what the allocation left.                         *)
GivesTo(A, o) ==
  /\ row'[o] \in RowType
  /\ row'[o].filled = row[o].filled + Total(A.got[o], "fill")
  /\ row'[o].queue = row[o].queue - Total(A.got[o], "queue")
  /\ row'[o].placed = row[o].placed /\ row'[o].expires = row[o].expires
  /\ row'[o].status = "RESTING" => row[o].status = "RESTING"
  /\ row'[o].status = "FILLED" => row[o].status \in {"RESTING", "FILLED"}
  /\ row'[o].status = "NONE" <=> row[o].status = "NONE"
  /\ QuoteTerms[o].quantity - row'[o].filled = A.unfilled[o] /\ row'[o].queue = A.queue[o]

(* What an allocation gives a quote comes out of its quantity and its queue.     *)
LEMMA AllocationLeaves ==
  ASSUME TapeInv, NEW A \in StateType, NEW P, Sound(A, Start, P), NEW o \in Quotes
  PROVE  /\ QuoteTerms[o].quantity - row[o].filled = A.unfilled[o] + Total(A.got[o], "fill")
         /\ row[o].queue = A.queue[o] + Total(A.got[o], "queue")
         /\ A.unfilled[o] \in Nat /\ A.queue[o] \in Nat
         /\ row[o].filled \in Nat /\ row[o].queue \in Nat
         /\ QuoteTerms[o].quantity \in Nat /\ QuoteTerms[o].queue \in Nat
         /\ A.queue[o] <= QuoteTerms[o].queue /\ row[o] \in RowType
         /\ Total(A.got[o], "queue") \in Nat /\ Total(A.got[o], "fill") \in Nat
<1>1. /\ A.unfilled[o] + Total(A.got[o], "fill") = QuoteTerms[o].quantity - row[o].filled
      /\ A.queue[o] + Total(A.got[o], "queue") = row[o].queue
      /\ A.queue[o] <= QuoteTerms[o].queue
  BY StartType DEF Sound, Conserves
<1>2. row[o].filled \in Nat /\ row[o].queue \in Nat BY Terms DEF TapeInv, RowInv
<1>3. A.got[o] \in [Trades -> Taking] BY DEF StateType
<1>4. Total(A.got[o], "queue") \in Nat /\ Total(A.got[o], "fill") \in Nat BY <1>3, TotalType
<1> QED BY <1>1, <1>2, <1>4, Terms DEF StateType, RowTypes, TapeInv

(* The rows after a batch. *)
LEMMA ApplyGives ==
  ASSUME TapeInv, Apply
  PROVE  \A o \in Quotes : GivesTo(Allocated(pass.tape), o)
<1> DEFINE tape == pass.tape
           A == Allocated(tape)
           novel == Novel(tape)
           credited(o) == Credited(row[o], o, novel[o])
<1>1. /\ now' = now /\ executed' = executed /\ published' = published /\ garbled' = garbled /\ open' = open
      /\ pass.pc = "fetched" /\ pass' = [pass EXCEPT !.pc = "applied"]
      /\ allocations' = [o \in Quotes |-> [t \in Trades |->
            IF novel[o][t] = Nothing THEN allocations[o][t] ELSE novel[o][t]]]
      /\ row' = [o \in Quotes |-> IF o \in Resting THEN credited(o) ELSE row[o]]
  BY DEF Apply
<1>2. RowTypes /\ now \in Nat BY DEF TapeInv, ClockInv
<1>3. pass \in PassType /\ tape \in SUBSET Trades BY DEF TapeInv, QueryInv, PassType
<1>4. /\ Sound(A, Start, tape \X Resting)
      /\ \A o \in Quotes : novel[o] = A.got[o]
      /\ \A o \in Quotes, t \in Trades :
           novel[o][t] # Nothing => /\ o \in Resting /\ t \in tape /\ ~Done(t, o)
                                    /\ allocations[o][t] = Nothing
  BY <1>3, Credits
<1> HIDE DEF tape, A, novel, credited
<1>5. A \in StateType BY <1>4 DEF Sound
<1> SUFFICES ASSUME NEW o \in Quotes PROVE GivesTo(A, o) BY DEF A, tape
<1>6. /\ QuoteTerms[o].quantity - row[o].filled = A.unfilled[o] + Total(A.got[o], "fill")
      /\ row[o].queue = A.queue[o] + Total(A.got[o], "queue")
      /\ A.unfilled[o] \in Nat /\ A.queue[o] \in Nat
      /\ row[o].filled \in Nat /\ row[o].queue \in Nat
      /\ QuoteTerms[o].quantity \in Nat /\ row[o] \in RowType
      /\ Total(A.got[o], "queue") \in Nat /\ Total(A.got[o], "fill") \in Nat
  BY <1>4, <1>5, AllocationLeaves
<1> DEFINE fl == row[o].filled + Total(A.got[o], "fill")
           qu == row[o].queue - Total(A.got[o], "queue")
           st == IF fl = QuoteTerms[o].quantity THEN "FILLED" ELSE row[o].status
<1>7. /\ fl \in Int /\ qu \in Int
      /\ QuoteTerms[o].quantity - fl = A.unfilled[o] /\ qu = A.queue[o]
  BY <1>6
<1>8. CASE o \in Resting
  <2>1. row'[o] = [row[o] EXCEPT !.filled = fl, !.queue = qu, !.status = st]
    BY <1>1, <1>4, <1>8 DEF Credited, credited
  <2>2. row[o].status = "RESTING" BY <1>8 DEF Resting
  <2> HIDE DEF fl, qu
  <2>3. st \in {"RESTING", "FILLED"} BY <2>2
  <2> HIDE DEF st
  <2>4. [row[o] EXCEPT !.filled = fl, !.queue = qu, !.status = st] \in RowType
    BY <1>6, <1>7, <2>3 DEF RowType, RowStatus
  <2>5. /\ row'[o].filled = fl /\ row'[o].queue = qu /\ row'[o].status = st
        /\ row'[o].placed = row[o].placed /\ row'[o].expires = row[o].expires
    BY <1>6, <2>1 DEF RowType
  <2> QED BY <1>7, <2>1, <2>2, <2>3, <2>4, <2>5 DEF fl, qu, GivesTo
<1>9. CASE o \notin Resting
  <2>1. row'[o] = row[o] BY <1>1, <1>9
  <2>2. \A t \in Trades : A.got[o][t] = Nothing BY <1>4, <1>9
  <2>3. A.got[o] \in [Trades -> Taking] BY <1>5 DEF StateType
  <2>4. Total(A.got[o], "fill") = 0 /\ Total(A.got[o], "queue") = 0 BY <2>2, <2>3, NothingTotal
  <2> QED BY <1>6, <2>1, <2>4 DEF GivesTo
<1> QED BY <1>8, <1>9

(* The journal and the rows get exactly what the allocation gave, and what the *)
(* allocation left is what the journal leaves.                                 *)
LEMMA ApplyStep == ASSUME TapeInv, Apply PROVE TapeInv'
<1> DEFINE tape == pass.tape
           A == Allocated(tape)
           novel == Novel(tape)
           credited(o) == Credited(row[o], o, novel[o])
<1>1. /\ now' = now /\ executed' = executed /\ published' = published /\ garbled' = garbled /\ open' = open
      /\ pass.pc = "fetched" /\ pass' = [pass EXCEPT !.pc = "applied"]
      /\ allocations' = [o \in Quotes |-> [t \in Trades |->
            IF novel[o][t] = Nothing THEN allocations[o][t] ELSE novel[o][t]]]
      /\ row' = [o \in Quotes |-> IF o \in Resting THEN credited(o) ELSE row[o]]
  BY DEF Apply
<1>2. RowTypes /\ now \in Nat BY DEF TapeInv, ClockInv
<1>3. pass \in PassType /\ tape \in SUBSET Trades BY DEF TapeInv, QueryInv, PassType
<1>4. /\ Sound(A, Start, tape \X Resting)
      /\ \A o \in Quotes : novel[o] = A.got[o]
      /\ \A o \in Quotes, t \in Trades :
           novel[o][t] # Nothing => /\ o \in Resting /\ t \in tape /\ ~Done(t, o)
                                    /\ allocations[o][t] = Nothing
  BY <1>3, Credits
<1> HIDE DEF tape, A, novel, credited
<1>5. A \in StateType BY <1>4 DEF Sound
<1>6. \A o \in Quotes : /\ allocations[o] \in [Trades -> Taking] /\ novel[o] \in [Trades -> Taking]
                        /\ allocations'[o] \in [Trades -> Taking]
  <2>1. \A o \in Quotes : allocations[o] \in [Trades -> Taking] /\ novel[o] \in [Trades -> Taking]
    BY <1>2, <1>4, <1>5 DEF RowTypes, StateType
  <2> QED BY <1>1, <2>1
<1>7. \A o \in Quotes, t \in Trades :
         /\ allocations'[o][t].queue = allocations[o][t].queue + A.got[o][t].queue
         /\ allocations'[o][t].fill = allocations[o][t].fill + A.got[o][t].fill
  <2> SUFFICES ASSUME NEW o \in Quotes, NEW t \in Trades
               PROVE  /\ allocations'[o][t].queue = allocations[o][t].queue + A.got[o][t].queue
                      /\ allocations'[o][t].fill = allocations[o][t].fill + A.got[o][t].fill
    OBVIOUS
  <2>1. allocations'[o][t] = IF novel[o][t] = Nothing THEN allocations[o][t] ELSE novel[o][t] BY <1>1
  <2>2. /\ allocations[o][t].queue \in Nat /\ allocations[o][t].fill \in Nat
        /\ novel[o][t].queue \in Nat /\ novel[o][t].fill \in Nat
    BY <1>6 DEF Taking
  <2>3. novel[o][t] = A.got[o][t] BY <1>4
  <2>4. CASE novel[o][t] = Nothing
    <3>1. A.got[o][t].queue = 0 /\ A.got[o][t].fill = 0 BY <2>3, <2>4 DEF Nothing
    <3> QED BY <2>1, <2>2, <2>4, <3>1
  <2>5. CASE novel[o][t] # Nothing
    <3>1. allocations[o][t] = Nothing BY <1>4, <2>5
    <3>2. allocations[o][t].queue = 0 /\ allocations[o][t].fill = 0 BY <3>1 DEF Nothing
    <3> QED BY <2>1, <2>2, <2>3, <2>5, <3>2
  <2> QED BY <2>4, <2>5
<1>8. \A o \in Quotes : /\ Total(allocations[o], "queue")' = Total(allocations[o], "queue") + Total(A.got[o], "queue")
                        /\ Total(allocations[o], "fill")' = Total(allocations[o], "fill") + Total(A.got[o], "fill")
                        /\ Total(allocations[o], "queue") \in Nat /\ Total(allocations[o], "fill") \in Nat
                        /\ Total(A.got[o], "queue") \in Nat /\ Total(A.got[o], "fill") \in Nat
  <2> SUFFICES ASSUME NEW o \in Quotes
               PROVE  /\ Total(allocations[o], "queue")' = Total(allocations[o], "queue") + Total(A.got[o], "queue")
                      /\ Total(allocations[o], "fill")' = Total(allocations[o], "fill") + Total(A.got[o], "fill")
                      /\ Total(allocations[o], "queue") \in Nat /\ Total(allocations[o], "fill") \in Nat
                      /\ Total(A.got[o], "queue") \in Nat /\ Total(A.got[o], "fill") \in Nat
    OBVIOUS
  <2>1. A.got[o] \in [Trades -> Taking] BY <1>5 DEF StateType
  <2>2. /\ Total(allocations'[o], "queue") = Total(allocations[o], "queue") + Total(A.got[o], "queue")
        /\ Total(allocations'[o], "fill") = Total(allocations[o], "fill") + Total(A.got[o], "fill")
    BY <1>6, <1>7, <2>1, TotalsAdd
  <2>3. Total(allocations[o], "queue")' = Total(allocations'[o], "queue")
        /\ Total(allocations[o], "fill")' = Total(allocations'[o], "fill")
    BY DEF Total
  <2> QED BY <1>6, <2>1, <2>2, <2>3, TotalType
<1>9. \A S \in VolumeScopes, t \in Trades : Available(S, t)' = A.left[S][t] /\ A.left[S][t] \in Nat
  <2> SUFFICES ASSUME NEW S \in VolumeScopes, NEW t \in Trades PROVE Available(S, t)' = A.left[S][t] /\ A.left[S][t] \in Nat
    OBVIOUS
  <2> DEFINE F == Volume(t)
             H == Volume(t)'
  <2>1. S \in SUBSET Quotes /\ IsFiniteSet(S) BY ScopeParts
  <2>2. \A o \in S : F[o] \in Int /\ Given(A, t)[o] \in Int /\ H[o] = F[o] + Given(A, t)[o]
    <3> SUFFICES ASSUME NEW o \in S PROVE F[o] \in Int /\ Given(A, t)[o] \in Int /\ H[o] = F[o] + Given(A, t)[o]
      OBVIOUS
    <3>1. o \in Quotes BY <2>1
    <3>2. /\ F[o] = allocations[o][t].queue + allocations[o][t].fill
          /\ H[o] = allocations'[o][t].queue + allocations'[o][t].fill
          /\ Given(A, t)[o] = A.got[o][t].queue + A.got[o][t].fill
      BY <3>1 DEF Volume, Given
    <3>3. /\ allocations[o][t].queue \in Nat /\ allocations[o][t].fill \in Nat
          /\ A.got[o][t].queue \in Nat /\ A.got[o][t].fill \in Nat
      BY <1>5, <1>6, <3>1 DEF Taking, StateType
    <3> QED BY <1>7, <3>1, <3>2, <3>3
  <2> HIDE DEF F, H
  <2>3. SumFunctionOnSet(H, S) = SumFunctionOnSet(F, S) + SumFunctionOnSet(Given(A, t), S)
    BY <2>1, <2>2, SumPlus
  <2>4. TakenBy(S, t)' = SumFunctionOnSet(H, S) /\ TakenBy(S, t) = SumFunctionOnSet(F, S) BY DEF TakenBy, F, H
  <2>5. A.left[S][t] + SumFunctionOnSet(Given(A, t), S) = Available(S, t)
    BY <1>4, StartType DEF Sound, Conserves
  <2>6. SumFunctionOnSet(F, S) \in Int /\ SumFunctionOnSet(Given(A, t), S) \in Int BY <2>1, <2>2, SumInt
  <2>7. A.left[S][t] \in Nat /\ TradeTerms[t].quantity \in Nat BY <1>5, Terms DEF StateType
  <2>8. Available(S, t)' = TradeTerms[t].quantity - SumFunctionOnSet(H, S)
        /\ Available(S, t) = TradeTerms[t].quantity - SumFunctionOnSet(F, S)
    BY <2>4 DEF Available
  <2> QED BY <2>3, <2>5, <2>6, <2>7, <2>8
<1>10. \A o \in Quotes : /\ A.unfilled[o] \in Nat /\ A.queue[o] \in Nat
                         /\ row[o].filled \in Nat /\ row[o].queue \in Nat
                         /\ QuoteTerms[o].quantity \in Nat /\ QuoteTerms[o].queue \in Nat
                         /\ A.queue[o] <= QuoteTerms[o].queue
  BY <1>4, <1>5, AllocationLeaves
<1>11. \A o \in Quotes : GivesTo(A, o)
  BY ApplyGives DEF A, tape
<1>12. RowTypes'
  <2>1. row' \in [Quotes -> RowType] BY <1>1, <1>11 DEF GivesTo
  <2>2. allocations' \in [Quotes -> [Trades -> Taking]] BY <1>1, <1>6
  <2> QED BY <1>1, <1>2, <2>1, <2>2 DEF RowTypes
<1>13. ClockInv' BY <1>1 DEF TapeInv, ClockInv
<1>14. Resting' \in SUBSET Resting /\ Resting \in SUBSET Quotes BY <1>11 DEF Resting, GivesTo
<1>16. RowInv'
  <2>1. \A o \in Quotes : row'[o].filled \in 0..QuoteTerms[o].quantity /\ row'[o].queue \in 0..QuoteTerms[o].queue
    BY <1>8, <1>10, <1>11 DEF GivesTo
  <2>2. \A o \in Resting' : row'[o].placed <= now'
    BY <1>1, <1>11, <1>14 DEF TapeInv, RowInv, GivesTo
  <2> QED BY <2>1, <2>2 DEF RowInv
<1>17. \A o \in Quotes, t \in Trades : Spent(A, t, o) => Done(t, o)'
  <2> SUFFICES ASSUME NEW o \in Quotes, NEW t \in Trades, Spent(A, t, o) PROVE Done(t, o)' OBVIOUS
  <2>1. Scope(o) \in VolumeScopes BY ScopeParts
  <2>2. Available(Scope(o), t)' = A.left[Scope(o)][t] BY <1>9, <2>1
  <2>3. DuringLife(t, o)' <=> DuringLife(t, o) BY <1>1, <1>11 DEF DuringLife, GivesTo
  <2> QED BY <1>11, <2>2, <2>3 DEF Done, Spent, Blocked, Reaches, GivesTo
<1>18. \A o \in Resting, t \in Trades : allocations[o][t] # Nothing \/ t \in tape => Spent(A, t, o)
  <2> SUFFICES ASSUME NEW o \in Resting, NEW t \in Trades, allocations[o][t] # Nothing \/ t \in tape
               PROVE  Spent(A, t, o)
    OBVIOUS
  <2>1. o \in Quotes BY <1>14
  <2>2. Spent(Start, t, o) \/ <<t, o>> \in tape \X Resting
    BY <2>1, StartType DEF TapeInv, JournalInv
  <2> QED BY <1>4, <2>1, <2>2 DEF Sound, Exhausts
<1>19. JournalInv'
  <2>1. \A o \in Quotes, t \in Trades : allocations'[o][t] # Nothing =>
           allocations[o][t] # Nothing \/ (o \in Resting /\ t \in tape)
    BY <1>1, <1>4
  <2>2. \A o \in Quotes, t \in Trades : allocations'[o][t] # Nothing => executed[t] # 0 /\ row'[o].status # "NONE"
    <3> SUFFICES ASSUME NEW o \in Quotes, NEW t \in Trades, allocations'[o][t] # Nothing
                 PROVE  executed[t] # 0 /\ row'[o].status # "NONE"
      OBVIOUS
    <3>1. CASE allocations[o][t] # Nothing BY <1>11, <3>1 DEF TapeInv, JournalInv, GivesTo
    <3>2. CASE o \in Resting /\ t \in tape
      <4>1. row[o].status = "RESTING" BY <3>2 DEF Resting
      <4>2. executed[t] # 0 BY <3>2 DEF TapeInv, QueryInv, tape
      <4> QED BY <1>11, <4>1, <4>2 DEF GivesTo
    <3> QED BY <2>1, <3>1, <3>2
  <2>3. RowsMatchJournal'
    <3>1. RowsMatchJournal BY DEF TapeInv, JournalInv
    <3>2. ASSUME NEW o \in Quotes, row'[o].status # "NONE"
          PROVE  /\ row'[o].filled = Total(allocations[o], "fill")'
                 /\ row'[o].status \in {"RESTING", "FILLED"} =>
                       row'[o].queue = QuoteTerms[o].queue - Total(allocations[o], "queue")'
      <4>1. row[o].status # "NONE" BY <1>11, <3>2 DEF GivesTo
      <4>2. /\ row[o].filled = Total(allocations[o], "fill")
            /\ row[o].status \in {"RESTING", "FILLED"} =>
                  row[o].queue = QuoteTerms[o].queue - Total(allocations[o], "queue")
        BY <3>1, <4>1 DEF RowsMatchJournal
      <4>3. row'[o].status \in {"RESTING", "FILLED"} => row[o].status \in {"RESTING", "FILLED"}
        BY <1>11 DEF GivesTo
      <4> QED BY <1>8, <1>10, <1>11, <4>2, <4>3 DEF GivesTo
    <3> QED BY <3>2 DEF RowsMatchJournal
  <2>4. \A S \in VolumeScopes, t \in Trades : TakenBy(S, t)' <= TradeTerms[t].quantity
    <3> SUFFICES ASSUME NEW S \in VolumeScopes, NEW t \in Trades PROVE TakenBy(S, t)' <= TradeTerms[t].quantity
      OBVIOUS
    <3>1. Available(S, t)' \in Nat BY <1>9
    <3>2. Available(S, t)' = TradeTerms[t].quantity - TakenBy(S, t)' BY DEF Available
    <3>3. TakenBy(S, t)' \in Int
      <4>1. S \in SUBSET Quotes /\ IsFiniteSet(S) BY ScopeParts
      <4>2. \A o \in S : Volume(t)'[o] \in Int
        <5>1. \A o \in S : allocations'[o][t].queue \in Nat /\ allocations'[o][t].fill \in Nat
          BY <1>6, <4>1 DEF Taking
        <5> QED BY <4>1, <5>1 DEF Volume
      <4>3. SumFunctionOnSet(Volume(t)', S) \in Int BY <4>1, <4>2, SumInt
      <4> QED BY <4>3 DEF TakenBy
    <3> QED BY <3>1, <3>2, <3>3, Terms
  <2>5. \A o \in Resting', t \in Trades : allocations'[o][t] # Nothing => Done(t, o)'
    BY <1>14, <1>17, <1>18, <2>1
  <2> QED BY <1>1, <2>2, <2>3, <2>4, <2>5 DEF JournalInv
<1>20. pass' \in PassType /\ pass'.pc = "applied" /\ pass'.tape = tape /\ pass'.from = pass.from
       /\ pass'.through = pass.through /\ pass'.complete = pass.complete
  BY <1>1, <1>3 DEF PassType, tape
<1>21. QueryInv'
  <2>1. \A o \in Resting' : pass.from <= row'[o].placed \/ pass.through <= row'[o].placed
    BY <1>1, <1>11, <1>14 DEF TapeInv, QueryInv, GivesTo
  <2> QED BY <1>1, <1>20, <2>1 DEF TapeInv, QueryInv, tape
<1>22. AppliedInv'
  <2>1. \A o \in Resting', t \in tape : Done(t, o)'
    BY <1>3, <1>14, <1>17, <1>18
  <2> QED BY <1>20, <2>1 DEF AppliedInv
<1> QED BY <1>12, <1>13, <1>16, <1>19, <1>21, <1>22 DEF TapeInv
(* A quote that can take nothing more of a tape is credited nothing.           *)
LEMMA NothingNew ==
  ASSUME TapeInv, NEW tape \in SUBSET Trades, NEW o \in Quotes,
         \A t \in tape : o \in Resting => Done(t, o)
  PROVE  Novel(tape)[o] = [t \in Trades |-> Nothing]
<1>1. Sound(Allocated(tape), Start, tape \X Resting) /\ Novel(tape)[o] = Allocated(tape).got[o] BY Credits
<1>2. Novel(tape)[o] \in [Trades -> Taking] BY <1>1 DEF Sound, StateType
<1>3. \A t \in Trades : Novel(tape)[o][t] # Nothing => o \in Resting /\ t \in tape /\ ~Done(t, o)
  BY Credits
<1>4. \A t \in Trades : Novel(tape)[o][t] = Nothing BY <1>3
<1> QED BY <1>2, <1>4

-----------------------------------------------------------------------------
(* The invariant of the tape.                                                  *)
LEMMA TapeInvariant == TapeSpec => []TapeInv
<1>1. TapeInit => TapeInv BY TapeInitInv
<1>2. TapeInv /\ [TapeNext]_tapeVars => TapeInv'
  <2> SUFFICES ASSUME TapeInv, [TapeNext]_tapeVars PROVE TapeInv' OBVIOUS
  <2>1. CASE Tick \/ Close \/ \E t \in Trades : Publish(t) BY <2>1, ExchangeStep
  <2>2. ASSUME NEW t \in Trades, Execute(t) PROVE TapeInv' BY <2>2, ExecuteStep
  <2>3. ASSUME NEW o \in Quotes, Place(o) PROVE TapeInv' BY <2>3, PlaceStep
  <2>4. CASE Cutover \/ Settle \/ \E o \in Quotes : Pull(o) \/ Expire(o) \/ Exit(o) BY <2>4, EndingStep
  <2>5. CASE BeginPass \/ Fetch \/ FetchFails \/ EndPass \/ Crash BY <2>5, PassStep
  <2>6. CASE Apply BY <2>6, ApplyStep
  <2>7. CASE UNCHANGED tapeVars
    <3>1. /\ now' = now /\ executed' = executed /\ published' = published /\ garbled' = garbled /\ open' = open /\ row' = row
          /\ allocations' = allocations /\ pass' = pass
      BY <2>7 DEF tapeVars
    <3>2. RowTypes /\ now \in Nat BY DEF TapeInv, ClockInv
    <3>3. row' \in [Quotes -> RowType] /\ \A o \in Quotes : Keeps(o) BY <3>1, <3>2, NoRowKeeps
    <3>4. now' \in Nat /\ now <= now' BY <3>1, <3>2
    <3>5. RowTypes' /\ RowInv' /\ JournalInv' BY <3>1, <3>3, <3>4, BookKept
    <3>6. QueryInv' /\ AppliedInv' BY <3>1, <3>3, <3>4, PassKept
    <3>7. ClockInv' BY <3>1 DEF TapeInv, ClockInv
    <3> QED BY <3>5, <3>6, <3>7 DEF TapeInv
  <2> QED BY <2>1, <2>2, <2>3, <2>4, <2>5, <2>6, <2>7 DEF TapeNext
<1> QED BY <1>1, <1>2, PTL DEF TapeSpec

(* Type correctness: a quote is never filled beyond its quantity and its queue *)
(* never falls below zero or grows, whatever batches apply_maker_trade_batch   *)
(* credits.                                                                    *)
THEOREM TapeTypeCorrect == TapeSpec => []TapeTypeOK
<1>1. TapeInv => TapeTypeOK
  <2> SUFFICES ASSUME TapeInv PROVE TapeTypeOK OBVIOUS
  <2>1. RowTypes /\ ClockInv /\ RowInv /\ pass.pc \in {"idle", "query", "fetched", "applied"}
    BY DEF TapeInv, QueryInv, PassType
  <2>2. executed \in [Trades -> 0..MaxTime]
    <3>1. \A t \in Trades : executed[t] \in Nat /\ executed[t] <= now BY <2>1 DEF RowTypes, ClockInv
    <3>2. now \in Nat /\ now <= MaxTime BY <2>1, TimeAssumption DEF ClockInv
    <3>3. \A t \in Trades : executed[t] \in 0..MaxTime BY <3>1, <3>2, TimeAssumption
    <3>4. executed \in [Trades -> Nat] BY <2>1 DEF RowTypes
    <3> QED BY <3>3, <3>4
  <2>3. \A o \in Quotes : row[o].status \in {"NONE", "RESTING", "FILLED", "EXPIRED", "EXITED",
                                            "CUT_OVER", "SETTLED_OUT"}
    BY <2>1 DEF RowTypes, RowType, RowStatus
  <2>4. allocations \in [Quotes -> [Trades -> [queue : Nat, fill : Nat]]] BY <2>1 DEF RowTypes, Taking
  <2> QED BY <2>1, <2>2, <2>3, <2>4 DEF TapeTypeOK, ClockInv, RowInv
<1> QED BY <1>1, TapeInvariant, PTL

(* A public trade is finite: over all passes, crashes and resolved quotes,     *)
(* apply_volume_claims over the journal keeps the quotes of an account, and    *)
(* each research shadow alone, within the volume that was traded.              *)
THEOREM VolumeCorrect == TapeSpec => []VolumeConserved
<1>1. TapeInv => VolumeConserved
  <2> SUFFICES ASSUME TapeInv, NEW t \in Trades
               PROVE  /\ \A o \in Quotes : TakenBy({o}, t) <= TradeTerms[t].quantity
                      /\ \A a \in {QuoteTerms[o].account : o \in Quotes} \ {Research} :
                            TakenBy({o \in Quotes : QuoteTerms[o].account = a}, t) <= TradeTerms[t].quantity
    BY DEF VolumeConserved
  <2>1. \A S \in VolumeScopes : TakenBy(S, t) <= TradeTerms[t].quantity BY DEF TapeInv, JournalInv
  <2>2. RowTypes BY DEF TapeInv
  <2>3. ASSUME NEW o \in Quotes PROVE TakenBy({o}, t) <= TradeTerms[t].quantity
    <3>1. /\ Scope(o) \in VolumeScopes /\ o \in Scope(o) /\ Scope(o) \in SUBSET Quotes BY ScopeParts
    <3>2. /\ IsFiniteSet(Scope(o)) /\ \A p \in Scope(o) : Volume(t)[p] \in Nat
          /\ TakenBy(Scope(o), t) \in Nat
      BY <2>2, <3>1, VolumeType
    <3> DEFINE G == [p \in Quotes |-> IF p \in {o} THEN Volume(t)[p] ELSE 0]
    <3>3. \A p \in Scope(o) : G[p] = IF p \in {o} THEN Volume(t)[p] ELSE 0 BY <3>1
    <3> HIDE DEF G
    <3>4. {o} \in SUBSET Scope(o) /\ \A p \in Scope(o) : Volume(t)[p] \in Int /\ G[p] \in Int /\ G[p] <= Volume(t)[p]
      BY <3>1, <3>2, <3>3
    <3>5. SumFunctionOnSet(Volume(t), {o}) = SumFunctionOnSet(G, Scope(o))
      BY <3>2, <3>3, <3>4, SumWithin
    <3>6. SumFunctionOnSet(G, Scope(o)) <= SumFunctionOnSet(Volume(t), Scope(o))
      BY <3>2, <3>4, SumMonotone
    <3>7. SumFunctionOnSet(G, Scope(o)) \in Int BY <3>2, <3>4, SumInt
    <3>8. TakenBy(Scope(o), t) <= TradeTerms[t].quantity BY <2>1, <3>1
    <3> QED BY <3>2, <3>5, <3>6, <3>7, <3>8, Terms DEF TakenBy
  <2>4. ASSUME NEW a \in {QuoteTerms[o].account : o \in Quotes} \ {Research}
        PROVE  TakenBy({o \in Quotes : QuoteTerms[o].account = a}, t) <= TradeTerms[t].quantity
    <3>1. PICK o \in Quotes : QuoteTerms[o].account = a OBVIOUS
    <3>2. {p \in Quotes : QuoteTerms[p].account = a} = Scope(o) BY <3>1 DEF Scope
    <3> QED BY <2>1, <3>1, <3>2, ScopeParts
  <2> QED BY <2>3, <2>4
<1> QED BY <1>1, TapeInvariant, PTL

(* The fill and queue progress that apply_maker_trade_batch writes on a row is *)
(* what the journal says the quote took, however batches overlap or repeat.    *)
THEOREM JournalCorrect == TapeSpec => []RowsMatchJournal
<1>1. TapeInv => RowsMatchJournal BY DEF TapeInv, JournalInv
<1> QED BY <1>1, TapeInvariant, PTL

(* A batch that was applied credits nothing when a restarted or repeated pass  *)
(* applies the same tape again.                                                *)
THEOREM ReplayCorrect == TapeSpec => []ReplayIsNoop
<1>1. TapeInv => ReplayIsNoop
  <2> SUFFICES ASSUME TapeInv, pass.pc = "applied", NEW o \in Quotes
               PROVE  Novel(pass.tape)[o] = [t \in Trades |-> Nothing]
    BY DEF ReplayIsNoop
  <2>1. pass.tape \in SUBSET Trades BY DEF TapeInv, QueryInv, PassType
  <2>2. \A t \in pass.tape : o \in Resting => Done(t, o) BY DEF TapeInv, AppliedInv
  <2> QED BY <2>1, <2>2, NothingNew
<1> QED BY <1>1, TapeInvariant, PTL

(* expire_stale_resting_orders ends a quote only when the whole tape of the    *)
(* exchange, published or not, has nothing left that the quote could take: the *)
(* grace makes the watermark of a complete query a safe one.                   *)
THEOREM ExpiryCorrect == TapeSpec => ExpiryLosesNothing
<1> DEFINE Lossless == \A o \in Quotes : row[o].status = "RESTING" /\ row'[o].status = "EXPIRED" =>
                          Uncredited(o) = [t \in Trades |-> Nothing]
<1>1. TapeInv /\ [TapeNext]_tapeVars => [Lossless]_tapeVars
  <2> SUFFICES ASSUME TapeInv, TapeNext, NEW o \in Quotes, row[o].status = "RESTING", row'[o].status = "EXPIRED"
               PROVE  Uncredited(o) = [t \in Trades |-> Nothing]
    OBVIOUS
  <2>0. RowTypes BY DEF TapeInv
  <2>1. Expire(o)
    <3>1. row' # row OBVIOUS
    <3>2. ~(Tick \/ Close \/ \E t \in Trades : Execute(t) \/ Publish(t)) BY <3>1 DEF Tick, Close, Execute, Publish
    <3>3. ~(BeginPass \/ Fetch \/ FetchFails \/ EndPass \/ Crash)
      BY <3>1 DEF BeginPass, Fetch, FetchFails, EndPass, Crash
    <3>4. ASSUME NEW p \in Quotes, Place(p) PROVE FALSE
      <4>1. row' = [row EXCEPT ![p] = [NoRow EXCEPT !.status = "RESTING", !.placed = now,
                          !.expires = now + QuoteTerms[p].ttl, !.queue = QuoteTerms[p].queue]]
        BY <3>4 DEF Place
      <4>2. p = o => row'[o].status = "RESTING" BY <2>0, <4>1 DEF NoRow, RowTypes
      <4>3. p # o => row'[o] = row[o] BY <2>0, <4>1 DEF RowTypes
      <4> QED BY <4>2, <4>3
    <3>5. ASSUME NEW p \in Quotes, Pull(p) PROVE FALSE
      <4>1. row' = [row EXCEPT ![p].pulled = TRUE, ![p].expires = IF @ <= now THEN @ ELSE now] BY <3>5 DEF Pull
      <4>2. row'[o].status = row[o].status BY <2>0, <4>1 DEF RowTypes, RowType
      <4> QED BY <4>2
    <3>6. ASSUME NEW p \in Quotes, Expire(p) PROVE p = o
      <4>1. p # o => row'[o] = row[o] BY <2>0, <3>6 DEF Expire, RowTypes
      <4> QED BY <4>1
    <3>7. EndedRow(o, "EXITED") /\ EndedRow(o, "CUT_OVER") /\ EndedRow(o, "SETTLED_OUT")
      BY <2>0, EndedRows DEF RowStatus
    <3>9. o \in Resting BY DEF Resting
    <3>10. ASSUME Settle PROVE FALSE
      <4>1. row'[o] \in {Ended(row[o], "SETTLED_OUT"), [row[o] EXCEPT !.status = "SETTLED_OUT"]}
        BY <3>9, <3>10 DEF Settle
      <4> QED BY <3>7, <4>1 DEF EndedRow
    <3>11. ASSUME Cutover PROVE FALSE
      <4>1. row'[o] = Ended(row[o], "CUT_OVER") BY <3>9, <3>11 DEF Cutover
      <4> QED BY <3>7, <4>1 DEF EndedRow
    <3>12. ASSUME NEW p \in Quotes, Exit(p) PROVE FALSE
      <4>1. row' = [row EXCEPT ![p] = Ended(row[p], "EXITED")] BY <3>12 DEF Exit
      <4>2. p = o => row'[o] = Ended(row[o], "EXITED") BY <2>0, <4>1 DEF RowTypes
      <4>3. p # o => row'[o] = row[o] BY <2>0, <4>1 DEF RowTypes
      <4> QED BY <3>7, <4>2, <4>3 DEF EndedRow
    <3>8. ASSUME Apply PROVE FALSE
      <4>1. o \in Resting BY DEF Resting
      <4>2. row'[o] = Credited(row[o], o, Novel(pass.tape)[o]) BY <3>8, <4>1 DEF Apply
      <4>3. row'[o].status \in {"FILLED", row[o].status}
        <5> DEFINE fl == row[o].filled + Total(Novel(pass.tape)[o], "fill")
                   qu == row[o].queue - Total(Novel(pass.tape)[o], "queue")
                   st == IF fl = QuoteTerms[o].quantity THEN "FILLED" ELSE row[o].status
        <5>1. row'[o] = [row[o] EXCEPT !.filled = fl, !.queue = qu, !.status = st] BY <4>2 DEF Credited
        <5>2. st \in {"FILLED", row[o].status} OBVIOUS
        <5> HIDE DEF fl, qu, st
        <5>3. row'[o].status = st BY <2>0, <5>1 DEF RowTypes, RowType
        <5> QED BY <5>2, <5>3
      <4> QED BY <4>3
    <3> QED BY <3>2, <3>3, <3>4, <3>5, <3>6, <3>8, <3>10, <3>11, <3>12 DEF TapeNext
  <2>2. /\ pass.pc = "applied" /\ pass.complete /\ o \in Resting /\ pass.through >= row[o].expires + Grace
    BY <2>1 DEF Expire, Due, Covers
  <2> DEFINE all == {t \in Trades : executed[t] # 0}
  <2>3. \A t \in Trades : Done(t, o)
    <3> SUFFICES ASSUME NEW t \in Trades, DuringLife(t, o) PROVE Done(t, o) BY DEF Done
    <3>1. /\ executed[t] \in Nat /\ row[o].placed \in Nat /\ row[o].expires \in Nat
          /\ pass.through \in Nat /\ pass.from \in Nat
      BY <2>0 DEF RowTypes, RowType, TapeInv, QueryInv, PassType
    <3>2. executed[t] > row[o].placed /\ executed[t] <= row[o].expires BY DEF DuringLife
    <3>3. executed[t] # 0 /\ executed[t] + Grace <= pass.through BY <2>2, <3>1, <3>2, TimeAssumption
    <3>4. pass.from <= row[o].placed \/ pass.through <= row[o].placed BY <2>2 DEF TapeInv, QueryInv
    <3>5. pass.from <= executed[t] BY <3>1, <3>2, <3>3, <3>4, TimeAssumption
    <3>6. t \in pass.tape BY <2>2, <3>3, <3>5 DEF TapeInv, QueryInv
    <3> QED BY <2>2, <3>6 DEF TapeInv, AppliedInv
  <2>4. all \in SUBSET Trades OBVIOUS
  <2> HIDE DEF all
  <2>5. Novel(all)[o] = [t \in Trades |-> Nothing] BY <2>3, <2>4, NothingNew
  <2> QED BY <2>5 DEF Uncredited, all
<1> QED BY <1>1, TapeInvariant, PTL DEF TapeSpec, ExpiryLosesNothing

(* Price-time priority: a batch of apply_maker_trade_batch gives a quote shares *)
(* of a trade only when the quotes of its account that go before it, by price,  *)
(* by age and by id, could take no more of that trade for themselves or for     *)
(* the queue ahead of them.                                                     *)
THEOREM PriorityCorrect == TapeSpec => PriceTimePriority
<1> DEFINE Prior == \A t \in Trades, o, p \in Quotes :
                      /\ allocations'[p][t] # allocations[p][t]
                      /\ o \in Resting /\ Scope(o) = Scope(p) /\ Priority(o, p)
                      => CannotTake(t, o)'
<1>1. TapeInv /\ [TapeNext]_tapeVars => [Prior]_tapeVars
  <2> SUFFICES ASSUME TapeInv, TapeNext, NEW t \in Trades, NEW o \in Quotes, NEW p \in Quotes,
                      allocations'[p][t] # allocations[p][t], o \in Resting, Scope(o) = Scope(p),
                      Priority(o, p)
               PROVE  CannotTake(t, o)'
    OBVIOUS
  <2>1. Apply
    BY DEF TapeNext, Tick, Execute, Publish, Close, Place, Pull, Expire, Exit, Cutover, Settle, BeginPass, Fetch,
           FetchFails, EndPass, Crash
  <2> DEFINE A == Allocated(pass.tape)
  <2>2. pass.tape \in SUBSET Trades BY DEF TapeInv, QueryInv, PassType
  <2>3. Sound(A, Start, pass.tape \X Resting) BY <2>2, Credits
  <2>4. Novel(pass.tape)[p][t] # Nothing BY <2>1 DEF Apply
  <2>5. p \in Resting /\ t \in pass.tape /\ A.got[p][t] # Nothing BY <2>2, <2>4, Credits
  <2>6. Blocked(A, t, o) BY <2>3, <2>5 DEF Sound, Ordered
  <2>7. GivesTo(A, o) BY <2>1, ApplyGives
  <2>8. executed' = executed BY <2>1 DEF Apply
  <2> HIDE DEF A
  <2>9. DuringLife(t, o)' <=> DuringLife(t, o) BY <2>7, <2>8 DEF DuringLife, GivesTo
  <2> QED BY <2>6, <2>7, <2>9 DEF Blocked, CannotTake, GivesTo, Reaches
<1> QED BY <1>1, TapeInvariant, PTL DEF TapeSpec, PriceTimePriority

=============================================================================
