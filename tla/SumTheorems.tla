---------------------------- MODULE SumTheorems ----------------------------
(***************************************************************************)
(* Sums over finite sets.  MapThenSumSet is defined by recursion over the  *)
(* subsets of a set; each fact here about it is proved by looking at a     *)
(* smallest subset at which it would fail: the induction theorems of the   *)
(* library take an operator for a parameter, this takes a set.             *)
(***************************************************************************)
EXTENDS Integers, FiniteSetsExt, FiniteSetTheorems, WellFoundedInduction, TLAPS

(* The sum of the values of the function d over the set S. *)
Sum(d, S) == MapThenSumSet(LAMBDA x : d[x], S)

(* f is the recursive function that MapThenSumSet is made of. *)
Pick(T) == CHOOSE x \in T : TRUE
SumStep(d, f, T) == IF T = {} THEN 0 ELSE d[Pick(T)] + f[T \ {Pick(T)}]
IsSumFn(f, d, S) == f = [T \in SUBSET S |-> SumStep(d, f, T)]

Integral(d, S) == \A x \in S : d[x] \in Int

(* A nonempty set of natural numbers has a least element. *)
LEMMA LeastNatural ==
    ASSUME NEW B \in SUBSET Nat, B # {}
    PROVE  \E n \in B : \A m \in B : n <= m
<1>1. PICK n \in B : \A m \in B : <<m, n>> \notin OpToRel(<, Nat)
  BY NatLessThanWellFounded, WFMin, Zenon
<1>2. \A m \in B : ~(m < n)
  BY <1>1, Zenon DEF OpToRel
<1> QED
  BY <1>2

(* A nonempty set of subsets of a finite set has a smallest one. *)
LEMMA SmallestSubset ==
    ASSUME NEW S, IsFiniteSet(S), NEW B \in SUBSET SUBSET S, B # {}
    PROVE  \E T \in B : \A U \in SUBSET T : U # T => U \notin B
<1> DEFINE N == {Cardinality(T) : T \in B}
<1>1. \A T \in SUBSET S : IsFiniteSet(T) /\ Cardinality(T) \in Nat
  BY FS_Subset, FS_CardinalityType
<1>2. PICK n \in N : \A m \in N : n <= m
  <2>1. N \in SUBSET Nat /\ N # {}
    BY <1>1
  <2> HIDE DEF N
  <2> QED
    BY <2>1, LeastNatural
<1>3. PICK T \in B : n = Cardinality(T)
  BY <1>2
<1>4. ASSUME NEW U \in SUBSET T, U # T, U \in B PROVE FALSE
  <2>1. Cardinality(T) <= Cardinality(U)
    BY <1>2, <1>3, <1>4
  <2>2. Cardinality(U) <= Cardinality(T) /\ (Cardinality(T) = Cardinality(U) => T = U)
    BY <1>1, FS_Subset
  <2> QED
    BY <1>1, <1>4, <2>1, <2>2
<1> QED
  BY <1>4

(* The element picked from a nonempty set is one of its elements. *)
LEMMA PickIsElement == \A T : T # {} => Pick(T) \in T
BY DEF Pick

(* Two recursive functions that agree on S agree on its subsets. *)
LEMMA SumFnUnique ==
    ASSUME NEW S, IsFiniteSet(S), NEW T \in SUBSET S, NEW d, NEW f, NEW g,
           IsSumFn(f, d, S), IsSumFn(g, d, T)
    PROVE  f[T] = g[T]
<1> DEFINE B == {U \in SUBSET T : f[U] # g[U]}
<1>1. SUFFICES ASSUME B # {} PROVE FALSE
  OBVIOUS
<1>2. PICK U \in B : \A V \in SUBSET U : V # U => V \notin B
  <2>1. IsFiniteSet(T) /\ B \in SUBSET SUBSET T
    BY FS_Subset
  <2> HIDE DEF B
  <2> QED
    BY <1>1, <2>1, SmallestSubset
<1>3. f[U] = SumStep(d, f, U) /\ g[U] = SumStep(d, g, U)
  BY DEF IsSumFn
<1>4. CASE U = {}
  BY <1>3, <1>4 DEF SumStep
<1>5. CASE U # {}
  <2>1. f[U \ {Pick(U)}] = g[U \ {Pick(U)}]
    BY <1>2, <1>5, PickIsElement
  <2> QED
    BY <1>2, <1>3, <1>5, <2>1 DEF SumStep
<1> QED
  BY <1>4, <1>5

(* There is such a function: one that is right on the subsets of at most n *)
(* elements can be made right on those of n + 1.                           *)
LEMMA SumFnExists ==
    ASSUME NEW S, IsFiniteSet(S), NEW d
    PROVE  \E f : IsSumFn(f, d, S)
<1> DEFINE Upto(n) == {T \in SUBSET S : Cardinality(T) <= n}
           Right(f, n) == /\ f = [T \in SUBSET S |-> f[T]]
                          /\ \A T \in Upto(n) : f[T] = SumStep(d, f, T)
           B == {n \in Nat : ~ \E f : Right(f, n)}
<1>0. \A T \in SUBSET S : IsFiniteSet(T) /\ Cardinality(T) \in Nat
                          /\ Cardinality(T) <= Cardinality(S)
  BY FS_Subset, FS_CardinalityType
<1>1. B = {}
  <2> SUFFICES ASSUME B # {} PROVE FALSE
    OBVIOUS
  <2>1. PICK n \in B : \A m \in B : n <= m
    <3>1. B \in SUBSET Nat
      OBVIOUS
    <3> HIDE DEF B
    <3> QED
      BY <3>1, LeastNatural
  <2>2. CASE n = 0
    <3> DEFINE f == [T \in SUBSET S |-> 0]
    <3>1. \A T \in Upto(0) : T = {}
      BY <1>0, FS_EmptySet
    <3>2. Right(f, 0)
      BY <3>1 DEF SumStep
    <3> QED
      BY <2>1, <2>2, <3>2
  <2>3. CASE n # 0
    <3>0. n \in Nat
      OBVIOUS
    <3>1. n - 1 \in Nat /\ n - 1 \notin B
      <4> HIDE DEF B
      <4> QED
        BY <2>1, <2>3, <3>0
    <3>2. PICK f : Right(f, n - 1)
      BY <3>1
    <3> DEFINE h == [T \in SUBSET S |-> IF Cardinality(T) <= n - 1 THEN f[T]
                                        ELSE SumStep(d, f, T)]
    <3>3. ASSUME NEW T \in Upto(n), T # {}
          PROVE  h[T \ {Pick(T)}] = f[T \ {Pick(T)}]
      <4>1. T \ {Pick(T)} \in SUBSET S /\ Pick(T) \in T
        BY <3>3, PickIsElement
      <4>2. Cardinality(T \ {Pick(T)}) = Cardinality(T) - 1
        BY <1>0, <4>1, FS_RemoveElement
      <4>3. Cardinality(T \ {Pick(T)}) <= n - 1
        BY <1>0, <3>1, <4>2
      <4> QED
        BY <4>1, <4>3
    <3>4. ASSUME NEW T \in Upto(n) PROVE h[T] = SumStep(d, h, T)
      <4>1. SumStep(d, h, T) = SumStep(d, f, T)
        BY <3>3 DEF SumStep
      <4>2. h[T] = SumStep(d, f, T)
        BY <3>2
      <4> QED
        BY <4>1, <4>2
    <3>5. Right(h, n)
      BY <3>4
    <3> QED
      BY <2>1, <3>5
  <2> QED
    BY <2>2, <2>3
<1>2. PICK f : Right(f, Cardinality(S))
  BY <1>0, <1>1
<1>3. \A T \in SUBSET S : T \in Upto(Cardinality(S))
  BY <1>0
<1>4. f = [T \in SUBSET S |-> SumStep(d, f, T)]
  BY <1>2, <1>3
<1> QED
  BY <1>4 DEF IsSumFn

(* The sum is the value of such a function. *)
LEMMA SumIsValue ==
    ASSUME NEW S, IsFiniteSet(S), NEW d, NEW T \in SUBSET S,
           NEW f, IsSumFn(f, d, S)
    PROVE  Sum(d, T) = f[T]
<1> DEFINE g == CHOOSE g : IsSumFn(g, d, T)
<1>1. IsFiniteSet(T)
  BY FS_Subset
<1>2. IsSumFn(g, d, T)
  BY <1>1, SumFnExists
<1>3. Sum(d, T) = g[T]
  BY DEF Sum, MapThenSumSet, MapThenFoldSet, IsSumFn, SumStep, Pick
<1> HIDE DEF g
<1> QED
  BY <1>2, <1>3, SumFnUnique

(* The empty sum, and what the definition does with any other. *)
LEMMA SumUnfold ==
    ASSUME NEW S, IsFiniteSet(S), NEW d
    PROVE  Sum(d, S) = IF S = {} THEN 0 ELSE d[Pick(S)] + Sum(d, S \ {Pick(S)})
<1>1. PICK f : IsSumFn(f, d, S)
  BY SumFnExists
<1>2. \A T \in SUBSET S : Sum(d, T) = f[T]
  BY <1>1, SumIsValue
<1>3. f[S] = SumStep(d, f, S)
  BY <1>1 DEF IsSumFn
<1>4. S \in SUBSET S /\ S \ {Pick(S)} \in SUBSET S
  OBVIOUS
<1> QED
  BY <1>2, <1>3, <1>4 DEF SumStep

(* A sum of integers is an integer. *)
LEMMA SumType ==
    ASSUME NEW S, IsFiniteSet(S), NEW d, Integral(d, S)
    PROVE  \A T \in SUBSET S : Sum(d, T) \in Int
<1> DEFINE B == {T \in SUBSET S : Sum(d, T) \notin Int}
<1>1. SUFFICES ASSUME B # {} PROVE FALSE
  OBVIOUS
<1>2. PICK T \in B : \A U \in SUBSET T : U # T => U \notin B
  <2>1. B \in SUBSET SUBSET S
    OBVIOUS
  <2> HIDE DEF B
  <2> QED
    BY <1>1, <2>1, SmallestSubset
<1>3. IsFiniteSet(T)
  BY FS_Subset
<1>4. CASE T = {}
  BY <1>3, <1>4, SumUnfold
<1>5. CASE T # {}
  <2>1. Pick(T) \in T
    BY <1>5, PickIsElement
  <2>2. Sum(d, T \ {Pick(T)}) \in Int
    BY <1>2, <2>1
  <2>3. d[Pick(T)] \in Int
    BY <2>1 DEF Integral
  <2>4. Sum(d, T) = d[Pick(T)] + Sum(d, T \ {Pick(T)})
    BY <1>3, <1>5, SumUnfold
  <2> QED
    BY <2>2, <2>3, <2>4
<1> QED
  BY <1>4, <1>5

(* Any element can be taken out of a sum. *)
LEMMA SumSplit ==
    ASSUME NEW S, IsFiniteSet(S), NEW d, Integral(d, S), NEW x \in S
    PROVE  Sum(d, S) = d[x] + Sum(d, S \ {x})
<1> DEFINE Splits(T) == \A y \in T : Sum(d, T) = d[y] + Sum(d, T \ {y})
           B == {T \in SUBSET S : ~ Splits(T)}
<1>1. SUFFICES ASSUME B # {} PROVE FALSE
  OBVIOUS
<1>2. PICK T \in B : \A U \in SUBSET T : U # T => U \notin B
  <2>1. B \in SUBSET SUBSET S
    OBVIOUS
  <2> HIDE DEF B
  <2> QED
    BY <1>1, <2>1, SmallestSubset
<1>3. PICK y \in T : Sum(d, T) # d[y] + Sum(d, T \ {y})
  OBVIOUS
<1>4. IsFiniteSet(T) /\ T # {}
  BY <1>3, FS_Subset
<1> DEFINE p == Pick(T)
<1>5. p \in T
  BY <1>4, PickIsElement
<1>6. Sum(d, T) = d[p] + Sum(d, T \ {p})
  BY <1>4, SumUnfold
<1>7. p # y
  BY <1>3, <1>6
<1>8. Splits(T \ {p}) /\ Splits(T \ {y})
  BY <1>2, <1>5
<1>9. /\ Sum(d, T \ {p}) = d[y] + Sum(d, (T \ {p}) \ {y})
      /\ Sum(d, T \ {y}) = d[p] + Sum(d, (T \ {y}) \ {p})
  BY <1>5, <1>7, <1>8
<1>10. (T \ {p}) \ {y} = (T \ {y}) \ {p}
  OBVIOUS
<1>11. Sum(d, (T \ {p}) \ {y}) \in Int /\ d[p] \in Int /\ d[y] \in Int
  BY <1>5, SumType DEF Integral
<1> DEFINE r == Sum(d, (T \ {p}) \ {y})
<1>12. /\ Sum(d, T) = d[p] + (d[y] + r)
       /\ Sum(d, T \ {y}) = d[p] + r
  BY <1>6, <1>9, <1>10
<1>13. r \in Int /\ d[p] \in Int /\ d[y] \in Int
  BY <1>11
<1> HIDE DEF p, r, Splits, B
<1>14. d[p] + (d[y] + r) = d[y] + (d[p] + r)
  BY <1>13
<1> QED
  BY <1>3, <1>12, <1>14

(* A sum depends only on the values at its elements. *)
LEMMA SumSame ==
    ASSUME NEW S, IsFiniteSet(S), NEW d, NEW e, Integral(d, S),
           \A x \in S : d[x] = e[x]
    PROVE  Sum(d, S) = Sum(e, S)
<1> DEFINE B == {T \in SUBSET S : Sum(d, T) # Sum(e, T)}
<1>1. SUFFICES ASSUME B # {} PROVE FALSE
  OBVIOUS
<1>2. PICK T \in B : \A U \in SUBSET T : U # T => U \notin B
  <2>1. B \in SUBSET SUBSET S
    OBVIOUS
  <2> HIDE DEF B
  <2> QED
    BY <1>1, <2>1, SmallestSubset
<1>3. IsFiniteSet(T)
  BY FS_Subset
<1>4. /\ Sum(d, T) = IF T = {} THEN 0 ELSE d[Pick(T)] + Sum(d, T \ {Pick(T)})
      /\ Sum(e, T) = IF T = {} THEN 0 ELSE e[Pick(T)] + Sum(e, T \ {Pick(T)})
  BY <1>3, SumUnfold
<1>5. CASE T = {}
  BY <1>4, <1>5
<1>6. CASE T # {}
  <2>1. Pick(T) \in T
    BY <1>6, PickIsElement
  <2>2. Sum(d, T \ {Pick(T)}) = Sum(e, T \ {Pick(T)})
    BY <1>2, <2>1
  <2> QED
    BY <1>4, <1>6, <2>1, <2>2
<1> QED
  BY <1>5, <1>6

(* One value raised by one raises the sum by one. *)
LEMMA SumRaise ==
    ASSUME NEW S, IsFiniteSet(S), NEW d, NEW e, Integral(d, S), NEW x \in S,
           e[x] = d[x] + 1, \A y \in S : y # x => e[y] = d[y]
    PROVE  Sum(e, S) = Sum(d, S) + 1
<1>1. IsFiniteSet(S \ {x}) /\ Integral(d, S \ {x}) /\ Integral(e, S)
  BY FS_Subset DEF Integral
<1>2. Sum(d, S \ {x}) = Sum(e, S \ {x})
  BY <1>1, SumSame
<1>3. Sum(d, S) = d[x] + Sum(d, S \ {x}) /\ Sum(e, S) = e[x] + Sum(e, S \ {x})
  BY <1>1, SumSplit
<1>4. d[x] \in Int /\ Sum(d, S \ {x}) \in Int
  BY SumType DEF Integral
<1> QED
  BY <1>2, <1>3, <1>4

(* Elements of value zero may be left out. *)
LEMMA SumOfSpenders ==
    ASSUME NEW S, IsFiniteSet(S), NEW d, Integral(d, S), NEW T \in SUBSET S,
           \A x \in S \ T : d[x] = 0
    PROVE  Sum(d, T) = Sum(d, S)
<1> DEFINE B == {U \in SUBSET S : Sum(d, U) # Sum(d, U \cap T)}
<1>1. SUFFICES ASSUME B # {} PROVE FALSE
  <2>1. S \cap T = T /\ S \in SUBSET S
    OBVIOUS
  <2> QED
    BY <2>1
<1>2. PICK U \in B : \A V \in SUBSET U : V # U => V \notin B
  <2>1. B \in SUBSET SUBSET S
    OBVIOUS
  <2> HIDE DEF B
  <2> QED
    BY <1>1, <2>1, SmallestSubset
<1>3. PICK x \in U : x \notin T
  <2>1. U # U \cap T
    OBVIOUS
  <2> QED
    BY <2>1
<1>4. IsFiniteSet(U) /\ Integral(d, U)
  BY FS_Subset DEF Integral
<1>5. Sum(d, U) = d[x] + Sum(d, U \ {x})
  BY <1>4, SumSplit
<1>6. Sum(d, U \ {x}) = Sum(d, (U \ {x}) \cap T)
  BY <1>2, <1>3
<1>7. (U \ {x}) \cap T = U \cap T
  BY <1>3
<1>8. d[x] = 0 /\ Sum(d, U \ {x}) \in Int
  BY <1>3, SumType
<1>9. Sum(d, U) # Sum(d, U \cap T)
  OBVIOUS
<1> HIDE DEF B
<1>10. Sum(d, U) = Sum(d, U \ {x})
  BY <1>5, <1>8
<1> QED
  BY <1>6, <1>7, <1>9, <1>10

(* A sum of natural numbers is one. *)
LEMMA SumOfNaturals ==
    ASSUME NEW S, IsFiniteSet(S), NEW d, \A x \in S : d[x] \in Nat
    PROVE  Sum(d, S) \in Nat
<1> DEFINE B == {T \in SUBSET S : Sum(d, T) \notin Nat}
<1>1. SUFFICES ASSUME B # {} PROVE FALSE
  <2>1. S \in SUBSET S
    OBVIOUS
  <2> QED
    BY <2>1
<1>2. PICK T \in B : \A U \in SUBSET T : U # T => U \notin B
  <2>1. B \in SUBSET SUBSET S
    OBVIOUS
  <2> HIDE DEF B
  <2> QED
    BY <1>1, <2>1, SmallestSubset
<1>3. Sum(d, T) = IF T = {} THEN 0 ELSE d[Pick(T)] + Sum(d, T \ {Pick(T)})
  BY FS_Subset, SumUnfold
<1>4. CASE T = {}
  BY <1>3, <1>4
<1>5. CASE T # {}
  <2>1. Pick(T) \in T
    BY <1>5, PickIsElement
  <2>2. Sum(d, T \ {Pick(T)}) \in Nat
    BY <1>2, <2>1
  <2>3. d[Pick(T)] \in Nat
    BY <2>1
  <2>4. d[Pick(T)] + Sum(d, T \ {Pick(T)}) \in Nat
    BY <2>2, <2>3
  <2>5. Sum(d, T) \in Nat
    BY <1>3, <1>5, <2>4
  <2> QED
    BY <2>5
<1> QED
  BY <1>4, <1>5

(* A finite nonempty set of integers has a greatest element: Max. *)
LEMMA MaxIsGreatest ==
    ASSUME NEW S \in SUBSET Int, IsFiniteSet(S), S # {}
    PROVE  Max(S) \in S /\ \A n \in S : n <= Max(S)
<1> DEFINE Bounded(T) == \E m \in T : \A n \in T : n <= m
           B == {T \in SUBSET S : T # {} /\ ~ Bounded(T)}
<1>1. SUFFICES ASSUME B # {} PROVE FALSE
  <2>1. Bounded(S)
    OBVIOUS
  <2>2. PICK m \in S : \A n \in S : m >= n
    BY <2>1
  <2>3. Max(S) \in S /\ \A n \in S : Max(S) >= n
    BY <2>2 DEF Max
  <2> QED
    BY <2>3
<1>2. PICK T \in B : \A U \in SUBSET T : U # T => U \notin B
  <2>1. B \in SUBSET SUBSET S
    OBVIOUS
  <2> HIDE DEF B
  <2> QED
    BY <1>1, <2>1, SmallestSubset
<1>3. PICK m \in T : TRUE
  OBVIOUS
<1>4. CASE T \ {m} = {}
  <2>1. \A n \in T : n <= m
    BY <1>4
  <2> QED
    BY <2>1
<1>5. CASE T \ {m} # {}
  <2>1. T \ {m} \notin B
    BY <1>2, <1>3
  <2>2. PICK k \in T \ {m} : \A n \in T \ {m} : n <= k
    BY <1>5, <2>1
  <2>3. k \in T /\ k \in Int /\ m \in Int /\ T \in SUBSET Int
    OBVIOUS
  <2>4. \A n \in T : n <= IF m <= k THEN k ELSE m
    BY <2>2, <2>3
  <2> QED
    BY <2>3, <2>4
<1> QED
  BY <1>4, <1>5

(* What a function on a finite set takes for values is a finite set. *)
LEMMA FiniteImage ==
    ASSUME NEW D, IsFiniteSet(D), NEW f, f = [i \in D |-> f[i]]
    PROVE  IsFiniteSet({f[i] : i \in D})
<1>1. f \in Surjection(D, {f[i] : i \in D})
  BY DEF Surjection
<1> QED
  BY <1>1, FS_Surjection

============================================================================
