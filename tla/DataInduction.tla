---------------------------- MODULE DataInduction ----------------------------
(***************************************************************************)
(* Induction over data in a form the provers can use, the members of a     *)
(* finite set of numbers counted off in their order, what a sum over a     *)
(* finite set is, and how the days of the calendar are numbered.           *)
(*                                                                         *)
(* The library's induction theorems take the statement as an operator;     *)
(* here it is a set, the set of the numbers it holds for, so a proof names *)
(* that set and no operator is passed.  SumFunctionOnSet of the community  *)
(* module Functions is a fold by a recursive function; that the function   *)
(* exists, and that the order it takes the elements in does not matter,    *)
(* is proved by that induction on the number of elements.  SumByKey says   *)
(* that a sum may be taken key by key, as bars of a chart or categories    *)
(* do.  DayNumberOfDate and MonthsInOrder are about PayrollCalendar: the   *)
(* months follow each other without a gap, leap years included.            *)
(***************************************************************************)
EXTENDS PayrollCalendar, FiniteSets, Functions, FiniteSetTheorems, WellFoundedInduction, TLAPS

-----------------------------------------------------------------------------
\* A set of natural numbers that is not empty has a least element.
LEMMA LeastNat ==
  ASSUME NEW T \in SUBSET Nat, T # {}
  PROVE  \E n \in T : \A m \in T : n <= m
  <1>1. PICK n \in T : \A m \in T : ~(<<m, n>> \in OpToRel(<, Nat))
    BY NatLessThanWellFounded, WFMin
  <1>2. \A m \in T : ~(m < n)
    BY <1>1 DEF OpToRel
  <1> QED
    BY <1>2

\* A set that holds zero and the successor of each of its numbers holds all.
LEMMA SetInduction ==
  ASSUME NEW T, 0 \in T, \A n \in Nat : n \in T => n + 1 \in T
  PROVE  Nat \subseteq T
  <1> SUFFICES ASSUME ~(Nat \subseteq T) PROVE FALSE
    OBVIOUS
  <1>1. PICK n \in Nat \ T : \A m \in Nat \ T : n <= m
    BY LeastNat
  <1>2. n # 0 /\ n - 1 \in Nat
    BY <1>1
  <1>3. n - 1 \in T
    BY <1>1, <1>2
  <1> QED
    BY <1>1, <1>2, <1>3

-----------------------------------------------------------------------------
\* The members of a finite set of numbers can be counted off, the least first:
\* for every n up to their number, one of them has n members up to itself, and
\* only that one.
LEMMA CountedOff ==
  ASSUME NEW S \in SUBSET Nat, IsFiniteSet(S), NEW U,
         \A i \in S : U[i] \in SUBSET S /\ \A j \in S : j \in U[i] <=> j <= i
  PROVE  /\ Cardinality(S) \in Nat
         /\ \A i \in S : Cardinality(U[i]) \in 1..Cardinality(S)
         /\ \A i, j \in S : Cardinality(U[i]) = Cardinality(U[j]) => i = j
         /\ \A n \in 1..Cardinality(S) : \E i \in S : Cardinality(U[i]) = n
  <1> DEFINE N == Cardinality(S)
             rank == [i \in S |-> Cardinality(U[i])]
  <1>1. N \in Nat
    BY FS_CardinalityType
  <1>2. \A i \in S : /\ IsFiniteSet(U[i]) /\ Cardinality(U[i]) \in Nat
                     /\ Cardinality(U[i]) <= N /\ Cardinality(U[i]) # 0
    <2> SUFFICES ASSUME NEW i \in S
                 PROVE  /\ IsFiniteSet(U[i]) /\ Cardinality(U[i]) \in Nat
                        /\ Cardinality(U[i]) <= N /\ Cardinality(U[i]) # 0
      OBVIOUS
    <2>1. U[i] \in SUBSET S /\ i \in U[i]
      OBVIOUS
    <2>2. IsFiniteSet(U[i]) /\ Cardinality(U[i]) <= N /\ Cardinality(U[i]) \in Nat
      BY <2>1, FS_Subset, FS_CardinalityType
    <2> QED
      BY <2>1, <2>2, FS_EmptySet
  <1>3. \A i, j \in S : i < j => Cardinality(U[i]) < Cardinality(U[j])
    <2> SUFFICES ASSUME NEW i \in S, NEW j \in S, i < j
                 PROVE  Cardinality(U[i]) < Cardinality(U[j])
      OBVIOUS
    <2>1. \A k \in S : k <= i => k <= j
      <3>1. i \in Int /\ j \in Int /\ \A k \in S : k \in Int
        OBVIOUS
      <3> QED
        BY <3>1
    <2>2. U[i] \in SUBSET U[j] /\ j \in U[j] /\ j \notin U[i]
      <3>1. j <= j /\ ~(j <= i)
        OBVIOUS
      <3>2. j \in U[j] /\ j \notin U[i]
        BY <3>1
      <3>3. \A k \in U[i] : k \in S /\ k <= i
        OBVIOUS
      <3> QED
        BY <2>1, <3>2, <3>3
    <2>3. IsFiniteSet(U[j]) /\ Cardinality(U[i]) \in Nat /\ Cardinality(U[j]) \in Nat
      BY <1>2
    <2> QED
      BY <2>2, <2>3, FS_Subset
  <1>4. \A i \in S : Cardinality(U[i]) \in 1..N
    BY <1>1, <1>2
  <1>5. \A i, j \in S : Cardinality(U[i]) = Cardinality(U[j]) => i = j
    <2> SUFFICES ASSUME NEW i \in S, NEW j \in S, Cardinality(U[i]) = Cardinality(U[j])
                 PROVE  i = j
      OBVIOUS
    <2>1. i \in Int /\ j \in Int /\ Cardinality(U[i]) \in Nat
      BY <1>2
    <2>2. ~(i < j) /\ ~(j < i)
      BY <1>3, <2>1
    <2> QED
      BY ONLY <2>1, <2>2
  <1>6. rank \in Injection(S, 1..N)
    BY <1>4, <1>5 DEF Injection, IsInjective
  <1>7. IsFiniteSet(1..N) /\ Cardinality(1..N) = N
    BY <1>1, FS_Interval
  <1>8. rank \in Surjection(S, 1..N)
    <2> HIDE DEF rank
    <2> QED
      BY <1>6, <1>7, FS_Injection
  <1> QED
    BY <1>1, <1>4, <1>5, <1>8 DEF Surjection

-----------------------------------------------------------------------------
\* The element a fold takes first.
Picked(s) == CHOOSE x \in s : TRUE

\* g adds f up over every set of D, an element at a time.
Adds(g, f, D) ==
  g = [s \in D |-> IF s = {} THEN 0 ELSE f[Picked(s)] + g[s \ {Picked(s)}]]

LEMMA PickedIn ==
  ASSUME NEW s, s # {}
  PROVE  Picked(s) \in s
  BY DEF Picked

LEMMA FewerElements ==
  ASSUME NEW s, IsFiniteSet(s), s # {}
  PROVE  /\ IsFiniteSet(s \ {Picked(s)})
         /\ Cardinality(s) \in Nat /\ Cardinality(s \ {Picked(s)}) \in Nat
         /\ Cardinality(s) = Cardinality(s \ {Picked(s)}) + 1
  BY PickedIn, FS_RemoveElement, FS_CardinalityType

LEMMA OneFewer ==
  ASSUME NEW s, IsFiniteSet(s), NEW x \in s, NEW n \in Nat, Cardinality(s) = n + 1
  PROVE  Cardinality(s \ {x}) = n
  <1>1. IsFiniteSet(s \ {x}) /\ Cardinality(s \ {x}) = Cardinality(s) - 1
    BY FS_RemoveElement
  <1> QED
    BY <1>1

LEMMA TakeOne ==
  ASSUME NEW s, IsFiniteSet(s), NEW n \in Nat, Cardinality(s) = n + 1
  PROVE  /\ s # {} /\ Picked(s) \in s
         /\ Cardinality(s \ {Picked(s)}) = n
  <1>1. Cardinality({}) = 0
    BY FS_EmptySet
  <1>2. s # {}
    BY <1>1
  <1> QED
    BY <1>2, PickedIn, OneFewer

\* Such a function exists on the subsets of a finite set.
LEMMA AddsExists ==
  ASSUME NEW f, NEW S, IsFiniteSet(S)
  PROVE  \E g : Adds(g, f, SUBSET S)
  <1> DEFINE D(n) == {s \in SUBSET S : Cardinality(s) <= n}
             T == {n \in Nat : \E g : Adds(g, f, D(n))}
  <1>1. \A s \in SUBSET S : IsFiniteSet(s) /\ Cardinality(s) \in Nat
    BY FS_Subset, FS_CardinalityType
  <1>2. \A n \in Nat : \A s \in D(n + 1) : s # {} => s \ {Picked(s)} \in D(n)
    BY <1>1, FewerElements
  <1>3. 0 \in T
    <2>1. \A s \in D(0) : s = {}
      BY <1>1, FS_EmptySet
    <2>2. Adds([s \in D(0) |-> 0], f, D(0))
      BY <2>1 DEF Adds
    <2> QED
      BY <2>2
  <1>4. ASSUME NEW n \in Nat, n \in T
        PROVE  n + 1 \in T
    <2>1. PICK g : Adds(g, f, D(n))
      BY <1>4
    <2> DEFINE h == [s \in D(n + 1) |-> IF s = {} THEN 0
                                        ELSE f[Picked(s)] + g[s \ {Picked(s)}]]
    <2>2. \A s \in D(n) : s \in D(n + 1) /\ h[s] = g[s]
      <3>1. \A s \in D(n) : s \in D(n + 1)
        BY <1>1
      <3>2. \A s \in D(n) : g[s] = IF s = {} THEN 0 ELSE f[Picked(s)] + g[s \ {Picked(s)}]
        BY <2>1 DEF Adds
      <3> QED
        BY <3>1, <3>2
    <2>3. \A s \in D(n + 1) : s # {} => h[s \ {Picked(s)}] = g[s \ {Picked(s)}]
      BY <1>2, <2>2
    <2>4. Adds(h, f, D(n + 1))
      <3> DEFINE k == [s \in D(n + 1) |-> IF s = {} THEN 0
                                          ELSE f[Picked(s)] + h[s \ {Picked(s)}]]
      <3>1. \A s \in D(n + 1) : h[s] = k[s]
        BY <2>3
      <3>2. h = k
        BY <3>1
      <3> QED
        BY <3>2 DEF Adds
    <2> QED
      BY <2>4
  <1>5. Cardinality(S) \in T
    <2> HIDE DEF T
    <2> QED
      BY <1>1, <1>3, <1>4, SetInduction
  <1>6. D(Cardinality(S)) = SUBSET S
    BY FS_Subset, <1>1
  <1> QED
    BY <1>5, <1>6

\* Two of them agree wherever both are defined.
LEMMA AddsUnique ==
  ASSUME NEW f, NEW S, NEW T \in SUBSET S, IsFiniteSet(S),
         NEW g, NEW h, Adds(g, f, SUBSET S), Adds(h, f, SUBSET T)
  PROVE  g[T] = h[T]
  <1> DEFINE U == {n \in Nat : \A s \in SUBSET T : Cardinality(s) = n => g[s] = h[s]}
  <1>1. \A s \in SUBSET T : IsFiniteSet(s) /\ Cardinality(s) \in Nat
    BY FS_Subset, FS_CardinalityType
  <1>2. \A s \in SUBSET T :
          /\ g[s] = IF s = {} THEN 0 ELSE f[Picked(s)] + g[s \ {Picked(s)}]
          /\ h[s] = IF s = {} THEN 0 ELSE f[Picked(s)] + h[s \ {Picked(s)}]
    BY DEF Adds
  <1>3. 0 \in U
    BY <1>1, <1>2, FS_EmptySet
  <1>4. ASSUME NEW n \in Nat, n \in U
        PROVE  n + 1 \in U
    <2>1. SUFFICES ASSUME NEW s \in SUBSET T, Cardinality(s) = n + 1
                   PROVE  g[s] = h[s]
      OBVIOUS
    <2>2. s # {}
      BY <1>1, <2>1, TakeOne
    <2>3. s \ {Picked(s)} \in SUBSET T /\ Cardinality(s \ {Picked(s)}) = n
      BY <1>1, <2>1, TakeOne
    <2>4. g[s \ {Picked(s)}] = h[s \ {Picked(s)}]
      BY <1>4, <2>3
    <2> QED
      BY <1>2, <2>2, <2>4
  <1>5. Cardinality(T) \in U
    <2> HIDE DEF U
    <2> QED
      BY <1>1, <1>3, <1>4, SetInduction
  <1> QED
    BY <1>5

LEMMA SumIsAdds ==
  ASSUME NEW f, NEW S, IsFiniteSet(S)
  PROVE  \E g : Adds(g, f, SUBSET S) /\ SumFunctionOnSet(f, S) = g[S]
  <1> DEFINE G == CHOOSE g : Adds(g, f, SUBSET S)
  <1>1. SumFunctionOnSet(f, S) = G[S]
    BY DEF SumFunctionOnSet, FoldFunctionOnSet, MapThenFoldSet, Adds, Picked
  <1>2. Adds(G, f, SUBSET S)
    BY AddsExists
  <1> QED
    BY <1>1, <1>2

\* The sum over nothing is zero; over more, the element taken and the rest.
LEMMA SumUnfolds ==
  ASSUME NEW f, NEW S, IsFiniteSet(S)
  PROVE  SumFunctionOnSet(f, S) =
           IF S = {} THEN 0 ELSE f[Picked(S)] + SumFunctionOnSet(f, S \ {Picked(S)})
  <1>1. PICK g : Adds(g, f, SUBSET S) /\ SumFunctionOnSet(f, S) = g[S]
    BY SumIsAdds
  <1>2. g[S] = IF S = {} THEN 0 ELSE f[Picked(S)] + g[S \ {Picked(S)}]
    BY <1>1 DEF Adds
  <1>3. ASSUME S # {}
        PROVE  g[S \ {Picked(S)}] = SumFunctionOnSet(f, S \ {Picked(S)})
    <2> DEFINE R == S \ {Picked(S)}
    <2>1. R \in SUBSET S /\ IsFiniteSet(R)
      BY FS_Subset
    <2>2. PICK h : Adds(h, f, SUBSET R) /\ SumFunctionOnSet(f, R) = h[R]
      BY <2>1, SumIsAdds
    <2>3. Adds(g, f, SUBSET S)
      BY <1>1
    <2> HIDE DEF R
    <2>4. g[R] = h[R]
      BY <2>1, <2>2, <2>3, AddsUnique
    <2> QED
      BY <2>2, <2>4 DEF R
  <1> QED
    BY <1>1, <1>2, <1>3

LEMMA SumOfNothing ==
  ASSUME NEW f
  PROVE  SumFunctionOnSet(f, {}) = 0
  BY SumUnfolds, FS_EmptySet

\* A sum of integers is an integer.
LEMMA SumInt ==
  ASSUME NEW f, NEW S, IsFiniteSet(S), \A x \in S : f[x] \in Int
  PROVE  SumFunctionOnSet(f, S) \in Int
  <1> DEFINE Sum(s) == SumFunctionOnSet(f, s)
             U == {n \in Nat : \A s \in SUBSET S : Cardinality(s) = n => Sum(s) \in Int}
  <1>1. \A s \in SUBSET S : IsFiniteSet(s) /\ Cardinality(s) \in Nat
    BY FS_Subset, FS_CardinalityType
  <1>2. \A s \in SUBSET S : Sum(s) = IF s = {} THEN 0 ELSE f[Picked(s)] + Sum(s \ {Picked(s)})
    BY <1>1, SumUnfolds
  <1> HIDE DEF Sum
  <1>3. 0 \in U
    <2>1. \A s \in SUBSET S : Cardinality(s) = 0 => s = {}
      BY <1>1, FS_EmptySet
    <2>2. Sum({}) = 0
      BY <1>2
    <2> QED
      BY <2>1, <2>2
  <1>4. ASSUME NEW n \in Nat, n \in U
        PROVE  n + 1 \in U
    <2>1. SUFFICES ASSUME NEW s \in SUBSET S, Cardinality(s) = n + 1
                   PROVE  Sum(s) \in Int
      OBVIOUS
    <2>2. s # {}
      BY <1>1, <2>1, TakeOne
    <2>3. s \ {Picked(s)} \in SUBSET S /\ Cardinality(s \ {Picked(s)}) = n
      BY <1>1, <2>1, TakeOne
    <2>4. Sum(s \ {Picked(s)}) \in Int
      BY <1>4, <2>3
    <2>5. f[Picked(s)] \in Int
      BY <2>2, PickedIn
    <2> QED
      BY <1>2, <2>2, <2>4, <2>5
  <1>5. Cardinality(S) \in U
    <2> HIDE DEF U
    <2> QED
      BY <1>1, <1>3, <1>4, SetInduction
  <1> QED
    BY <1>5 DEF Sum

LEMMA SumNat ==
  ASSUME NEW f, NEW S, IsFiniteSet(S), \A x \in S : f[x] \in Nat
  PROVE  SumFunctionOnSet(f, S) \in Nat
  <1> DEFINE U == {n \in Nat : \A s \in SUBSET S : Cardinality(s) = n =>
                      SumFunctionOnSet(f, s) \in Nat}
  <1>1. \A s \in SUBSET S : IsFiniteSet(s) /\ Cardinality(s) \in Nat
    BY FS_Subset, FS_CardinalityType
  <1>2. 0 \in U
    <2>1. \A s \in SUBSET S : Cardinality(s) = 0 => s = {}
      BY <1>1, FS_EmptySet
    <2>2. SumFunctionOnSet(f, {}) = 0
      BY SumOfNothing
    <2> QED
      BY <2>1, <2>2
  <1>3. ASSUME NEW n \in Nat, n \in U
        PROVE  n + 1 \in U
    <2>1. SUFFICES ASSUME NEW s \in SUBSET S, Cardinality(s) = n + 1
                   PROVE  SumFunctionOnSet(f, s) \in Nat
      OBVIOUS
    <2>2. s # {} /\ Picked(s) \in s /\ Cardinality(s \ {Picked(s)}) = n
      BY <1>1, <2>1, TakeOne
    <2>3. SumFunctionOnSet(f, s \ {Picked(s)}) \in Nat
      BY <1>3, <2>2
    <2>4. SumFunctionOnSet(f, s) = f[Picked(s)] + SumFunctionOnSet(f, s \ {Picked(s)})
      BY <1>1, <2>2, SumUnfolds
    <2> QED
      BY <2>2, <2>3, <2>4
  <1>4. Cardinality(S) \in U
    <2> HIDE DEF U
    <2> QED
      BY <1>1, <1>2, <1>3, SetInduction
  <1> QED
    BY <1>4

\* Whatever element is taken out of it, the rest adds up to the rest.
LEMMA SumTakesAny ==
  ASSUME NEW f, NEW S, IsFiniteSet(S), \A x \in S : f[x] \in Int
  PROVE  \A x \in S : SumFunctionOnSet(f, S) = f[x] + SumFunctionOnSet(f, S \ {x})
  <1> DEFINE Sum(s) == SumFunctionOnSet(f, s)
             U == {n \in Nat : \A s \in SUBSET S : Cardinality(s) = n =>
                      \A x \in s : Sum(s) = f[x] + Sum(s \ {x})}
  <1>1. \A s \in SUBSET S : IsFiniteSet(s) /\ Cardinality(s) \in Nat
    BY FS_Subset, FS_CardinalityType
  <1>2. \A s \in SUBSET S : s # {} => Sum(s) = f[Picked(s)] + Sum(s \ {Picked(s)})
    BY <1>1, SumUnfolds
  <1>3. \A s \in SUBSET S : Sum(s) \in Int
    BY <1>1, SumInt
  <1> HIDE DEF Sum
  <1>4. 0 \in U
    <2>1. \A s \in SUBSET S : Cardinality(s) = 0 => s = {}
      BY <1>1, FS_EmptySet
    <2> QED
      BY <2>1
  <1>5. ASSUME NEW n \in Nat, n \in U
        PROVE  n + 1 \in U
    <2>1. SUFFICES ASSUME NEW s \in SUBSET S, Cardinality(s) = n + 1, NEW x \in s
                   PROVE  Sum(s) = f[x] + Sum(s \ {x})
      OBVIOUS
    <2> DEFINE c == Picked(s)
    <2>2. c \in s
      BY PickedIn
    <2>3. Sum(s) = f[c] + Sum(s \ {c})
      BY <1>2
    <2> HIDE DEF c
    <2>4. CASE x = c
      BY <2>3, <2>4
    <2>5. CASE x # c
      <3>1. Cardinality(s \ {c}) = n
        BY <1>1, <2>1, <2>2, OneFewer
      <3>2. Cardinality(s \ {x}) = n
        BY <1>1, <2>1, OneFewer
      <3>3. Sum(s \ {c}) = f[x] + Sum((s \ {c}) \ {x})
        BY <1>5, <2>5, <3>1
      <3>4. Sum(s \ {x}) = f[c] + Sum((s \ {x}) \ {c})
        BY <1>5, <2>2, <2>5, <3>2
      <3>5. Sum((s \ {c}) \ {x}) = Sum((s \ {x}) \ {c})
        <4>1. (s \ {c}) \ {x} = (s \ {x}) \ {c}
          OBVIOUS
        <4> QED
          BY <4>1
      <3>6. Sum((s \ {x}) \ {c}) \in Int /\ f[x] \in Int /\ f[c] \in Int
        BY <1>3, <2>2
      <3> QED
        <4>1. Sum(s) = f[c] + (f[x] + Sum((s \ {x}) \ {c}))
          BY <2>3, <3>3, <3>5
        <4> QED
          BY <3>4, <3>6, <4>1
    <2> QED
      BY <2>4, <2>5
  <1>6. Cardinality(S) \in U
    <2> HIDE DEF U
    <2> QED
      BY <1>1, <1>4, <1>5, SetInduction
  <1> QED
    BY <1>6 DEF Sum

\* Two functions that agree on a set have the same sum over it.
LEMMA SumSame ==
  ASSUME NEW f, NEW g, NEW S, IsFiniteSet(S), \A x \in S : f[x] = g[x]
  PROVE  SumFunctionOnSet(f, S) = SumFunctionOnSet(g, S)
  <1> DEFINE U == {n \in Nat : \A s \in SUBSET S : Cardinality(s) = n =>
                      SumFunctionOnSet(f, s) = SumFunctionOnSet(g, s)}
  <1>1. \A s \in SUBSET S : IsFiniteSet(s) /\ Cardinality(s) \in Nat
    BY FS_Subset, FS_CardinalityType
  <1>2. 0 \in U
    <2>1. \A s \in SUBSET S : Cardinality(s) = 0 => s = {}
      BY <1>1, FS_EmptySet
    <2>2. SumFunctionOnSet(f, {}) = 0 /\ SumFunctionOnSet(g, {}) = 0
      BY SumOfNothing
    <2> QED
      BY <2>1, <2>2
  <1>3. ASSUME NEW n \in Nat, n \in U
        PROVE  n + 1 \in U
    <2>1. SUFFICES ASSUME NEW s \in SUBSET S, Cardinality(s) = n + 1
                   PROVE  SumFunctionOnSet(f, s) = SumFunctionOnSet(g, s)
      OBVIOUS
    <2>2. s # {}
      BY <1>1, <2>1, TakeOne
    <2> DEFINE r == s \ {Picked(s)}
    <2>3. r \in SUBSET S /\ Cardinality(r) = n
      BY <1>1, <2>1, TakeOne
    <2>4. SumFunctionOnSet(f, r) = SumFunctionOnSet(g, r)
      BY <1>3, <2>3
    <2>5. f[Picked(s)] = g[Picked(s)]
      BY <2>2, PickedIn
    <2>6. /\ SumFunctionOnSet(f, s) = f[Picked(s)] + SumFunctionOnSet(f, r)
          /\ SumFunctionOnSet(g, s) = g[Picked(s)] + SumFunctionOnSet(g, r)
      BY <1>1, <2>2, SumUnfolds
    <2> QED
      BY <2>4, <2>5, <2>6
  <1>4. Cardinality(S) \in U
    <2> HIDE DEF U
    <2> QED
      BY <1>1, <1>2, <1>3, SetInduction
  <1> QED
    BY <1>4

LEMMA SumOfZeros ==
  ASSUME NEW f, NEW S, IsFiniteSet(S), \A x \in S : f[x] = 0
  PROVE  SumFunctionOnSet(f, S) = 0
  <1> DEFINE U == {n \in Nat : \A s \in SUBSET S : Cardinality(s) = n =>
                      SumFunctionOnSet(f, s) = 0}
  <1>1. \A s \in SUBSET S : IsFiniteSet(s) /\ Cardinality(s) \in Nat
    BY FS_Subset, FS_CardinalityType
  <1>2. 0 \in U
    <2>1. \A s \in SUBSET S : Cardinality(s) = 0 => s = {}
      BY <1>1, FS_EmptySet
    <2>2. SumFunctionOnSet(f, {}) = 0
      BY SumOfNothing
    <2> QED
      BY <2>1, <2>2
  <1>3. ASSUME NEW n \in Nat, n \in U
        PROVE  n + 1 \in U
    <2>1. SUFFICES ASSUME NEW s \in SUBSET S, Cardinality(s) = n + 1
                   PROVE  SumFunctionOnSet(f, s) = 0
      OBVIOUS
    <2>2. s # {}
      BY <1>1, <2>1, TakeOne
    <2>3. SumFunctionOnSet(f, s \ {Picked(s)}) = 0
      BY <1>1, <1>3, <2>1, TakeOne
    <2>4. f[Picked(s)] = 0
      BY <2>2, PickedIn
    <2>5. SumFunctionOnSet(f, s) = f[Picked(s)] + SumFunctionOnSet(f, s \ {Picked(s)})
      BY <1>1, <2>2, SumUnfolds
    <2> QED
      BY <2>3, <2>4, <2>5
  <1>4. Cardinality(S) \in U
    <2> HIDE DEF U
    <2> QED
      BY <1>1, <1>2, <1>3, SetInduction
  <1> QED
    BY <1>4

\* One value changed, the sum changes by as much.
LEMMA SumChanges ==
  ASSUME NEW f, NEW g, NEW S, IsFiniteSet(S), NEW x \in S,
         \A z \in S : f[z] \in Int, g[x] \in Int,
         \A z \in S \ {x} : f[z] = g[z]
  PROVE  SumFunctionOnSet(g, S) = SumFunctionOnSet(f, S) + g[x] - f[x]
  <1>1. \A z \in S : g[z] \in Int
    OBVIOUS
  <1>2. IsFiniteSet(S \ {x})
    BY FS_Subset
  <1>3. SumFunctionOnSet(f, S \ {x}) = SumFunctionOnSet(g, S \ {x})
    BY <1>2, SumSame
  <1>4. SumFunctionOnSet(f, S \ {x}) \in Int
    BY <1>2, SumInt
  <1>5. /\ SumFunctionOnSet(f, S) = f[x] + SumFunctionOnSet(f, S \ {x})
        /\ SumFunctionOnSet(g, S) = g[x] + SumFunctionOnSet(g, S \ {x})
    BY <1>1, SumTakesAny
  <1> QED
    BY <1>1, <1>3, <1>4, <1>5

\* What is added to the set is added to the sum.
LEMMA SumGrows ==
  ASSUME NEW f, NEW S, IsFiniteSet(S), NEW x, x \notin S, f[x] \in Int,
         \A z \in S : f[z] \in Int
  PROVE  SumFunctionOnSet(f, S \union {x}) = SumFunctionOnSet(f, S) + f[x]
  <1>1. IsFiniteSet(S \union {x})
    BY FS_AddElement
  <1>2. SumFunctionOnSet(f, S \union {x}) = f[x] + SumFunctionOnSet(f, (S \union {x}) \ {x})
    BY <1>1, SumTakesAny
  <1>3. (S \union {x}) \ {x} = S
    OBVIOUS
  <1>4. SumFunctionOnSet(f, S) \in Int
    BY SumInt
  <1>5. SumFunctionOnSet(f, S \union {x}) = f[x] + SumFunctionOnSet(f, S)
    BY <1>2, <1>3
  <1> QED
    BY <1>4, <1>5

\* The sum of a sum is the sum of the sums.
LEMMA SumPlus ==
  ASSUME NEW f, NEW g, NEW h, NEW S, IsFiniteSet(S),
         \A x \in S : f[x] \in Int /\ g[x] \in Int /\ h[x] = f[x] + g[x]
  PROVE  SumFunctionOnSet(h, S) = SumFunctionOnSet(f, S) + SumFunctionOnSet(g, S)
  <1> DEFINE Agree(s) == SumFunctionOnSet(h, s) = SumFunctionOnSet(f, s) + SumFunctionOnSet(g, s)
             U == {n \in Nat : \A s \in SUBSET S : Cardinality(s) = n => Agree(s)}
  <1>1. \A s \in SUBSET S : IsFiniteSet(s) /\ Cardinality(s) \in Nat
    BY FS_Subset, FS_CardinalityType
  <1>2. 0 \in U
    <2>1. \A s \in SUBSET S : Cardinality(s) = 0 => s = {}
      BY <1>1, FS_EmptySet
    <2>2. Agree({})
      BY SumOfNothing
    <2> HIDE DEF Agree
    <2> QED
      BY <2>1, <2>2
  <1>3. ASSUME NEW n \in Nat, n \in U
        PROVE  n + 1 \in U
    <2>1. SUFFICES ASSUME NEW s \in SUBSET S, Cardinality(s) = n + 1
                   PROVE  Agree(s)
      OBVIOUS
    <2>2. s # {}
      BY <1>1, <2>1, TakeOne
    <2> DEFINE c == Picked(s)
               r == s \ {Picked(s)}
    <2>3. r \in SUBSET S /\ Cardinality(r) = n
      BY <1>1, <2>1, TakeOne
    <2>4. Agree(r)
      BY <1>3, <2>3
    <2>5. f[c] \in Int /\ g[c] \in Int /\ h[c] = f[c] + g[c]
      BY <2>2, PickedIn
    <2>6. /\ SumFunctionOnSet(f, s) = f[c] + SumFunctionOnSet(f, r)
          /\ SumFunctionOnSet(g, s) = g[c] + SumFunctionOnSet(g, r)
          /\ SumFunctionOnSet(h, s) = h[c] + SumFunctionOnSet(h, r)
      BY <1>1, <2>2, SumUnfolds
    <2>7. SumFunctionOnSet(f, r) \in Int /\ SumFunctionOnSet(g, r) \in Int
      BY <1>1, <2>3, SumInt
    <2> HIDE DEF c, r
    <2> QED
      BY <2>4, <2>5, <2>6, <2>7
  <1>4. Cardinality(S) \in U
    <2> HIDE DEF U
    <2> QED
      BY <1>1, <1>2, <1>3, SetInduction
  <1> QED
    BY <1>4

\* Renaming what is summed over, one name each, leaves the sum alone.
LEMMA SumRenamed ==
  ASSUME NEW f, NEW g, NEW S, IsFiniteSet(S), NEW name, NEW T,
         \A x \in S : f[x] \in Int /\ g[name[x]] = f[x],
         \A x, z \in S : name[x] = name[z] => x = z,
         \A x \in S : name[x] \in T,
         \A t \in T : \E x \in S : t = name[x]
  PROVE  IsFiniteSet(T) /\ SumFunctionOnSet(g, T) = SumFunctionOnSet(f, S)
  <1> DEFINE Names(s) == {name[x] : x \in s}
             Agree(s) == IsFiniteSet(Names(s))
                           /\ SumFunctionOnSet(g, Names(s)) = SumFunctionOnSet(f, s)
             U == {n \in Nat : \A s \in SUBSET S : Cardinality(s) = n => Agree(s)}
  <1>1. \A s \in SUBSET S : IsFiniteSet(s) /\ Cardinality(s) \in Nat
    BY FS_Subset, FS_CardinalityType
  <1>2. 0 \in U
    <2>1. \A s \in SUBSET S : Cardinality(s) = 0 => s = {}
      BY <1>1, FS_EmptySet
    <2>2. SumFunctionOnSet(f, {}) = 0 /\ SumFunctionOnSet(g, {}) = 0 /\ IsFiniteSet({})
      BY SumOfNothing, FS_EmptySet
    <2>3. Names({}) = {}
      OBVIOUS
    <2>4. Agree({})
      BY <2>2, <2>3
    <2> HIDE DEF Agree
    <2> QED
      BY <2>1, <2>4
  <1>3. ASSUME NEW n \in Nat, \A s \in SUBSET S : Cardinality(s) = n => Agree(s),
               NEW s \in SUBSET S, Cardinality(s) = n + 1
        PROVE  Agree(s)
    <2>1. Cardinality(s) = n + 1
      BY <1>3
    <2>2. s # {}
      BY <1>1, <2>1, TakeOne
    <2> DEFINE c == Picked(s)
               r == s \ {Picked(s)}
    <2>3. r \in SUBSET S /\ Cardinality(r) = n
      BY <1>1, <2>1, TakeOne
    <2>4. Agree(r)
      BY <1>3, <2>3
    <2>5. c \in s /\ f[c] \in Int /\ g[name[c]] = f[c]
      BY <2>2, PickedIn
    <2>6. Names(s) = Names(r) \union {name[c]} /\ name[c] \notin Names(r)
      BY <2>5
    <2>7. \A z \in Names(r) : g[z] \in Int
      BY <2>3
    <2>8. SumFunctionOnSet(f, s) = f[c] + SumFunctionOnSet(f, r)
      BY <1>1, <2>2, SumUnfolds
    <2>9. SumFunctionOnSet(f, r) \in Int
      BY <1>1, <2>3, SumInt
    <2> HIDE DEF c, r, Names
    <2>10. IsFiniteSet(Names(s))
      BY <2>4, <2>6, FS_AddElement
    <2>11. SumFunctionOnSet(g, Names(s)) = SumFunctionOnSet(g, Names(r)) + g[name[c]]
      BY <2>4, <2>5, <2>6, <2>7, SumGrows
    <2> QED
      BY <2>4, <2>5, <2>8, <2>9, <2>10, <2>11
  <1>4. \A n \in Nat : n \in U => n + 1 \in U
    <2> HIDE DEF Agree
    <2> QED
      BY <1>3
  <1>5. Cardinality(S) \in U
    <2> HIDE DEF U
    <2> QED
      BY <1>1, <1>2, <1>4, SetInduction
  <1>6. Names(S) = T
    OBVIOUS
  <1> QED
    BY <1>5, <1>6

\* A sum over two sets that share nothing is the two sums.
LEMMA SumSplits ==
  ASSUME NEW f, NEW A, NEW B, IsFiniteSet(A), IsFiniteSet(B), A \intersect B = {},
         \A x \in A \union B : f[x] \in Int
  PROVE  SumFunctionOnSet(f, A \union B) = SumFunctionOnSet(f, A) + SumFunctionOnSet(f, B)
  <1> DEFINE Agree(s) == SumFunctionOnSet(f, A \union s) = SumFunctionOnSet(f, A) + SumFunctionOnSet(f, s)
             U == {n \in Nat : \A s \in SUBSET B : Cardinality(s) = n => Agree(s)}
  <1>1. \A s \in SUBSET B : IsFiniteSet(s) /\ Cardinality(s) \in Nat
    BY FS_Subset, FS_CardinalityType
  <1>2. SumFunctionOnSet(f, A) \in Int
    BY SumInt
  <1>3. 0 \in U
    <2>1. \A s \in SUBSET B : Cardinality(s) = 0 => s = {}
      BY <1>1, FS_EmptySet
    <2>2. A \union {} = A
      OBVIOUS
    <2>3. Agree({})
      BY <1>2, <2>2, SumOfNothing
    <2> HIDE DEF Agree
    <2> QED
      BY <2>1, <2>3
  <1>4. ASSUME NEW n \in Nat, n \in U
        PROVE  n + 1 \in U
    <2>1. SUFFICES ASSUME NEW s \in SUBSET B, Cardinality(s) = n + 1
                   PROVE  Agree(s)
      OBVIOUS
    <2>2. s # {}
      BY <1>1, <2>1, TakeOne
    <2> DEFINE c == Picked(s)
               r == s \ {Picked(s)}
    <2>3. r \in SUBSET B /\ Cardinality(r) = n
      BY <1>1, <2>1, TakeOne
    <2>4. Agree(r)
      BY <1>4, <2>3
    <2>5. c \in s /\ f[c] \in Int /\ c \notin A \union r /\ A \union s = (A \union r) \union {c}
      BY <2>2, PickedIn
    <2>6. SumFunctionOnSet(f, s) = f[c] + SumFunctionOnSet(f, r)
      BY <1>1, <2>2, SumUnfolds
    <2>7. SumFunctionOnSet(f, r) \in Int
      <3>1. \A x \in r : f[x] \in Int
        BY <2>3
      <3> HIDE DEF r
      <3> QED
        BY <1>1, <2>3, <3>1, SumInt
    <2>8. SumFunctionOnSet(f, (A \union r) \union {c}) = SumFunctionOnSet(f, A \union r) + f[c]
      <3>1. \A x \in A \union r : f[x] \in Int
        BY <2>3
      <3> HIDE DEF r, c
      <3>2. IsFiniteSet(A \union r)
        BY <1>1, <2>3, FS_Union
      <3> QED
        BY <2>5, <3>1, <3>2, SumGrows
    <2>9. f[c] \in Int /\ A \union s = (A \union r) \union {c}
      BY <2>5
    <2> HIDE DEF c, r
    <2>10. SumFunctionOnSet(f, A \union s) = SumFunctionOnSet(f, A \union r) + f[c]
      BY <2>8, <2>9
    <2>11. SumFunctionOnSet(f, A \union r) = SumFunctionOnSet(f, A) + SumFunctionOnSet(f, r)
      BY <2>4
    <2> QED
      BY <1>2, <2>6, <2>7, <2>9, <2>10, <2>11
  <1>5. Cardinality(B) \in U
    <2> HIDE DEF U
    <2> QED
      BY <1>1, <1>3, <1>4, SetInduction
  <1> QED
    BY <1>5

\* What is summed key by key is summed once each.
LEMMA SumByKey ==
  ASSUME NEW f, NEW S, IsFiniteSet(S), \A x \in S : f[x] \in Int,
         NEW K, IsFiniteSet(K), NEW key, \A x \in S : key[x] \in K,
         NEW part, \A k \in K : part[k] \subseteq S /\ \A x \in S : x \in part[k] <=> key[x] = k,
         NEW g, \A k \in K : g[k] = SumFunctionOnSet(f, part[k])
  PROVE  SumFunctionOnSet(g, K) = SumFunctionOnSet(f, S)
  <1> DEFINE Of(t) == {x \in S : key[x] \in t}
             Agree(t) == SumFunctionOnSet(g, t) = SumFunctionOnSet(f, Of(t))
             U == {n \in Nat : \A t \in SUBSET K : Cardinality(t) = n => Agree(t)}
  <1>1. \A t \in SUBSET K : IsFiniteSet(t) /\ Cardinality(t) \in Nat
    BY FS_Subset, FS_CardinalityType
  <1>2. \A t : IsFiniteSet(Of(t)) /\ \A x \in Of(t) : f[x] \in Int
    BY FS_Subset
  <1>3. 0 \in U
    <2>1. \A t \in SUBSET K : Cardinality(t) = 0 => t = {}
      BY <1>1, FS_EmptySet
    <2>2. Of({}) = {}
      OBVIOUS
    <2>3. Agree({})
      BY <2>2, SumOfNothing
    <2> HIDE DEF Agree
    <2> QED
      BY <2>1, <2>3
  <1>4. ASSUME NEW n \in Nat, n \in U
        PROVE  n + 1 \in U
    <2>1. SUFFICES ASSUME NEW t \in SUBSET K, Cardinality(t) = n + 1
                   PROVE  Agree(t)
      OBVIOUS
    <2>2. t # {}
      BY <1>1, <2>1, TakeOne
    <2> DEFINE c == Picked(t)
               r == t \ {Picked(t)}
               own == part[c]
    <2>3. r \in SUBSET K /\ Cardinality(r) = n
      BY <1>1, <2>1, TakeOne
    <2>4. Agree(r)
      BY <1>4, <2>3
    <2>5. c \in t /\ c \in K
      BY <2>2, PickedIn
    <2>6. SumFunctionOnSet(g, t) = g[c] + SumFunctionOnSet(g, r)
      BY <1>1, <2>2, SumUnfolds
    <2>7. Of(t) = Of(r) \union own /\ Of(r) \intersect own = {} /\ own = Of({c})
      BY <2>5
    <2>8. g[c] = SumFunctionOnSet(f, own)
      BY <2>5
    <2> HIDE DEF c, r, own, Of
    <2>9. SumFunctionOnSet(f, Of(r) \union own) = SumFunctionOnSet(f, Of(r)) + SumFunctionOnSet(f, own)
      <3>1. IsFiniteSet(Of(r)) /\ \A x \in Of(r) : f[x] \in Int
        BY <1>2
      <3>2. IsFiniteSet(own) /\ \A x \in own : f[x] \in Int
        BY <1>2, <2>7
      <3>3. Of(r) \intersect own = {} /\ \A x \in Of(r) \union own : f[x] \in Int
        BY <2>7, <3>1, <3>2
      <3> QED
        BY <3>1, <3>2, <3>3, SumSplits
    <2>10. SumFunctionOnSet(f, Of(r)) \in Int /\ SumFunctionOnSet(f, own) \in Int
      BY <1>2, <2>7, SumInt
    <2> QED
      BY <2>4, <2>6, <2>7, <2>8, <2>9, <2>10
  <1>5. Cardinality(K) \in U
    <2> HIDE DEF U
    <2> QED
      BY <1>1, <1>3, <1>4, SetInduction
  <1>6. Of(K) = S
    OBVIOUS
  <1> QED
    BY <1>5, <1>6

-----------------------------------------------------------------------------
\* The calendar: a day's number is where its month starts and its place in it.

\* The leap days there have been before year y, year 0 itself a leap year.
LeapDays(y) ==
  IF y = 0 THEN 0
  ELSE ((y - 1) \div 4) - ((y - 1) \div 100) + ((y - 1) \div 400) + 1

LeapDay(y) == IF LeapYear(y) THEN 1 ELSE 0

\* One more when a leap year ends, and none otherwise.
LEMMA LeapDaysStep ==
  ASSUME NEW y \in Nat
  PROVE  /\ LeapDays(y) \in Int
         /\ LeapDays(y + 1) = LeapDays(y) + LeapDay(y)
  <1>1. CASE y = 0
    BY <1>1 DEF LeapDays, LeapDay, LeapYear
  <1>2. CASE y > 0
    <2>1. y \div 4 = ((y - 1) \div 4) + (IF y % 4 = 0 THEN 1 ELSE 0)
      BY <1>2
    <2>2. y \div 100 = ((y - 1) \div 100) + (IF y % 100 = 0 THEN 1 ELSE 0)
      BY <1>2
    <2>3. y \div 400 = ((y - 1) \div 400) + (IF y % 400 = 0 THEN 1 ELSE 0)
      BY <1>2
    <2>4. (y % 100 = 0 => y % 4 = 0) /\ (y % 400 = 0 => y % 100 = 0)
      OBVIOUS
    <2> QED
      BY <1>2, <2>1, <2>2, <2>3, <2>4 DEF LeapDays, LeapDay, LeapYear
  <1> QED
    BY <1>1, <1>2

\* A month is a year and a month of the year, and so is the next.
LEMMA MonthSplits ==
  ASSUME NEW m \in Nat
  PROVE  /\ Year(m) \in Nat /\ m % 12 \in 0..11
         /\ m % 12 < 11 => Year(m + 1) = Year(m) /\ (m + 1) % 12 = (m % 12) + 1
         /\ m % 12 = 11 => Year(m + 1) = Year(m) + 1 /\ (m + 1) % 12 = 0
  BY DEF Year

LEMMA MonthLength ==
  ASSUME NEW m \in Nat
  PROVE  DaysInMonth(m) \in 28..31
  BY MonthSplits DEF DaysInMonth

\* Where a month starts in the count of days.
Offset(m) ==
  365 * Year(m) + LeapDays(Year(m)) + DaysBefore[(m % 12) + 1]
    + (IF m % 12 > 1 THEN LeapDay(Year(m)) ELSE 0)

LEMMA DaysBeforeInt == \A i \in 1..12 : DaysBefore[i] \in Int
  BY DEF DaysBefore

LEMMA DayNumberOfOffset ==
  ASSUME NEW m \in Nat, NEW n \in Int
  PROVE  /\ Offset(m) \in Int
         /\ DayNumber([month |-> m, day |-> n]) = Offset(m) + n
  <1> DEFINE y == Year(m)
             k == m % 12
  <1>1. y \in Nat /\ k \in 0..11
    BY MonthSplits
  <1>2. LeapDays(y) \in Int
    BY <1>1, LeapDaysStep
  <1>3. DaysBefore[k + 1] \in Int
    <2>1. k + 1 \in 1..12
      BY <1>1
    <2> QED
      BY <2>1, DaysBeforeInt
  <1>4. LeapDay(y) \in {0, 1}
    BY DEF LeapDay
  <1>5. Offset(m) = 365 * y + LeapDays(y) + DaysBefore[k + 1]
                      + (IF k > 1 THEN LeapDay(y) ELSE 0)
    BY DEF Offset
  <1>6. DayNumber([month |-> m, day |-> n])
          = 365 * y + LeapDays(y) + DaysBefore[k + 1]
              + (IF k > 1 /\ LeapYear(y) THEN 1 ELSE 0) + n
    BY DEF DayNumber, LeapDays
  <1>7. (IF k > 1 THEN LeapDay(y) ELSE 0) = (IF k > 1 /\ LeapYear(y) THEN 1 ELSE 0)
    BY DEF LeapDay
  <1> HIDE DEF y, k
  <1> QED
    BY <1>1, <1>2, <1>3, <1>4, <1>5, <1>6, <1>7

\* A month ends where the next starts.
LEMMA OffsetStep ==
  ASSUME NEW m \in Nat
  PROVE  Offset(m + 1) = Offset(m) + DaysInMonth(m)
  <1> DEFINE y == Year(m)
             k == m % 12
  <1>1. y \in Nat /\ k \in 0..11
    BY MonthSplits
  <1>2. LeapDays(y) \in Int /\ LeapDays(y + 1) = LeapDays(y) + LeapDay(y)
    BY <1>1, LeapDaysStep
  <1>3. LeapDay(y) \in {0, 1}
    BY DEF LeapDay
  <1>4. CASE k < 11
    <2>1. Year(m + 1) = y /\ (m + 1) % 12 = k + 1
      BY <1>4, MonthSplits
    <2>2. DaysBefore[k + 2] = DaysBefore[k + 1]
             + (IF k = 1 THEN 28 ELSE IF k \in {3, 5, 8, 10} THEN 30 ELSE 31)
      BY <1>1, <1>4 DEF DaysBefore
    <2>3. DaysBefore[k + 1] \in Int /\ DaysBefore[k + 2] \in Int
      BY <1>1, <1>4 DEF DaysBefore
    <2> HIDE DEF y, k
    <2>4. DaysInMonth(m) = IF k = 1 THEN 28 + LeapDay(y)
                           ELSE IF k \in {3, 5, 8, 10} THEN 30 ELSE 31
      BY <1>1 DEF DaysInMonth, LeapDay, y, k
    <2>5. /\ Offset(m) = 365 * y + LeapDays(y) + DaysBefore[k + 1]
                          + (IF k > 1 THEN LeapDay(y) ELSE 0)
          /\ Offset(m + 1) = 365 * y + LeapDays(y) + DaysBefore[k + 2]
                          + (IF k + 1 > 1 THEN LeapDay(y) ELSE 0)
      BY <1>1, <2>1 DEF Offset, y, k
    <2> QED
      BY <1>1, <1>2, <1>3, <1>4, <2>2, <2>3, <2>4, <2>5
  <1>5. CASE k = 11
    <2>1. Year(m + 1) = y + 1 /\ (m + 1) % 12 = 0
      BY <1>5, MonthSplits
    <2>2. DaysInMonth(m) = 31
      BY <1>5 DEF DaysInMonth
    <2>3. DaysBefore[12] = 334 /\ DaysBefore[1] = 0
      BY DEF DaysBefore
    <2> HIDE DEF y, k
    <2>4. Offset(m) = 365 * y + LeapDays(y) + DaysBefore[12] + LeapDay(y)
      <3>1. k + 1 = 12 /\ k > 1
        BY <1>5
      <3> QED
        BY <3>1, <1>5 DEF Offset, y, k
    <2>5. Offset(m + 1) = 365 * (y + 1) + LeapDays(y + 1) + DaysBefore[1]
      <3>1. ((m + 1) % 12) + 1 = 1 /\ ~((m + 1) % 12 > 1)
        BY <2>1
      <3>2. DaysBefore[((m + 1) % 12) + 1] = DaysBefore[1]
        BY <3>1
      <3>3. Offset(m + 1) = 365 * Year(m + 1) + LeapDays(Year(m + 1))
              + DaysBefore[((m + 1) % 12) + 1]
              + (IF (m + 1) % 12 > 1 THEN LeapDay(Year(m + 1)) ELSE 0)
        BY DEF Offset
      <3>4. (IF (m + 1) % 12 > 1 THEN LeapDay(Year(m + 1)) ELSE 0) = 0
        BY <3>1
      <3>5. 365 * (y + 1) \in Int /\ LeapDays(y + 1) \in Int
        BY <1>1, <1>2, <1>3
      <3> QED
        BY <2>1, <2>3, <3>2, <3>3, <3>4, <3>5
    <2> QED
      BY <1>1, <1>2, <1>3, <2>2, <2>3, <2>4, <2>5
  <1> QED
    BY <1>1, <1>4, <1>5

\* A day's number is where its month starts and its place in it.
LEMMA DayNumberOfDate ==
  ASSUME NEW d, IsDate(d)
  PROVE  /\ d.month \in Nat /\ d.day \in 1..DaysInMonth(d.month)
         /\ DaysInMonth(d.month) \in 28..31
         /\ d = [month |-> d.month, day |-> d.day]
         /\ Offset(d.month) \in Int
         /\ DayNumber(d) = Offset(d.month) + d.day
         /\ DayNumber(d) \in Int
  <1>1. d.month \in Nat /\ d.day \in 1..DaysInMonth(d.month)
    BY DEF IsDate, Months
  <1>2. DaysInMonth(d.month) \in 28..31
    BY <1>1, MonthLength
  <1>3. d = [month |-> d.month, day |-> d.day]
    BY DEF IsDate
  <1>4. d.day \in Int
    BY <1>1, <1>2
  <1>5. /\ Offset(d.month) \in Int
        /\ DayNumber([month |-> d.month, day |-> d.day]) = Offset(d.month) + d.day
    BY <1>1, <1>4, DayNumberOfOffset
  <1> QED
    BY <1>1, <1>2, <1>3, <1>4, <1>5

\* The months follow each other: one ends before any later one starts.
LEMMA MonthsInOrder ==
  ASSUME NEW m \in Nat, NEW n \in Nat, m < n
  PROVE  Offset(m) + DaysInMonth(m) <= Offset(n)
  <1> DEFINE U == {i \in Nat : Offset(m + 1) <= Offset(m + 1 + i)}
  <1>1. \A k \in Nat : Offset(k) \in Int /\ DaysInMonth(k) \in 28..31
    <2>1. ASSUME NEW k \in Nat PROVE Offset(k) \in Int
      <3>1. 1 \in Int
        OBVIOUS
      <3> QED
        BY <3>1, DayNumberOfOffset
    <2> QED
      BY <2>1, MonthLength
  <1>2. 0 \in U
    <2>1. m + 1 \in Nat /\ m + 1 + 0 = m + 1
      OBVIOUS
    <2> QED
      BY <1>1, <2>1
  <1>3. ASSUME NEW i \in Nat, i \in U
        PROVE  i + 1 \in U
    <2>1. PICK k \in Nat : k = m + 1 + i
      OBVIOUS
    <2>2. m + 1 + (i + 1) = k + 1 /\ m + 1 \in Nat
      BY <2>1
    <2>3. Offset(k + 1) = Offset(k) + DaysInMonth(k)
      BY OffsetStep
    <2>4. Offset(m + 1) <= Offset(k)
      BY <1>3, <2>1
    <2>5. Offset(m + 1) <= Offset(k + 1)
      BY <1>1, <2>2, <2>3, <2>4
    <2> QED
      BY <2>2, <2>5
  <1>4. Nat \subseteq U
    <2> HIDE DEF U
    <2> QED
      BY <1>2, <1>3, SetInduction
  <1>5. n - m - 1 \in U /\ m + 1 + (n - m - 1) = n
    BY <1>4
  <1>6. Offset(m + 1) <= Offset(n)
    BY <1>5
  <1> QED
    BY <1>1, <1>6, OffsetStep
=============================================================================
