------------------------- MODULE LeagueRules_proofs -------------------------
(***************************************************************************)
(* What the league's rules compute, for fields of every size: induction    *)
(* over numbers and finite sets, sums, places in an order; then the sorted *)
(* tables, the ranks, the exchange and the circle method of LeagueRules.   *)
(*                                                                         *)
(* The induction theorems of the library take a predicate.  Here the       *)
(* predicate is the set of what satisfies it, so that a lemma about sets   *)
(* says the same, and follows from the library's minimal elements.         *)
(***************************************************************************)
EXTENDS LeagueRules, FiniteSetTheorems, SequenceTheorems, WellFoundedInduction, TLAPS

-----------------------------------------------------------------------------
(* Induction. *)

\* Of the subsets of a finite set that have a property, one is minimal.
LEMMA MinimalSet ==
  ASSUME NEW S, IsFiniteSet(S), NEW C, C \subseteq SUBSET S, C # {}
  PROVE  \E T \in C : \A U \in C : U \subseteq T => U = T
<1>1. IsWellFoundedOn(StrictSubsetOrdering(S), FiniteSubsetsOf(S))
  BY FS_StrictSubsetOrderingWellFounded
<1>2. FiniteSubsetsOf(S) = SUBSET S
  BY FS_FiniteSubsetsOfFinite
<1>3. PICK T \in C : \A U \in C : ~(<<U, T>> \in StrictSubsetOrdering(S))
  BY <1>1, <1>2, WFMin
<1> QED BY <1>3 DEF StrictSubsetOrdering

\* Induction over a finite set: what holds of nothing, and of a set with one
\* element more, holds of the whole.
LEMMA SetInduction ==
  ASSUME NEW S, IsFiniteSet(S), NEW Good, {} \in Good,
         \A T \in SUBSET S : \A x \in S \ T : T \in Good => T \cup {x} \in Good
  PROVE  S \in Good
<1> DEFINE C == {T \in SUBSET S : T \notin Good}
<1>1. SUFFICES ASSUME C # {} PROVE FALSE  OBVIOUS
<1>2. PICK T \in C : \A U \in C : U \subseteq T => U = T
  <2>1. C \subseteq SUBSET S  OBVIOUS
  <2> HIDE DEF C
  <2>2. \E T \in C : \A U \in C : U \subseteq T => U = T  BY <1>1, <2>1, MinimalSet
  <2> QED BY <2>2
<1>3. PICK x \in T : TRUE  OBVIOUS
<1>4. T \ {x} \notin C  BY <1>2, <1>3
<1>5. T \ {x} \in SUBSET S /\ x \in S \ (T \ {x})  BY <1>3
<1>6. (T \ {x}) \cup {x} = T  BY <1>3
<1> QED BY <1>4, <1>5, <1>6

\* Every set of numbers has a least one.
LEMMA LeastNumber ==
  ASSUME NEW N, N \subseteq Nat, N # {}
  PROVE  \E n \in N : \A m \in N : n <= m
<1>1. PICK k \in N : TRUE  OBVIOUS
<1> DEFINE B == 0..k
           C == {0..m : m \in {i \in N : i <= k}}
<1>2. IsFiniteSet(B)  BY FS_Interval
<1>3. C \subseteq SUBSET B  OBVIOUS
<1>4. C # {}  OBVIOUS
<1>5. \E T \in C : \A U \in C : U \subseteq T => U = T
  <2> HIDE DEF B, C
  <2> QED BY <1>2, <1>3, <1>4, MinimalSet
<1>6. PICK n \in N : n <= k /\ \A U \in C : U \subseteq 0..n => U = 0..n  BY <1>5
<1>7. ASSUME NEW m \in N, m < n PROVE FALSE
  <2>1. 0..m \in C  BY <1>6, <1>7
  <2>2. 0..m \subseteq 0..n  BY <1>7
  <2>3. 0..m = 0..n  BY <2>1, <2>2, <1>6
  <2>4. n \in 0..m  BY <2>3
  <2> QED BY <2>4, <1>7
<1> QED BY <1>6, <1>7

\* A set of numbers that has a bound has a greatest one.
LEMMA GreatestNumber ==
  ASSUME NEW b \in Nat, NEW N, N \subseteq 0..b, N # {}
  PROVE  \E n \in N : \A m \in N : m <= n
<1> DEFINE D == {b - n : n \in N}
<1>1. D \subseteq Nat
  <2> SUFFICES ASSUME NEW n \in N PROVE b - n \in Nat  OBVIOUS
  <2>1. n \in 0..b  OBVIOUS
  <2> QED BY <2>1
<1>2. D # {}  OBVIOUS
<1>3. \E d \in D : \A e \in D : d <= e
  <2> HIDE DEF D
  <2> QED BY <1>1, <1>2, LeastNumber
<1>4. PICK n \in N : \A e \in D : b - n <= e  BY <1>3
<1>5. \A m \in N : b - n <= b - m  BY <1>4
<1>6. \A m \in N : m \in 0..b  OBVIOUS
<1> QED BY <1>5, <1>6

\* Induction over the numbers.
LEMMA NumberInduction ==
  ASSUME NEW Good, 0 \in Good, \A n \in Nat : n \in Good => n + 1 \in Good
  PROVE  \A n \in Nat : n \in Good
<1> DEFINE N == {n \in Nat : n \notin Good}
<1>1. SUFFICES ASSUME N # {} PROVE FALSE  OBVIOUS
<1>2. PICK n \in N : \A m \in N : n <= m
  <2>1. N \subseteq Nat  OBVIOUS
  <2> HIDE DEF N
  <2>2. \E n \in N : \A m \in N : n <= m  BY <1>1, <2>1, LeastNumber
  <2> QED BY <2>2
<1>3. n - 1 \in Nat /\ n - 1 \notin N  BY <1>2
<1> QED BY <1>3

-----------------------------------------------------------------------------
(* Sums over finite sets, by the library's SumFunctionOnSet. *)

Picked(S) == CHOOSE x \in S : TRUE

\* g gives every set of the collection C what the fold over it comes to.
Totals(h, C, g) ==
  g = [s \in C |-> IF s = {} THEN 0 ELSE h[Picked(s)] + g[s \ {Picked(s)}]]

UpTo(S, n) == {T \in SUBSET S : Cardinality(T) <= n}

\* A set loses one element to what is picked of it.
LEMMA PickedFrom ==
  ASSUME NEW S, IsFiniteSet(S), NEW T \in SUBSET S, T # {}
  PROVE  /\ Picked(T) \in T /\ T \ {Picked(T)} \in SUBSET S
         /\ Cardinality(T) \in Nat \ {0}
         /\ Cardinality(T \ {Picked(T)}) = Cardinality(T) - 1
<1>1. Picked(T) \in T  BY DEF Picked
<1>2. IsFiniteSet(T)  BY FS_Subset
<1>3. Cardinality(T) \in Nat /\ Cardinality(T) # 0
  BY <1>2, FS_CardinalityType, FS_EmptySet
<1>4. Cardinality(T \ {Picked(T)}) = Cardinality(T) - 1
  BY <1>1, <1>2, FS_RemoveElement
<1> QED BY <1>1, <1>3, <1>4

\* The fold is defined: there is a function that solves its equation.
LEMMA TotalsExist ==
  ASSUME NEW S, IsFiniteSet(S), NEW h
  PROVE  \E g : Totals(h, SUBSET S, g)
<1> DEFINE Good == {n \in Nat : \E g : Totals(h, UpTo(S, n), g)}
<1>1. 0 \in Good
  <2> DEFINE g == [s \in UpTo(S, 0) |-> 0]
  <2>1. \A s \in UpTo(S, 0) : s = {}
    <3> SUFFICES ASSUME NEW s \in SUBSET S, s # {}, Cardinality(s) <= 0 PROVE FALSE  BY DEF UpTo
    <3>1. Cardinality(s) \in Nat \ {0}  BY PickedFrom
    <3> QED BY <3>1
  <2>2. Totals(h, UpTo(S, 0), g)  BY <2>1 DEF Totals
  <2> QED BY <2>2
<1>2. ASSUME NEW n \in Nat, n \in Good PROVE n + 1 \in Good
  <2>1. PICK g : Totals(h, UpTo(S, n), g)  BY <1>2
  <2> DEFINE e == [s \in UpTo(S, n + 1) |->
                     IF s = {} THEN 0 ELSE h[Picked(s)] + g[s \ {Picked(s)}]]
  <2>2. \A s \in UpTo(S, n) : s \in UpTo(S, n + 1)
    <3> SUFFICES ASSUME NEW s \in UpTo(S, n) PROVE Cardinality(s) <= n + 1  BY DEF UpTo
    <3>1. Cardinality(s) \in Nat /\ Cardinality(s) <= n
      BY FS_Subset, FS_CardinalityType DEF UpTo
    <3> QED BY <3>1
  <2>3. ASSUME NEW s \in UpTo(S, n + 1), s # {}
        PROVE s \ {Picked(s)} \in UpTo(S, n)
    <3>1. s \in SUBSET S /\ Cardinality(s) <= n + 1  BY DEF UpTo
    <3>2. /\ s \ {Picked(s)} \in SUBSET S
          /\ Cardinality(s) \in Nat
          /\ Cardinality(s \ {Picked(s)}) = Cardinality(s) - 1
      BY <3>1, <2>3, PickedFrom
    <3> QED BY <3>1, <3>2 DEF UpTo
  <2>4. \A s \in UpTo(S, n) : e[s] = g[s]  BY <2>1, <2>2 DEF Totals
  <2>5. Totals(h, UpTo(S, n + 1), e)
    <3> SUFFICES \A s \in UpTo(S, n + 1) : s # {} => e[s \ {Picked(s)}] = g[s \ {Picked(s)}]
      BY DEF Totals
    <3> QED BY <2>3, <2>4
  <2> QED BY <2>5
<1>3. Cardinality(S) \in Good
  <2>1. Cardinality(S) \in Nat  BY FS_CardinalityType
  <2> HIDE DEF Good
  <2> QED BY <1>1, <1>2, <2>1, NumberInduction
<1>4. UpTo(S, Cardinality(S)) = SUBSET S  BY FS_Subset DEF UpTo
<1> QED BY <1>3, <1>4

\* What the library calls the sum is that function's value.
LEMMA SumIsTotal ==
  ASSUME NEW S, IsFiniteSet(S), NEW h
  PROVE  \E g : Totals(h, SUBSET S, g) /\ SumFunctionOnSet(h, S) = g[S]
<1> DEFINE g == CHOOSE g : Totals(h, SUBSET S, g)
<1>1. Totals(h, SUBSET S, g)  BY TotalsExist
<1>2. SumFunctionOnSet(h, S) = g[S]
  BY DEF SumFunctionOnSet, FoldFunctionOnSet, MapThenFoldSet, Totals, Picked
<1> QED BY <1>1, <1>2

\* Two such functions, of a set and of a part of it, agree about the part.
LEMMA TotalsAgree ==
  ASSUME NEW S, IsFiniteSet(S), NEW T \in SUBSET S, NEW h, NEW g, NEW e,
         Totals(h, SUBSET S, g), Totals(h, SUBSET T, e)
  PROVE  g[T] = e[T]
<1> DEFINE C == {s \in SUBSET T : g[s] # e[s]}
<1>1. SUFFICES ASSUME C # {} PROVE FALSE  OBVIOUS
<1>2. PICK s \in C : \A u \in C : u \subseteq s => u = s
  <2>1. C \subseteq SUBSET S  OBVIOUS
  <2> HIDE DEF C
  <2>2. \E s \in C : \A u \in C : u \subseteq s => u = s  BY <1>1, <2>1, MinimalSet
  <2> QED BY <2>2
<1>3. s \in SUBSET S /\ s \in SUBSET T  OBVIOUS
<1>4. g[s] = IF s = {} THEN 0 ELSE h[Picked(s)] + g[s \ {Picked(s)}]  BY <1>3 DEF Totals
<1>5. e[s] = IF s = {} THEN 0 ELSE h[Picked(s)] + e[s \ {Picked(s)}]  BY <1>3 DEF Totals
<1>6. s # {}  BY <1>4, <1>5
<1>7. Picked(s) \in s  BY <1>6 DEF Picked
<1>8. s \ {Picked(s)} \notin C  BY <1>2, <1>7
<1>9. g[s \ {Picked(s)}] = e[s \ {Picked(s)}]  BY <1>8
<1> QED BY <1>4, <1>5, <1>9

\* The sum of nothing, and of a set that loses what is picked of it.
LEMMA SumUnfolds ==
  ASSUME NEW S, IsFiniteSet(S), NEW h
  PROVE  /\ SumFunctionOnSet(h, {}) = 0
         /\ S # {} => SumFunctionOnSet(h, S)
                      = h[Picked(S)] + SumFunctionOnSet(h, S \ {Picked(S)})
<1>1. SumFunctionOnSet(h, {}) = 0
  <2>1. IsFiniteSet({})  BY FS_EmptySet
  <2>2. PICK g : Totals(h, SUBSET {}, g) /\ SumFunctionOnSet(h, {}) = g[{}]
    BY <2>1, SumIsTotal
  <2> QED BY <2>2 DEF Totals
<1>2. ASSUME S # {}
      PROVE SumFunctionOnSet(h, S) = h[Picked(S)] + SumFunctionOnSet(h, S \ {Picked(S)})
  <2> DEFINE R == S \ {Picked(S)}
  <2>1. IsFiniteSet(R)  BY FS_RemoveElement
  <2>2. PICK g : Totals(h, SUBSET S, g) /\ SumFunctionOnSet(h, S) = g[S]  BY SumIsTotal
  <2>3. PICK e : Totals(h, SUBSET R, e) /\ SumFunctionOnSet(h, R) = e[R]
    <3> HIDE DEF R
    <3> QED BY <2>1, SumIsTotal
  <2>4. R \in SUBSET S  OBVIOUS
  <2>5. g[R] = e[R]
    <3> HIDE DEF R
    <3> QED BY <2>1, <2>2, <2>3, <2>4, TotalsAgree
  <2>6. g[S] = h[Picked(S)] + g[R]  BY <2>2, <1>2 DEF Totals
  <2> QED BY <2>2, <2>3, <2>5, <2>6
<1> QED BY <1>1, <1>2

\* A sum of integers is one.
LEMMA SumIsInt ==
  ASSUME NEW S, IsFiniteSet(S), NEW h, \A x \in S : h[x] \in Int
  PROVE  SumFunctionOnSet(h, S) \in Int
<1> DEFINE C == {T \in SUBSET S : SumFunctionOnSet(h, T) \notin Int}
<1>1. SUFFICES ASSUME C # {} PROVE FALSE  OBVIOUS
<1>2. PICK T \in C : \A U \in C : U \subseteq T => U = T
  <2>1. C \subseteq SUBSET S  OBVIOUS
  <2> HIDE DEF C
  <2>2. \E T \in C : \A U \in C : U \subseteq T => U = T  BY <1>1, <2>1, MinimalSet
  <2> QED BY <2>2
<1>3. IsFiniteSet(T) /\ T \subseteq S  BY FS_Subset
<1>4. T # {}  BY <1>3, SumUnfolds
<1>5. Picked(T) \in T  BY <1>4 DEF Picked
<1>6. SumFunctionOnSet(h, T \ {Picked(T)}) \in Int  BY <1>2, <1>5
<1>7. SumFunctionOnSet(h, T) = h[Picked(T)] + SumFunctionOnSet(h, T \ {Picked(T)})
  BY <1>3, <1>4, SumUnfolds
<1> QED BY <1>3, <1>5, <1>6, <1>7

\* In whatever order it is taken, any element may be taken last.
LEMMA SumTakesOut ==
  ASSUME NEW S, IsFiniteSet(S), NEW h, \A x \in S : h[x] \in Int, NEW x \in S
  PROVE  SumFunctionOnSet(h, S) = h[x] + SumFunctionOnSet(h, S \ {x})
<1> DEFINE Sum(T) == SumFunctionOnSet(h, T)
           C == {T \in SUBSET S : \E y \in T : Sum(T) # h[y] + Sum(T \ {y})}
<1>1. SUFFICES ASSUME C # {} PROVE FALSE  OBVIOUS
<1>2. PICK T \in C : \A U \in C : U \subseteq T => U = T
  <2>1. C \subseteq SUBSET S  OBVIOUS
  <2> HIDE DEF C
  <2>2. \E T \in C : \A U \in C : U \subseteq T => U = T  BY <1>1, <2>1, MinimalSet
  <2> QED BY <2>2
<1>3. PICK y \in T : Sum(T) # h[y] + Sum(T \ {y})  OBVIOUS
<1> DEFINE p == Picked(T)
<1>4. IsFiniteSet(T) /\ T \subseteq S  BY FS_Subset
<1>5. p \in T  BY <1>3 DEF Picked
<1>6. Sum(T) = h[p] + Sum(T \ {p})  BY <1>3, <1>4, SumUnfolds
<1>7. p # y  BY <1>3, <1>6
<1> HIDE DEF p, Sum
<1>8. Sum(T \ {p}) = h[y] + Sum((T \ {p}) \ {y})
  <2>1. T \ {p} \notin C  BY <1>2, <1>5
  <2> QED BY <2>1, <1>4, <1>5, <1>7
<1>9. Sum(T \ {y}) = h[p] + Sum((T \ {y}) \ {p})
  <2>1. T \ {y} \notin C  BY <1>2, <1>3
  <2> QED BY <2>1, <1>4, <1>5, <1>7
<1>10. (T \ {p}) \ {y} = (T \ {y}) \ {p}  OBVIOUS
<1>11. Sum((T \ {p}) \ {y}) \in Int
  <2>1. IsFiniteSet((T \ {p}) \ {y})  BY <1>4, FS_RemoveElement
  <2> QED BY <2>1, <1>4, SumIsInt DEF Sum
<1>12. h[p] \in Int /\ h[y] \in Int  BY <1>4, <1>5
<1> DEFINE R == Sum((T \ {p}) \ {y})
<1>13. Sum(T) = h[p] + (h[y] + R)  BY <1>6, <1>8
<1>14. Sum(T \ {y}) = h[p] + R  BY <1>9, <1>10
<1> HIDE DEF R, C
<1>15. R \in Int  BY <1>11 DEF R
<1>16. h[p] + (h[y] + R) = h[y] + (h[p] + R)  BY <1>12, <1>15
<1> QED BY <1>3, <1>13, <1>14, <1>16

\* One element more.
LEMMA SumPutsIn ==
  ASSUME NEW S, IsFiniteSet(S), NEW h, NEW x, x \notin S,
         \A y \in S \cup {x} : h[y] \in Int
  PROVE  SumFunctionOnSet(h, S \cup {x}) = h[x] + SumFunctionOnSet(h, S)
<1> DEFINE T == S \cup {x}
<1>1. IsFiniteSet(T)  BY FS_AddElement
<1>2. x \in T /\ \A y \in T : h[y] \in Int  OBVIOUS
<1>3. T \ {x} = S  OBVIOUS
<1> HIDE DEF T
<1>4. SumFunctionOnSet(h, T) = h[x] + SumFunctionOnSet(h, T \ {x})
  BY <1>1, <1>2, SumTakesOut
<1> QED BY <1>3, <1>4 DEF T

\* What adds nothing may be left out, and two functions that agree on the rest
\* have the same sum.
LEMMA SumOfTheSame ==
  ASSUME NEW S, IsFiniteSet(S), NEW T \in SUBSET S, NEW h, NEW k,
         \A x \in S : h[x] \in Int,
         \A x \in T : k[x] = h[x],
         \A x \in S \ T : h[x] = 0
  PROVE  SumFunctionOnSet(h, S) = SumFunctionOnSet(k, T)
<1> DEFINE Good == {U \in SUBSET S : SumFunctionOnSet(h, U) = SumFunctionOnSet(k, U \cap T)}
<1>1. {} \in Good
  <2>1. {} \cap T = {} /\ IsFiniteSet({})  BY FS_EmptySet
  <2> QED BY <2>1, SumUnfolds
<1>2. ASSUME NEW U \in SUBSET S, NEW x \in S \ U, U \in Good
      PROVE  U \cup {x} \in Good
  <2>1. IsFiniteSet(U) /\ IsFiniteSet(U \cap T)  BY FS_Subset
  <2>2. SumFunctionOnSet(h, U \cup {x}) = h[x] + SumFunctionOnSet(h, U)
    BY <2>1, SumPutsIn
  <2>3. SumFunctionOnSet(h, U) \in Int  BY <2>1, SumIsInt
  <2>4. SumFunctionOnSet(h, U) = SumFunctionOnSet(k, U \cap T)  BY <1>2
  <2>5. CASE x \in T
    <3>1. (U \cup {x}) \cap T = (U \cap T) \cup {x}  BY <2>5
    <3> DEFINE V == U \cap T
    <3>2. x \notin V /\ \A y \in V \cup {x} : k[y] \in Int  BY <2>5
    <3>3. IsFiniteSet(V)  BY <2>1
    <3> HIDE DEF V
    <3>4. SumFunctionOnSet(k, V \cup {x}) = k[x] + SumFunctionOnSet(k, V)
      BY <3>2, <3>3, SumPutsIn
    <3>5. k[x] = h[x]  BY <2>5
    <3> QED BY <3>1, <3>4, <3>5, <2>2, <2>4 DEF V
  <2>6. CASE x \notin T
    <3>1. (U \cup {x}) \cap T = U \cap T /\ h[x] = 0  BY <2>6
    <3>2. SumFunctionOnSet(h, U \cup {x}) = SumFunctionOnSet(h, U)
      <4> HIDE DEF Good
      <4> QED BY <3>1, <2>2, <2>3
    <3> QED BY <3>1, <3>2, <2>4
  <2> QED BY <2>5, <2>6
<1>3. S \in Good
  <2> HIDE DEF Good
  <2> QED BY <1>1, <1>2, SetInduction
<1>4. S \cap T = T  OBVIOUS
<1> QED BY <1>3, <1>4

\* The sum of the differences is the difference of the sums.
LEMMA SumOfDifferences ==
  ASSUME NEW S, IsFiniteSet(S), NEW h, NEW k, NEW d,
         \A x \in S : h[x] \in Int /\ k[x] \in Int /\ d[x] = h[x] - k[x]
  PROVE  SumFunctionOnSet(d, S) = SumFunctionOnSet(h, S) - SumFunctionOnSet(k, S)
<1> DEFINE Good == {U \in SUBSET S : SumFunctionOnSet(d, U)
                                      = SumFunctionOnSet(h, U) - SumFunctionOnSet(k, U)}
<1>1. {} \in Good
  <2>1. IsFiniteSet({})  BY FS_EmptySet
  <2> QED BY <2>1, SumUnfolds
<1>2. ASSUME NEW U \in SUBSET S, NEW x \in S \ U, U \in Good
      PROVE  U \cup {x} \in Good
  <2>1. IsFiniteSet(U)  BY FS_Subset
  <2>2. \A y \in S : h[y] \in Int /\ k[y] \in Int /\ d[y] \in Int  OBVIOUS
  <2>3. /\ SumFunctionOnSet(h, U \cup {x}) = h[x] + SumFunctionOnSet(h, U)
        /\ SumFunctionOnSet(k, U \cup {x}) = k[x] + SumFunctionOnSet(k, U)
        /\ SumFunctionOnSet(d, U \cup {x}) = d[x] + SumFunctionOnSet(d, U)
    BY <2>1, <2>2, SumPutsIn
  <2>4. SumFunctionOnSet(h, U) \in Int /\ SumFunctionOnSet(k, U) \in Int
    BY <2>1, <2>2, SumIsInt
  <2>5. SumFunctionOnSet(d, U) = SumFunctionOnSet(h, U) - SumFunctionOnSet(k, U)  BY <1>2
  <2> DEFINE a == SumFunctionOnSet(h, U)
             b == SumFunctionOnSet(k, U)
  <2>6. a \in Int /\ b \in Int /\ h[x] \in Int /\ k[x] \in Int  BY <2>4
  <2>7. SumFunctionOnSet(d, U \cup {x}) = (h[x] - k[x]) + (a - b)  BY <2>3, <2>5
  <2> HIDE DEF a, b
  <2>8. (h[x] - k[x]) + (a - b) = (h[x] + a) - (k[x] + b)  BY <2>6
  <2> QED BY <2>3, <2>7, <2>8 DEF a, b
<1> HIDE DEF Good
<1>3. S \in Good  BY <1>1, <1>2, SetInduction
<1> QED BY <1>3 DEF Good

\* A sum over the images is the sum over what they are images of.
LEMMA SumOfImages ==
  ASSUME NEW S, IsFiniteSet(S), NEW f, \A x, y \in S : f[x] = f[y] => x = y,
         NEW h, \A x \in S : h[f[x]] \in Int,
         NEW k, \A x \in S : k[x] = h[f[x]]
  PROVE  SumFunctionOnSet(h, {f[x] : x \in S}) = SumFunctionOnSet(k, S)
<1> DEFINE Image(U) == {f[x] : x \in U}
           Good == {U \in SUBSET S : /\ IsFiniteSet(Image(U))
                                     /\ SumFunctionOnSet(h, Image(U)) = SumFunctionOnSet(k, U)}
<1>1. {} \in Good
  <2>1. Image({}) = {} /\ IsFiniteSet({})  BY FS_EmptySet
  <2> QED BY <2>1, SumUnfolds
<1>2. ASSUME NEW U \in SUBSET S, NEW x \in S \ U, U \in Good
      PROVE  U \cup {x} \in Good
  <2>1. IsFiniteSet(U)  BY FS_Subset
  <2>2. SumFunctionOnSet(k, U \cup {x}) = k[x] + SumFunctionOnSet(k, U)
    BY <2>1, SumPutsIn
  <2>3. Image(U \cup {x}) = Image(U) \cup {f[x]}  OBVIOUS
  <2> DEFINE V == Image(U)
  <2>4. f[x] \notin V /\ \A y \in V \cup {f[x]} : h[y] \in Int  OBVIOUS
  <2>5. IsFiniteSet(V)  BY <1>2
  <2>6. SumFunctionOnSet(h, V) = SumFunctionOnSet(k, U)  BY <1>2
  <2> HIDE DEF V
  <2>7. SumFunctionOnSet(h, V \cup {f[x]}) = h[f[x]] + SumFunctionOnSet(h, V)
    BY <2>4, <2>5, SumPutsIn
  <2>8. IsFiniteSet(V \cup {f[x]})  BY <2>5, FS_AddElement
  <2> QED BY <2>2, <2>3, <2>6, <2>7, <2>8 DEF V
<1> HIDE DEF Good
<1>3. S \in Good  BY <1>1, <1>2, SetInduction
<1> QED BY <1>3 DEF Good

-----------------------------------------------------------------------------
(* Places in an order. *)

\* R puts the members of S one before the other.
Orders(R, S) ==
  /\ \A x \in S : <<x, x>> \notin R
  /\ \A x, y \in S : x # y => <<x, y>> \in R \/ <<y, x>> \in R
  /\ IsTransitivelyClosedOn(R, S)

Place(x, R, S) == Cardinality(SetLessThan(x, R, S))

\* Everybody has a place of his own, who is before has a smaller one, and every
\* place is somebody's.
LEMMA PlacesAreTaken ==
  ASSUME NEW S, IsFiniteSet(S), NEW R, Orders(R, S)
  PROVE  /\ \A x \in S : Place(x, R, S) \in 0..(Cardinality(S) - 1)
         /\ \A x, y \in S : <<x, y>> \in R => Place(x, R, S) < Place(y, R, S)
         /\ \A x, y \in S : Place(x, R, S) = Place(y, R, S) => x = y
         /\ \A i \in 0..(Cardinality(S) - 1) : \E x \in S : Place(x, R, S) = i
<1>1. ASSUME NEW x \in S
      PROVE  /\ SetLessThan(x, R, S) \in SUBSET (S \ {x})
             /\ IsFiniteSet(SetLessThan(x, R, S))
             /\ Place(x, R, S) \in Nat
             /\ Place(x, R, S) <= Cardinality(S) - 1
  <2>1. SetLessThan(x, R, S) \in SUBSET (S \ {x})  BY DEF SetLessThan, Orders
  <2>2. IsFiniteSet(S \ {x}) /\ Cardinality(S \ {x}) = Cardinality(S) - 1
    BY FS_RemoveElement
  <2>3. /\ IsFiniteSet(SetLessThan(x, R, S))
        /\ Cardinality(SetLessThan(x, R, S)) <= Cardinality(S \ {x})
    BY <2>1, <2>2, FS_Subset
  <2>4. Cardinality(SetLessThan(x, R, S)) \in Nat  BY <2>3, FS_CardinalityType
  <2> QED BY <2>1, <2>2, <2>3, <2>4 DEF Place
<1>2. Cardinality(S) \in Nat  BY FS_CardinalityType
<1>3. \A x \in S : Place(x, R, S) \in 0..(Cardinality(S) - 1)  BY <1>1, <1>2
<1>4. ASSUME NEW x \in S, NEW y \in S, <<x, y>> \in R
      PROVE  Place(x, R, S) < Place(y, R, S)
  <2> DEFINE A == SetLessThan(x, R, S)
             B == SetLessThan(y, R, S)
  <2>1. A \in SUBSET B /\ x \in B /\ x \notin A
    BY <1>4 DEF SetLessThan, Orders, IsTransitivelyClosedOn
  <2>2. IsFiniteSet(B) /\ Cardinality(B) \in Nat  BY <1>1 DEF Place
  <2>3. Cardinality(A) <= Cardinality(B) /\ Cardinality(B) # Cardinality(A)
    <3> HIDE DEF A, B
    <3> QED BY <2>1, <2>2, FS_Subset
  <2>4. Cardinality(A) \in Nat  BY <1>1 DEF Place
  <2> QED BY <2>2, <2>3, <2>4 DEF Place
<1>5. ASSUME NEW x \in S, NEW y \in S, Place(x, R, S) = Place(y, R, S)
      PROVE  x = y
  <2>1. Place(x, R, S) \in Nat  BY <1>1
  <2>2. ~(Place(x, R, S) < Place(y, R, S)) /\ ~(Place(y, R, S) < Place(x, R, S))
    BY <2>1, <1>5
  <2> QED BY <2>2, <1>4 DEF Orders
<1>6. \A i \in 0..(Cardinality(S) - 1) : \E x \in S : Place(x, R, S) = i
  <2> DEFINE T == 0..(Cardinality(S) - 1)
             f == [x \in S |-> Place(x, R, S)]
  <2>1. IsFiniteSet(T) /\ Cardinality(T) = Cardinality(S)
    BY <1>2, FS_Interval
  <2>2. f \in Injection(S, T)  BY <1>3, <1>5 DEF Injection, IsInjective
  <2>3. f \in Surjection(S, T)
    <3> HIDE DEF f, T
    <3> QED BY <2>1, <2>2, FS_Injection
  <2> QED BY <2>3 DEF Surjection
<1> QED BY <1>3, <1>4, <1>5, <1>6

\* Those with the first places: somebody if there is anybody, and no more than
\* there are places.
LEMMA FirstPlaces ==
  ASSUME NEW S, IsFiniteSet(S), NEW R, Orders(R, S), NEW limit \in Nat
  PROVE  LET first == {x \in S : Place(x, R, S) < limit} IN
         /\ limit > 0 /\ S # {} => first # {}
         /\ Cardinality(first) <= limit
<1> DEFINE first == {x \in S : Place(x, R, S) < limit}
<1>1. ASSUME limit > 0, S # {} PROVE first # {}
  <2>1. Cardinality(S) \in Nat /\ Cardinality(S) # 0
    BY <1>1, FS_CardinalityType, FS_EmptySet
  <2>2. \E x \in S : Place(x, R, S) = 0  BY <2>1, PlacesAreTaken
  <2> QED BY <2>2, <1>1
<1>2. Cardinality(first) <= limit
  <2> DEFINE T == 0..(limit - 1)
             f == [x \in first |-> Place(x, R, S)]
  <2>1. IsFiniteSet(T) /\ Cardinality(T) = limit  BY FS_Interval
  <2>2. Cardinality(S) \in Nat  BY FS_CardinalityType
  <2>3. \A x \in S : Place(x, R, S) \in Nat  BY <2>2, PlacesAreTaken
  <2>4. f \in [first -> T]  BY <2>3
  <2>5. \A x, y \in first : f[x] = f[y] => x = y  BY PlacesAreTaken
  <2>6. f \in Injection(first, T)
    <3> HIDE DEF first, T, f
    <3> QED BY <2>4, <2>5 DEF Injection, IsInjective
  <2> HIDE DEF first, f, T
  <2>7. Cardinality(first) <= Cardinality(T)  BY <2>1, <2>6, FS_Injection
  <2> QED BY <2>1, <2>7
<1> QED BY <1>1, <1>2

-----------------------------------------------------------------------------
(* The sorted table and its ranks. *)

\* Keys of one width are totally ordered by the first measure that differs.
LEMMA BeatsOrdersKeys ==
  ASSUME NEW w \in Nat, NEW j \in [1..w -> Int], NEW k \in [1..w -> Int],
         NEW l \in [1..w -> Int]
  PROVE  /\ ~Beats(k, k)
         /\ k # l => Beats(k, l) \/ Beats(l, k)
         /\ Beats(j, k) /\ Beats(k, l) => Beats(j, l)
         /\ ~(Beats(k, l) /\ Beats(l, k))
<1>1. ~Beats(k, k)  BY DEF Beats
<1>2. ASSUME k # l PROVE Beats(k, l) \/ Beats(l, k)
  <2> DEFINE N == {i \in 1..w : k[i] # l[i]}
  <2>1. N # {}
    <3>1. SUFFICES ASSUME \A i \in 1..w : k[i] = l[i] PROVE FALSE  OBVIOUS
    <3> QED BY <3>1, <1>2
  <2>2. PICK i \in N : \A m \in N : i <= m
    <3>1. N \subseteq Nat  OBVIOUS
    <3> HIDE DEF N
    <3>2. \E i \in N : \A m \in N : i <= m  BY <2>1, <3>1, LeastNumber
    <3> QED BY <3>2
  <2>3. \A m \in 1..(i - 1) : m \in 1..w /\ m \notin N  BY <2>2
  <2>4. \A m \in 1..(i - 1) : k[m] = l[m]  BY <2>3
  <2>5. k[i] > l[i] \/ l[i] > k[i]  OBVIOUS
  <2> QED BY <2>4, <2>5 DEF Beats
<1>3. ASSUME NEW x \in [1..w -> Int], NEW y \in [1..w -> Int], NEW z \in [1..w -> Int],
             Beats(x, y), Beats(y, z)
      PROVE  Beats(x, z)
  <2>1. PICK i \in 1..w : x[i] > y[i] /\ \A m \in 1..(i - 1) : x[m] = y[m]
    BY <1>3 DEF Beats
  <2>2. PICK n \in 1..w : y[n] > z[n] /\ \A m \in 1..(n - 1) : y[m] = z[m]
    BY <1>3 DEF Beats
  <2>3. CASE i <= n
    <3>1. x[i] > z[i]
      <4>1. CASE i = n  BY <4>1, <2>1, <2>2
      <4>2. CASE i < n
        <5>1. i \in 1..(n - 1)  BY <4>2
        <5> QED BY <5>1, <2>1, <2>2
      <4> QED BY <4>1, <4>2, <2>3
    <3>2. \A m \in 1..(i - 1) : x[m] = z[m]
      <4> SUFFICES ASSUME NEW m \in 1..(i - 1) PROVE x[m] = z[m]  OBVIOUS
      <4>1. m \in 1..(n - 1)  BY <2>3
      <4> QED BY <4>1, <2>1, <2>2
    <3> QED BY <3>1, <3>2 DEF Beats
  <2>4. CASE n < i
    <3>1. n \in 1..(i - 1)  BY <2>4
    <3>2. x[n] > z[n]  BY <3>1, <2>1, <2>2
    <3>3. \A m \in 1..(n - 1) : x[m] = z[m]
      <4> SUFFICES ASSUME NEW m \in 1..(n - 1) PROVE x[m] = z[m]  OBVIOUS
      <4>1. m \in 1..(i - 1)  BY <2>4
      <4> QED BY <4>1, <2>1, <2>2
    <3> QED BY <3>2, <3>3 DEF Beats
  <2> QED BY <2>3, <2>4
<1>4. ~(Beats(k, l) /\ Beats(l, k))
  <2> SUFFICES ASSUME Beats(k, l), Beats(l, k) PROVE FALSE  OBVIOUS
  <2>1. Beats(k, k)  BY <1>3
  <2> QED BY <2>1, <1>1
<1> QED BY <1>1, <1>2, <1>3, <1>4

\* Every member of S has a key of the same width.
Keyed(S, key) == \E w \in Nat : \A m \in S : key[m] \in [1..w -> Int]

InFront(S, key) == {p \in S \X S : Ahead(key, p[1], p[2])}

\* Being ahead by one's key, and by number where keys tie, orders a set of managers.
LEMMA AheadOrders ==
  ASSUME NEW S, S \subseteq Nat, NEW key, Keyed(S, key)
  PROVE  /\ Orders(InFront(S, key), S)
         /\ \A m \in S : SetLessThan(m, InFront(S, key), S) = {n \in S : Ahead(key, n, m)}
<1>1. PICK w \in Nat : \A m \in S : key[m] \in [1..w -> Int]  BY DEF Keyed
<1>2. \A m \in S : ~Ahead(key, m, m)  BY <1>1, BeatsOrdersKeys DEF Ahead
<1>3. \A m, n \in S : m # n => Ahead(key, m, n) \/ Ahead(key, n, m)
  <2> SUFFICES ASSUME NEW m \in S, NEW n \in S, m # n
               PROVE  Ahead(key, m, n) \/ Ahead(key, n, m)
    OBVIOUS
  <2>1. key[m] # key[n] => Beats(key[m], key[n]) \/ Beats(key[n], key[m])
    BY <1>1, BeatsOrdersKeys
  <2>2. m \in Nat /\ n \in Nat  OBVIOUS
  <2>3. m < n \/ n < m  BY <2>2
  <2> QED BY <2>1, <2>3 DEF Ahead
<1>4. ASSUME NEW x \in S, NEW y \in S, NEW z \in S, Ahead(key, x, y), Ahead(key, y, z)
      PROVE  Ahead(key, x, z)
  <2>1. /\ key[x] \in [1..w -> Int] /\ key[y] \in [1..w -> Int] /\ key[z] \in [1..w -> Int]
        /\ x \in Nat /\ y \in Nat /\ z \in Nat
    BY <1>1
  <2>2. Beats(key[x], key[y]) /\ Beats(key[y], key[z]) => Beats(key[x], key[z])
    BY <2>1, BeatsOrdersKeys
  <2>3. x < y /\ y < z => x < z  BY <2>1
  <2> QED BY <1>4, <2>2, <2>3 DEF Ahead
<1>5. \A m \in S : SetLessThan(m, InFront(S, key), S) = {n \in S : Ahead(key, n, m)}
  BY DEF SetLessThan, InFront
<1>6. \A m, n \in S : <<m, n>> \in InFront(S, key) <=> Ahead(key, m, n)  BY DEF InFront
<1> QED BY <1>2, <1>3, <1>4, <1>5, <1>6 DEF Orders, IsTransitivelyClosedOn

\* A table has everybody in it once, and nobody behind somebody he is ahead of.
SortedTable(S, key, order) ==
  /\ Cardinality(S) \in Nat
  /\ order \in [1..Cardinality(S) -> S]
  /\ Len(order) = Cardinality(S)
  /\ \A i \in 1..Cardinality(S) : Cardinality({n \in S : Ahead(key, n, order[i])}) = i - 1
  /\ \A m \in S : \E i \in 1..Cardinality(S) : order[i] = m
  /\ \A i, j \in 1..Cardinality(S) : order[i] = order[j] => i = j
  /\ \A i, j \in 1..Cardinality(S) : i < j <=> Ahead(key, order[i], order[j])

\* Sorting makes a table.
LEMMA OrderedIsSorted ==
  ASSUME NEW S, IsFiniteSet(S), S \subseteq Nat, NEW key, Keyed(S, key)
  PROVE  SortedTable(S, key, Ordered(S, key))
<1> DEFINE order == Ordered(S, key)
           size  == Cardinality(S)
           R     == InFront(S, key)
           Behind(m) == Cardinality({n \in S : Ahead(key, n, m)})
<1>1. size \in Nat  BY FS_CardinalityType
<1>2. Orders(R, S) /\ \A m \in S : Place(m, R, S) = Behind(m)
  <2>1. Orders(R, S)  BY AheadOrders
  <2>2. \A m \in S : SetLessThan(m, R, S) = {n \in S : Ahead(key, n, m)}  BY AheadOrders, ZenonT(60)
  <2> HIDE DEF R
  <2> QED BY <2>1, <2>2 DEF Place
<1>3. /\ \A m \in S : Behind(m) \in 0..(size - 1)
      /\ \A m, n \in S : Ahead(key, m, n) => Behind(m) < Behind(n)
      /\ \A m, n \in S : Behind(m) = Behind(n) => m = n
      /\ \A i \in 0..(size - 1) : \E m \in S : Behind(m) = i
  <2> HIDE DEF Behind, size
  <2>1. /\ \A m \in S : Place(m, R, S) \in 0..(Cardinality(S) - 1)
        /\ \A m, n \in S : <<m, n>> \in R => Place(m, R, S) < Place(n, R, S)
        /\ \A m, n \in S : Place(m, R, S) = Place(n, R, S) => m = n
        /\ \A i \in 0..(Cardinality(S) - 1) : \E m \in S : Place(m, R, S) = i
    <3> HIDE DEF R
    <3> QED BY <1>2, PlacesAreTaken
  <2>2. \A m, n \in S : Ahead(key, m, n) => <<m, n>> \in R  BY DEF InFront
  <2> QED BY <1>2, <2>1, <2>2 DEF size
<1>4. \A i \in 1..size : order[i] \in S /\ Behind(order[i]) = i - 1
  <2> SUFFICES ASSUME NEW i \in 1..size PROVE order[i] \in S /\ Behind(order[i]) = i - 1
    OBVIOUS
  <2>1. i - 1 \in 0..(size - 1)  BY <1>1
  <2>2. order[i] = CHOOSE m \in S : Behind(m) = i - 1  BY DEF Ordered
  <2> HIDE DEF Behind, order
  <2> QED BY <1>3, <2>1, <2>2
<1>5. order \in [1..size -> S]  BY <1>4 DEF Ordered
<1>6. Len(order) = size
  <2> HIDE DEF order, size
  <2> QED BY <1>1, <1>5
<1>7. \A m \in S : \E i \in 1..size : order[i] = m
  <2> SUFFICES ASSUME NEW m \in S PROVE \E i \in 1..size : order[i] = m  OBVIOUS
  <2> HIDE DEF Behind, order, size
  <2>1. Behind(m) \in 0..(size - 1)  BY <1>3
  <2>2. Behind(m) + 1 \in 1..size /\ (Behind(m) + 1) - 1 = Behind(m)  BY <2>1, <1>1
  <2>3. Behind(order[Behind(m) + 1]) = Behind(m) /\ order[Behind(m) + 1] \in S
    BY <2>2, <1>4
  <2> QED BY <2>2, <2>3, <1>3
<1>8. \A i, j \in 1..size : order[i] = order[j] => i = j
  <2> HIDE DEF Behind, order
  <2> QED BY <1>1, <1>4
<1>9. ASSUME NEW i \in 1..size, NEW j \in 1..size
      PROVE  i < j <=> Ahead(key, order[i], order[j])
  <2> HIDE DEF Behind, order
  <2>1. ASSUME NEW k \in 1..size, NEW l \in 1..size, Ahead(key, order[k], order[l])
        PROVE  k < l
    <3>1. order[k] \in S /\ order[l] \in S  BY <1>4
    <3>2. Behind(order[k]) < Behind(order[l])  BY <3>1, <2>1, <1>3
    <3>3. k - 1 < l - 1  BY <3>2, <1>4
    <3> QED BY <3>3, <1>1
  <2>2. Ahead(key, order[j], order[i]) => j < i  BY <2>1
  <2>3. ASSUME i < j PROVE Ahead(key, order[i], order[j])
    <3>1. order[i] # order[j]  BY <2>3, <1>1, <1>8
    <3>2. <<order[i], order[j]>> \in R \/ <<order[j], order[i]>> \in R
      <4> HIDE DEF R
      <4> QED BY <3>1, <1>2, <1>4 DEF Orders
    <3>3. ~(j < i)  BY <2>3, <1>1
    <3> QED BY <3>2, <3>3, <2>2 DEF InFront
  <2> QED BY <2>1, <2>3
<1> HIDE DEF order, size, Behind
<1>10. \A i \in 1..size : Cardinality({n \in S : Ahead(key, n, order[i])}) = i - 1
  BY <1>4 DEF Behind
<1> QED BY <1>1, <1>5, <1>6, <1>7, <1>8, <1>9, <1>10 DEF order, size, SortedTable

\* Of one competitor after the other, who is level with the one before shares his
\* rank: the recursion is defined.
RankTable(order, key, n, rank) ==
  rank = [i \in 1..n |->
            IF i > 1 /\ key[order[i]] = key[order[i - 1]] THEN rank[i - 1] ELSE i]

\* The table of shared ranks is defined.
LEMMA RankTableExists ==
  ASSUME NEW order, NEW key, NEW size \in Nat
  PROVE  \E rank : RankTable(order, key, size, rank)
<1> DEFINE Good == {n \in Nat : \E rank : RankTable(order, key, n, rank)}
<1>1. 0 \in Good
  <2> DEFINE rank == [i \in 1..0 |-> 0]
  <2>1. RankTable(order, key, 0, rank)  BY DEF RankTable
  <2> QED BY <2>1
<1>2. ASSUME NEW n \in Nat, n \in Good PROVE n + 1 \in Good
  <2>1. PICK rank : RankTable(order, key, n, rank)  BY <1>2
  <2> DEFINE longer == [i \in 1..(n + 1) |->
                IF i > 1 /\ key[order[i]] = key[order[i - 1]] THEN rank[i - 1] ELSE i]
  <2>2. \A i \in 1..n : longer[i] = rank[i]  BY <2>1 DEF RankTable
  <2>3. \A i \in 1..(n + 1) : i > 1 => i - 1 \in 1..n  OBVIOUS
  <2>4. \A i \in 1..(n + 1) : i > 1 => longer[i - 1] = rank[i - 1]  BY <2>2, <2>3
  <2>5. RankTable(order, key, n + 1, longer)  BY <2>4 DEF RankTable
  <2> QED BY <2>5
<1> HIDE DEF Good
<1>3. size \in Good  BY <1>1, <1>2, NumberInduction
<1> QED BY <1>3 DEF Good

\* Who is ahead of a competitor on merit.
Better(S, key, m) == {n \in S : Beats(key[n], key[m])}

\* The ranks are the competition's: one more than are ahead on merit, so that
\* level managers share the first of their places (1 2 2 4).
LEMMA RanksAreCounts ==
  ASSUME NEW S, IsFiniteSet(S), S \subseteq Nat, NEW key, Keyed(S, key)
  PROVE  /\ DOMAIN Ranks(S, key) = S
         /\ \A m \in S : Ranks(S, key)[m] = Cardinality(Better(S, key, m)) + 1
<1> DEFINE order == Ordered(S, key)
           size  == Cardinality(S)
           rank[i \in DOMAIN order] ==
             IF i > 1 /\ key[order[i]] = key[order[i - 1]] THEN rank[i - 1] ELSE i
<1>1. /\ size \in Nat
      /\ order \in [1..size -> S]
      /\ \A i \in 1..size : Cardinality({n \in S : Ahead(key, n, order[i])}) = i - 1
      /\ \A m \in S : \E i \in 1..size : order[i] = m
      /\ \A i, j \in 1..size : order[i] = order[j] => i = j
      /\ \A i, j \in 1..size : i < j <=> Ahead(key, order[i], order[j])
  BY OrderedIsSorted, ZenonT(60) DEF SortedTable
<1>2. RankTable(order, key, size, rank)
  <2>1. \E table : RankTable(order, key, size, table)  BY <1>1, RankTableExists
  <2>2. DOMAIN order = 1..size  BY <1>1
  <2> HIDE DEF order, size
  <2> QED BY <2>1, <2>2, ZenonT(60) DEF RankTable
<1>3. Ranks(S, key) = [m \in S |-> rank[CHOOSE i \in DOMAIN order : order[i] = m]]
  BY DEF Ranks
<1> HIDE DEF rank, order, size
<1>4. PICK w \in Nat : \A m \in S : key[m] \in [1..w -> Int]  BY DEF Keyed
<1> DEFINE Good == {i \in Nat : i \in 1..size => rank[i] = Cardinality(Better(S, key, order[i])) + 1}
<1>5. 0 \in Good  OBVIOUS
<1>6. ASSUME NEW n \in Nat, n \in Good PROVE n + 1 \in Good
  <2> DEFINE i == n + 1
  <2>1. SUFFICES ASSUME i \in 1..size
                 PROVE  rank[i] = Cardinality(Better(S, key, order[i])) + 1
    OBVIOUS
  <2>2. rank[i] = IF i > 1 /\ key[order[i]] = key[order[i - 1]] THEN rank[i - 1] ELSE i
    BY <1>2, <2>1 DEF RankTable
  <2>3. CASE i > 1 /\ key[order[i]] = key[order[i - 1]]
    <3>1. i - 1 = n /\ n \in 1..size  BY <1>1, <2>1, <2>3
    <3>2. rank[n] = Cardinality(Better(S, key, order[n])) + 1  BY <1>6, <3>1
    <3>3. Better(S, key, order[i]) = Better(S, key, order[n])  BY <2>3, <3>1 DEF Better
    <3> QED BY <2>2, <2>3, <3>1, <3>2, <3>3
  <2>4. CASE ~(i > 1 /\ key[order[i]] = key[order[i - 1]])
    <3>1. ASSUME NEW m \in S, Ahead(key, m, order[i])
          PROVE  Beats(key[m], key[order[i]])
      <4>1. PICK j \in 1..size : order[j] = m  BY <1>1
      <4>2. j < i  BY <1>1, <2>1, <3>1, <4>1
      <4>3. i > 1 /\ i - 1 \in 1..size /\ j <= i - 1  BY <1>1, <2>1, <4>2
      <4>4. key[order[i]] # key[order[i - 1]]  BY <2>4, <4>3
      <4>5. Ahead(key, order[i - 1], order[i])  BY <1>1, <2>1, <4>3
      <4>6. Beats(key[order[i - 1]], key[order[i]])  BY <4>4, <4>5 DEF Ahead
      <4>7. m = order[i - 1] \/ Ahead(key, m, order[i - 1])
        <5>1. j = i - 1 \/ j < i - 1  BY <4>3
        <5> QED BY <1>1, <4>1, <4>3, <5>1
      <4>8. key[m] = key[order[i - 1]] \/ Beats(key[m], key[order[i - 1]])
        BY <4>7 DEF Ahead
      <4>9. order[i] \in S /\ order[i - 1] \in S  BY <1>1, <2>1, <4>3
      <4> DEFINE a == key[m]  b == key[order[i - 1]]  c == key[order[i]]
      <4>10. a \in [1..w -> Int] /\ b \in [1..w -> Int] /\ c \in [1..w -> Int]
        BY <1>4, <4>9
      <4>11. (a = b \/ Beats(a, b)) /\ Beats(b, c)  BY <4>6, <4>8
      <4> HIDE DEF a, b, c
      <4>12. Beats(a, c)  BY <4>10, <4>11, BeatsOrdersKeys
      <4> QED BY <4>12 DEF a, c
    <3>2. Better(S, key, order[i]) = {m \in S : Ahead(key, m, order[i])}
      BY <3>1 DEF Better, Ahead
    <3>3. Cardinality(Better(S, key, order[i])) = i - 1  BY <1>1, <2>1, <3>2
    <3>4. (i - 1) + 1 = i  OBVIOUS
    <3> QED BY <2>2, <2>4, <3>3, <3>4
  <2> QED BY <2>3, <2>4
<1>7. \A i \in 1..size : rank[i] = Cardinality(Better(S, key, order[i])) + 1
  <2>1. \A i \in Nat : i \in Good
    <3> HIDE DEF Good
    <3> QED BY <1>5, <1>6, NumberInduction
  <2>2. \A i \in 1..size : i \in Nat  OBVIOUS
  <2> QED BY <2>1, <2>2
<1>8. ASSUME NEW m \in S PROVE Ranks(S, key)[m] = Cardinality(Better(S, key, m)) + 1
  <2> DEFINE i == CHOOSE i \in DOMAIN order : order[i] = m
  <2>1. i \in 1..size /\ order[i] = m  BY <1>1
  <2>2. Ranks(S, key)[m] = rank[i]  BY <1>3
  <2> HIDE DEF i
  <2> QED BY <1>7, <2>1, <2>2
<1> QED BY <1>3, <1>8

\* The ranks tell who is ahead on merit, and only level managers share one.
MeritDecides(S, key, rank) ==
  /\ \A m \in S : rank[m] \in Nat \ {0}
  /\ \A m, n \in S : rank[m] <= rank[n] <=> ~Beats(key[n], key[m])
  /\ \A m, n \in S : rank[m] = rank[n] <=> key[m] = key[n]

\* Merit decides the ranks that are computed, for tables of every size
\* (domain/rankings.py, competition_rank): the better key the lower rank, and one
\* rank for equal keys.
THEOREM RanksDecide ==
  ASSUME NEW S, IsFiniteSet(S), S \subseteq Nat, NEW key, Keyed(S, key)
  PROVE  MeritDecides(S, key, Ranks(S, key))
<1> DEFINE rank == Ranks(S, key)
<1>1. PICK w \in Nat : \A x \in S : key[x] \in [1..w -> Int]  BY DEF Keyed
<1>2. \A x \in S : rank[x] = Cardinality(Better(S, key, x)) + 1  BY RanksAreCounts
<1>3. \A x \in S : IsFiniteSet(Better(S, key, x)) /\ Cardinality(Better(S, key, x)) \in Nat
  BY FS_Subset, FS_CardinalityType DEF Better
<1>4. ASSUME NEW x \in S, NEW y \in S, Beats(key[x], key[y]) PROVE rank[x] < rank[y]
  <2>1. \A z \in S : Beats(key[z], key[x]) => Beats(key[z], key[y])
    BY <1>1, <1>4, BeatsOrdersKeys
  <2> DEFINE A == Better(S, key, x)
             B == Better(S, key, y)
  <2>2. A \in SUBSET B  BY <2>1 DEF Better
  <2>3. x \in B /\ x \notin A  BY <1>1, <1>4, BeatsOrdersKeys DEF Better
  <2>4. IsFiniteSet(B) /\ Cardinality(A) \in Nat /\ Cardinality(B) \in Nat  BY <1>3
  <2>5. rank[x] = Cardinality(A) + 1 /\ rank[y] = Cardinality(B) + 1  BY <1>2
  <2> HIDE DEF A, B, rank
  <2>6. Cardinality(A) <= Cardinality(B) /\ Cardinality(B) # Cardinality(A)
    BY <2>2, <2>3, <2>4, FS_Subset
  <2> QED BY <2>4, <2>5, <2>6
<1>5. ASSUME NEW x \in S, NEW y \in S, key[x] = key[y] PROVE rank[x] = rank[y]
  <2>1. Better(S, key, x) = Better(S, key, y)  BY <1>5 DEF Better
  <2> QED BY <2>1, <1>2
<1>6. \A m, n \in S : key[m] # key[n] => Beats(key[m], key[n]) \/ Beats(key[n], key[m])
  BY <1>1, BeatsOrdersKeys
<1>7. \A m \in S : rank[m] \in Nat \ {0}  BY <1>2, <1>3
<1> HIDE DEF rank
<1>8. ASSUME NEW m \in S, NEW n \in S
      PROVE  /\ rank[m] <= rank[n] <=> ~Beats(key[n], key[m])
             /\ rank[m] = rank[n] <=> key[m] = key[n]
  <2>1. ~Beats(key[m], key[m]) /\ ~(Beats(key[m], key[n]) /\ Beats(key[n], key[m]))
    BY <1>1, BeatsOrdersKeys
  <2>2. rank[m] \in Nat \ {0} /\ rank[n] \in Nat \ {0}  BY <1>7
  <2>3. rank[m] <= rank[n] <=> ~Beats(key[n], key[m])  BY <1>4, <1>5, <1>6, <2>1, <2>2
  <2>4. rank[m] = rank[n] <=> key[m] = key[n]  BY <1>4, <1>5, <1>6, <2>2
  <2> QED BY <2>3, <2>4
<1> QED BY <1>7, <1>8 DEF rank, MeritDecides

\* Nobody of the zone is level with anybody else.
Apart(S, key, zone) == \A m \in zone : \A n \in S : n # m => key[m] # key[n]

\* If no rank of a zone is contested, nobody of the zone is level with anybody.
LEMMA UncontestedApart ==
  ASSUME NEW S, IsFiniteSet(S), S \subseteq Nat, NEW key, Keyed(S, key),
         NEW zone \in SUBSET S, Contested(S, zone, Ranks(S, key)) = {}
  PROVE  Apart(S, key, zone)
<1>1. SUFFICES ASSUME NEW m \in zone, NEW n \in S, n # m, key[m] = key[n] PROVE FALSE
  BY DEF Apart
<1> DEFINE rank == Ranks(S, key)
           same == {x \in S : rank[x] = rank[m]}
<1>2. m \in S /\ rank[m] = rank[n]
  <2>1. m \in S  OBVIOUS
  <2>2. MeritDecides(S, key, rank)  BY RanksDecide
  <2> QED BY <1>1, <2>1, <2>2 DEF MeritDecides
<1>3. ~(Cardinality(same) > 1)
  <2>1. rank[m] \in {rank[x] : x \in zone} /\ Contested(S, zone, rank) = {}  OBVIOUS
  <2> HIDE DEF rank
  <2> QED BY <2>1 DEF Contested
<1>4. {m, n} \in SUBSET same  BY <1>2
<1>5. IsFiniteSet(same) /\ Cardinality(same) \in Nat  BY FS_Subset, FS_CardinalityType
<1> HIDE DEF same
<1>6. Cardinality({m, n}) <= Cardinality(same)  BY <1>4, <1>5, FS_Subset
<1>7. Cardinality({m, n}) = 2
  <2>0. m # n  BY <1>1
  <2>1. IsFiniteSet({m}) /\ Cardinality({m}) = 1  BY FS_Singleton
  <2> DEFINE one == {m}
  <2>2. one \cup {n} = {m, n} /\ n \notin one  BY <2>0
  <2>3. IsFiniteSet(one) /\ Cardinality(one) = 1  BY <2>1
  <2> HIDE DEF one
  <2>4. Cardinality(one \cup {n}) = Cardinality(one) + 1  BY <2>2, <2>3, FS_AddElement
  <2> QED BY <2>2, <2>3, <2>4
<1> QED BY <1>3, <1>5, <1>6, <1>7

\* Who stands between two places of the table.
Between(S, key, a, b) == {Ordered(S, key)[i] : i \in a..b}

AsManyBetween(S, key) ==
  \A a, b \in Nat :
    1 <= a /\ b <= Cardinality(S) /\ a <= b + 1 =>
      /\ Between(S, key, a, b) \subseteq S
      /\ Cardinality(Between(S, key, a, b)) = b - a + 1

\* As many places of the table as there are, so many managers.
LEMMA PlacesHoldAsMany ==
  ASSUME NEW S, IsFiniteSet(S), S \subseteq Nat, NEW key, Keyed(S, key)
  PROVE  AsManyBetween(S, key)
<1> SUFFICES ASSUME NEW a \in Nat, NEW b \in Nat,
                    1 <= a, b <= Cardinality(S), a <= b + 1
             PROVE  /\ Between(S, key, a, b) \subseteq S
                    /\ Cardinality(Between(S, key, a, b)) = b - a + 1
  BY DEF AsManyBetween
<1> DEFINE order == Ordered(S, key)
           zone  == {order[i] : i \in a..b}
           f     == [i \in a..b |-> order[i]]
<1>1. /\ Cardinality(S) \in Nat
      /\ order \in [1..Cardinality(S) -> S]
      /\ \A i, j \in 1..Cardinality(S) : order[i] = order[j] => i = j
  BY OrderedIsSorted DEF SortedTable
<1> HIDE DEF order
<1>2. \A i \in a..b : i \in 1..Cardinality(S)  BY <1>1
<1>3. zone \subseteq S  BY <1>1, <1>2
<1>4. f \in Injection(a..b, zone) /\ f \in Surjection(a..b, zone)
  BY <1>1, <1>2 DEF Injection, IsInjective, Surjection
<1>5. IsFiniteSet(a..b) /\ Cardinality(a..b) = b - a + 1
  <2>1. a \in Int /\ b \in Int  OBVIOUS
  <2>2. IsFiniteSet(a..b) /\ Cardinality(a..b) = IF a > b THEN 0 ELSE b - a + 1
    BY <2>1, FS_Interval
  <2>3. a > b => b - a + 1 = 0  OBVIOUS
  <2> QED BY <2>2, <2>3
<1>6. IsFiniteSet(zone) /\ Cardinality(zone) = Cardinality(a..b)
  <2> DEFINE T == a..b
  <2> HIDE DEF f, zone, T
  <2>1. f \in Bijection(T, zone)  BY <1>4 DEF Bijection, T
  <2>2. IsFiniteSet(T)  BY <1>5 DEF T
  <2> QED BY <2>1, <2>2, FS_Bijection DEF ExistsBijection, T
<1> QED BY <1>3, <1>5, <1>6 DEF order, Between

\* The exchange, when nothing in it is contested: as many go as come, those who
\* go up were ahead of all who stay in LOW, those who go down behind all who
\* stay in HIGH.
LEMMA ExchangeTakesTheEnds ==
  ASSUME NEW high, IsFiniteSet(high), high \subseteq Nat,
         NEW low, IsFiniteSet(low), low \subseteq Nat,
         NEW key, Keyed(high, key), Keyed(low, key),
         NEW count \in Nat, count <= Cardinality(high), count <= Cardinality(low),
         Exchange(high, low, key, count).contested = {}
  PROVE  LET swap == Exchange(high, low, key, count) IN
         /\ swap.promoted \subseteq low /\ Cardinality(swap.promoted) = count
         /\ swap.relegated \subseteq high /\ Cardinality(swap.relegated) = count
         /\ \A m \in swap.promoted : \A n \in low \ swap.promoted : Beats(key[m], key[n])
         /\ \A m \in swap.relegated : \A n \in high \ swap.relegated : Beats(key[n], key[m])
<1> DEFINE highOrder == Ordered(high, key)
           lowOrder  == Ordered(low, key)
           relegated == {highOrder[i] : i \in (Len(highOrder) - count + 1)..Len(highOrder)}
           promoted  == {lowOrder[i] : i \in 1..count}
<1>1. /\ Cardinality(low) \in Nat
      /\ \A m \in low : \E i \in 1..Cardinality(low) : lowOrder[i] = m
      /\ \A i, j \in 1..Cardinality(low) : i < j <=> Ahead(key, lowOrder[i], lowOrder[j])
  <2>1. SortedTable(low, key, lowOrder)  BY OrderedIsSorted
  <2> QED BY <2>1 DEF SortedTable
<1>2. /\ Cardinality(high) \in Nat
      /\ Len(highOrder) = Cardinality(high)
      /\ \A m \in high : \E i \in 1..Cardinality(high) : highOrder[i] = m
      /\ \A i, j \in 1..Cardinality(high) : i < j <=> Ahead(key, highOrder[i], highOrder[j])
  <2>1. SortedTable(high, key, highOrder)  BY OrderedIsSorted
  <2> QED BY <2>1 DEF SortedTable
<1>3. promoted \subseteq low /\ Cardinality(promoted) = count
  <2>1. 1 \in Nat /\ 1 <= 1 /\ 1 <= count + 1 /\ count - 1 + 1 = count  OBVIOUS
  <2>4. AsManyBetween(low, key)  BY PlacesHoldAsMany
  <2>2. /\ Cardinality(Between(low, key, 1, count)) = count - 1 + 1
        /\ Between(low, key, 1, count) \subseteq low
    BY <2>1, <2>4 DEF AsManyBetween
  <2>3. promoted = Between(low, key, 1, count)  BY DEF Between
  <2> QED BY <2>1, <2>2, <2>3
<1>4. relegated \subseteq high /\ Cardinality(relegated) = count
  <2> DEFINE a == Cardinality(high) - count + 1
             b == Cardinality(high)
  <2>1. a \in Nat /\ b \in Nat /\ 1 <= a /\ a <= b + 1 /\ b - a + 1 = count  BY <1>2
  <2>2. /\ Between(high, key, a, b) \subseteq high
        /\ Cardinality(Between(high, key, a, b)) = b - a + 1
    <3>1. b <= Cardinality(high)  BY <1>2
    <3>2. AsManyBetween(high, key)  BY PlacesHoldAsMany
    <3> HIDE DEF a, b
    <3> QED BY <2>1, <3>1, <3>2 DEF AsManyBetween
  <2>3. relegated = Between(high, key, a, b)  BY <1>2 DEF Between
  <2> HIDE DEF a, b, relegated
  <2> QED BY <2>1, <2>2, <2>3
<1>5. /\ Exchange(high, low, key, count).promoted = promoted
      /\ Exchange(high, low, key, count).relegated = relegated
      /\ Contested(high, relegated, Ranks(high, key)) = {}
      /\ Contested(low, promoted, Ranks(low, key)) = {}
  <2> DEFINE c == Contested(high, relegated, Ranks(high, key))
                  \cup Contested(low, promoted, Ranks(low, key))
  <2>1. Exchange(high, low, key, count)
          = [promoted |-> promoted, relegated |-> relegated, contested |-> c]
    BY DEF Exchange
  <2> HIDE DEF promoted, relegated, c
  <2>2. /\ Exchange(high, low, key, count).promoted = promoted
        /\ Exchange(high, low, key, count).relegated = relegated
        /\ c = {}
    BY <2>1
  <2> QED BY <2>2 DEF c
<1> HIDE DEF lowOrder, highOrder
<1>6. ASSUME NEW m \in promoted, NEW n \in low \ promoted PROVE Beats(key[m], key[n])
  <2>1. PICK i \in 1..count : lowOrder[i] = m  OBVIOUS
  <2>2. PICK j \in 1..Cardinality(low) : lowOrder[j] = n  BY <1>1
  <2>3. i < j
    <3>1. SUFFICES ASSUME j <= i PROVE FALSE  BY <1>1
    <3>2. j \in 1..count  BY <3>1
    <3> QED BY <3>2, <2>2
  <2>4. i \in 1..Cardinality(low)  BY <1>1
  <2>5. Ahead(key, m, n)  BY <1>1, <2>1, <2>2, <2>3, <2>4
  <2>6. m \in low /\ n # m  BY <1>3
  <2>7. key[m] # key[n]
    <3>1. promoted \in SUBSET low  BY <1>3
    <3> HIDE DEF promoted
    <3>2. Apart(low, key, promoted)  BY <3>1, <1>5, UncontestedApart
    <3> QED BY <3>2, <2>6 DEF Apart
  <2> QED BY <2>5, <2>7 DEF Ahead
<1>7. ASSUME NEW m \in relegated, NEW n \in high \ relegated PROVE Beats(key[n], key[m])
  <2>1. PICK i \in (Cardinality(high) - count + 1)..Cardinality(high) : highOrder[i] = m
    BY <1>2
  <2>2. PICK j \in 1..Cardinality(high) : highOrder[j] = n  BY <1>2
  <2>3. j < i
    <3>1. SUFFICES ASSUME i <= j PROVE FALSE  BY <1>2
    <3>2. j \in (Len(highOrder) - count + 1)..Len(highOrder)  BY <1>2, <3>1
    <3> QED BY <3>2, <2>2
  <2>4. i \in 1..Cardinality(high)  BY <1>2
  <2>5. Ahead(key, n, m)  BY <1>2, <2>1, <2>2, <2>3, <2>4
  <2>6. m \in high /\ n # m  BY <1>4
  <2>7. key[m] # key[n]
    <3>1. relegated \in SUBSET high  BY <1>4
    <3> HIDE DEF relegated
    <3>2. Apart(high, key, relegated)  BY <3>1, <1>5, UncontestedApart
    <3> QED BY <3>2, <2>6 DEF Apart
  <2> QED BY <2>5, <2>7 DEF Ahead
<1> HIDE DEF promoted, relegated
<1> QED BY <1>3, <1>4, <1>5, <1>6, <1>7

-----------------------------------------------------------------------------
(* The circle method. *)

\* Who sits at place i of round k, as his place in round 0: the others move round
\* the first.
Seat(n, k, i) == IF i = 1 THEN 1 ELSE IF i - 2 - k >= 0 THEN i - k ELSE i - k + n - 1

\* In every round everybody has a place, and his own.
LEMMA EverybodySits ==
  ASSUME NEW n \in Nat, NEW k \in Nat, k <= n - 2
  PROVE  /\ \A i \in 1..n : Seat(n, k, i) \in 1..n
         /\ \A i, j \in 1..n : Seat(n, k, i) = Seat(n, k, j) => i = j
         /\ \A j \in 1..n : \E i \in 1..n : Seat(n, k, i) = j
<1>1. \A i \in 1..n : Seat(n, k, i) \in 1..n  BY DEF Seat
<1>2. \A i, j \in 1..n : Seat(n, k, i) = Seat(n, k, j) => i = j  BY DEF Seat
<1>3. ASSUME NEW j \in 1..n PROVE \E i \in 1..n : Seat(n, k, i) = j
  <2> DEFINE i == IF j = 1 THEN 1 ELSE IF j + k <= n THEN j + k ELSE j + k - n + 1
  <2>1. i \in 1..n /\ Seat(n, k, i) = j  BY DEF Seat
  <2> QED BY <2>1
<1> QED BY <1>1, <1>2, <1>3

\* From one round to the next the last moves to the second place and the others,
\* but the first, one place on.
LEMMA SeatsMoveOn ==
  ASSUME NEW n \in Nat, NEW k \in Nat, k + 1 <= n - 2
  PROVE  \A i \in 1..n :
           Seat(n, k + 1, i) = IF i = 1 THEN Seat(n, k, 1)
                               ELSE IF i = 2 THEN Seat(n, k, n) ELSE Seat(n, k, i - 1)
BY DEF Seat

\* Two who face each other in two rounds would have moved round an odd table by
\* half of it: nobody meets the same opponent twice.
LEMMA NobodyFacedTwice ==
  ASSUME NEW h \in Nat, NEW n \in Nat, n = 2 * h,
         NEW k \in Nat, k <= n - 2, NEW l \in Nat, l <= n - 2,
         NEW i \in 1..h, NEW j \in 1..h,
         \/ Seat(n, k, i) = Seat(n, l, j) /\ Seat(n, k, n + 1 - i) = Seat(n, l, n + 1 - j)
         \/ Seat(n, k, i) = Seat(n, l, n + 1 - j) /\ Seat(n, k, n + 1 - i) = Seat(n, l, j)
  PROVE  k = l /\ i = j
<1> DEFINE a == Seat(n, k, i)  b == Seat(n, k, n + 1 - i)
           c == Seat(n, l, j)  d == Seat(n, l, n + 1 - j)
<1>1. a + b = c + d /\ (a = 1 \/ b = 1 <=> c = 1 \/ d = 1)
  <2>1. a \in Int /\ b \in Int /\ c \in Int /\ d \in Int  BY DEF Seat
  <2> HIDE DEF a, b, c, d
  <2>2. (a = c /\ b = d) \/ (a = d /\ b = c)  BY DEF a, b, c, d
  <2> QED BY <2>1, <2>2
<1>2. (i = 1 <=> a = 1 \/ b = 1) /\ (j = 1 <=> c = 1 \/ d = 1)  BY DEF Seat
<1>3. i = 1 <=> j = 1  BY <1>1, <1>2
<1>4. k = l
  <2>1. CASE i = 1
    <3>1. b = n - k /\ d = n - l /\ a = 1 /\ c = 1  BY <1>3, <2>1 DEF Seat
    <3> HIDE DEF a, b, c, d
    <3> QED BY <1>1, <3>1
  <2>2. CASE i # 1
    <3>1. \/ a + b = n + 1 - 2 * k
          \/ a + b = n + 1 - 2 * k + (n - 1)
          \/ a + b = n + 1 - 2 * k + 2 * (n - 1)
      BY <2>2 DEF Seat
    <3>2. \/ c + d = n + 1 - 2 * l
          \/ c + d = n + 1 - 2 * l + (n - 1)
          \/ c + d = n + 1 - 2 * l + 2 * (n - 1)
      BY <1>3, <2>2 DEF Seat
    <3> HIDE DEF a, b, c, d
    <3>3. \/ 2 * k = 2 * l
          \/ 2 * k = 2 * l + (n - 1) \/ 2 * l = 2 * k + (n - 1)
          \/ 2 * k = 2 * l + 2 * (n - 1) \/ 2 * l = 2 * k + 2 * (n - 1)
      BY <1>1, <3>1, <3>2
    <3> QED BY <3>3
  <2> QED BY <2>1, <2>2
<1>5. \A x, y \in 1..n : Seat(n, k, x) = Seat(n, k, y) => x = y  BY EverybodySits
<1>6. i \in 1..n /\ j \in 1..n /\ n + 1 - j \in 1..n  OBVIOUS
<1>7. i = j \/ i = n + 1 - j  BY <1>4, <1>5, <1>6
<1> QED BY <1>4, <1>7

\* The seats as the rounds make them one after the other.
SeatTable(ids, n, rounds, seats) ==
  seats = [k \in 0..(rounds - 1) |->
             IF k = 0 THEN ids
             ELSE <<seats[k - 1][1], seats[k - 1][n]>> \o SubSeq(seats[k - 1], 2, n - 1)]

\* So are the lists the circle method turns through.
LEMMA SeatTableExists ==
  ASSUME NEW ids, NEW n, NEW rounds \in Nat
  PROVE  \E seats : SeatTable(ids, n, rounds, seats)
<1> DEFINE Good == {r \in Nat : \E seats : SeatTable(ids, n, r, seats)}
           Turn(row) == <<row[1], row[n]>> \o SubSeq(row, 2, n - 1)
<1>1. 0 \in Good
  <2> DEFINE seats == [k \in 0..(0 - 1) |-> ids]
  <2>1. SeatTable(ids, n, 0, seats)  BY DEF SeatTable
  <2> QED BY <2>1
<1>2. ASSUME NEW r \in Nat, r \in Good PROVE r + 1 \in Good
  <2>1. PICK seats : SeatTable(ids, n, r, seats)  BY <1>2
  <2> DEFINE more == [k \in 0..((r + 1) - 1) |-> IF k = 0 THEN ids ELSE Turn(seats[k - 1])]
  <2>2. \A k \in 0..(r - 1) : more[k] = seats[k]
    <3>1. \A k \in 0..(r - 1) : seats[k] = IF k = 0 THEN ids ELSE Turn(seats[k - 1])
      BY <2>1 DEF SeatTable
    <3>2. \A k \in 0..(r - 1) : k \in 0..((r + 1) - 1)  OBVIOUS
    <3> HIDE DEF Turn
    <3> QED BY <3>1, <3>2
  <2>3. \A k \in 0..((r + 1) - 1) : k # 0 => more[k - 1] = seats[k - 1]
    <3>1. \A k \in 0..((r + 1) - 1) : k # 0 => k - 1 \in 0..(r - 1)  OBVIOUS
    <3> HIDE DEF more
    <3> QED BY <2>2, <3>1
  <2>4. more = [k \in 0..((r + 1) - 1) |-> IF k = 0 THEN ids ELSE Turn(more[k - 1])]
    <3>1. \A k \in 0..((r + 1) - 1) :
            (IF k = 0 THEN ids ELSE Turn(seats[k - 1]))
              = IF k = 0 THEN ids ELSE Turn(more[k - 1])
      <4> HIDE DEF more, Turn
      <4> QED BY <2>3
    <3> HIDE DEF Turn
    <3> QED BY <3>1
  <2>5. SeatTable(ids, n, r + 1, more)
    <3> HIDE DEF more
    <3> QED BY <2>4 DEF SeatTable
  <2> QED BY <2>5
<1>3. rounds \in Good
  <2> HIDE DEF Good
  <2> QED BY <1>1, <1>2, NumberInduction
<1> QED BY <1>3 DEF Good

SeatedAsSaid(ids, n, rounds, seats) ==
  \A k \in 0..(rounds - 1), i \in 1..n : seats[k][i] = ids[Seat(n, k, i)]

\* Everybody sits where Seat says.
LEMMA SeatsAreAsSaid ==
  ASSUME NEW P, NEW n \in Nat, n >= 2, NEW ids \in [1..n -> P],
         NEW rounds \in Nat, rounds < n, NEW seats, SeatTable(ids, n, rounds, seats)
  PROVE  SeatedAsSaid(ids, n, rounds, seats)
<1> DEFINE Row(k) == [i \in 1..n |-> ids[Seat(n, k, i)]]
           Good == {k \in Nat : k \in 0..(rounds - 1) => seats[k] = Row(k)}
<1>1. 0 \in Good
  <2>1. \A i \in 1..n : Seat(n, 0, i) = i  BY DEF Seat
  <2>2. Row(0) = ids  BY <2>1
  <2>3. 0 \in 0..(rounds - 1) => seats[0] = ids  BY DEF SeatTable
  <2> QED BY <2>2, <2>3
<1>2. ASSUME NEW k \in Nat, k \in Good PROVE k + 1 \in Good
  <2>1. SUFFICES ASSUME k + 1 \in 0..(rounds - 1) PROVE seats[k + 1] = Row(k + 1)
    OBVIOUS
  <2> DEFINE row == seats[k]  front == <<row[1], row[n]>>  back == SubSeq(row, 2, n - 1)
  <2>2. seats[k + 1] = front \o back
    <3>1. k + 1 # 0 /\ (k + 1) - 1 = k  OBVIOUS
    <3> QED BY <2>1, <3>1 DEF SeatTable
  <2>3. row = Row(k) /\ k + 1 <= n - 2
    <3>1. k \in 0..(rounds - 1) /\ k + 1 <= n - 2  BY <2>1
    <3> QED BY <1>2, <3>1
  <2>4. \A i \in 1..n : row[i] \in P
    <3>1. \A i \in 1..n : Seat(n, k, i) \in 1..n  BY <2>3, EverybodySits
    <3> QED BY <2>3, <3>1
  <2> HIDE DEF row
  <2>5. front \in Seq(P) /\ Len(front) = 2 /\ front[1] = row[1] /\ front[2] = row[n]
    <3>1. row[1] \in P /\ row[n] \in P  BY <2>4
    <3> QED BY <3>1
  <2>6. /\ back \in Seq(P) /\ Len(back) = n - 2
        /\ \A i \in 1..(n - 2) : back[i] = row[i + 1]
    <3>1. /\ 2 \in Int /\ n - 1 \in Int /\ (n - 1) - 2 + 1 = n - 2
          /\ \A i \in 2..(n - 1) : row[i] \in P
      BY <2>4
    <3>2. /\ back \in Seq(P)
          /\ Len(back) = IF 2 <= n - 1 THEN (n - 1) - 2 + 1 ELSE 0
          /\ \A i \in 1..((n - 1) - 2 + 1) : back[i] = row[2 + i - 1]
      BY <3>1, SubSeqProperties
    <3>3. \A i \in 1..(n - 2) : 2 + i - 1 = i + 1  OBVIOUS
    <3> QED BY <3>2, <3>3
  <2> HIDE DEF front, back
  <2>7. /\ front \o back \in Seq(P)
        /\ Len(front \o back) = n
        /\ \A i \in 1..n : (front \o back)[i] = IF i <= 2 THEN front[i] ELSE back[i - 2]
    <3>1. /\ front \o back \in Seq(P)
          /\ Len(front \o back) = Len(front) + Len(back)
          /\ \A i \in 1..(Len(front) + Len(back)) : (front \o back)[i] =
               IF i <= Len(front) THEN front[i] ELSE back[i - Len(front)]
      BY <2>5, <2>6, ConcatProperties
    <3>2. Len(front) + Len(back) = n  BY <2>5, <2>6
    <3> QED BY <2>5, <3>1, <3>2
  <2>8. \A i \in 1..n : (front \o back)[i] = Row(k + 1)[i]
    <3> SUFFICES ASSUME NEW i \in 1..n PROVE (front \o back)[i] = ids[Seat(n, k + 1, i)]
      OBVIOUS
    <3>1. Seat(n, k + 1, i) = IF i = 1 THEN Seat(n, k, 1)
                              ELSE IF i = 2 THEN Seat(n, k, n) ELSE Seat(n, k, i - 1)
      BY <2>3, SeatsMoveOn
    <3>2. i = 1 \/ i = 2 \/ i \in 3..n  OBVIOUS
    <3>3. \A j \in 1..n : row[j] = ids[Seat(n, k, j)]  BY <2>3
    <3>4. CASE i = 1
      BY <2>5, <2>7, <3>1, <3>3, <3>4
    <3>5. CASE i = 2
      BY <2>5, <2>7, <3>1, <3>3, <3>5
    <3>6. CASE i \in 3..n
      <4>1. i - 2 \in 1..(n - 2) /\ (i - 2) + 1 = i - 1 /\ i - 1 \in 1..n
            /\ ~(i <= 2) /\ i # 1 /\ i # 2
        BY <3>6
      <4>2. (front \o back)[i] = row[i - 1]  BY <2>6, <2>7, <4>1
      <4> QED BY <3>1, <3>3, <4>1, <4>2
    <3> QED BY <3>2, <3>4, <3>5, <3>6
  <2>9. DOMAIN (front \o back) = 1..n /\ DOMAIN Row(k + 1) = 1..n
    BY <2>7, LenProperties
  <2>10. front \o back = [i \in 1..n |-> (front \o back)[i]]
    BY <2>7, LenProperties
  <2> HIDE DEF Row
  <2>11. Row(k + 1) = [i \in 1..n |-> Row(k + 1)[i]]  BY DEF Row
  <2> QED BY <2>2, <2>8, <2>10, <2>11
<1>3. \A k \in Nat : k \in Good
  <2> HIDE DEF Good
  <2> QED BY <1>1, <1>2, NumberInduction
<1>4. \A k \in 0..(rounds - 1) : k \in Nat  OBVIOUS
<1>5. \A k \in 0..(rounds - 1) : seats[k] = Row(k)
  <2> HIDE DEF Row
  <2>1. \A k \in 0..(rounds - 1) : k \in Good
    <3> HIDE DEF Good
    <3> QED BY <1>3, <1>4
  <2> QED BY <2>1
<1>6. \A k \in 0..(rounds - 1), i \in 1..n : Row(k)[i] = ids[Seat(n, k, i)]
  OBVIOUS
<1> HIDE DEF Row
<1> QED BY <1>5, <1>6 DEF SeatedAsSaid

\* The two who face each other at place i of round k.
Faces(ids, n, k, i) == {ids[Seat(n, k, i)], ids[Seat(n, k, n + 1 - i)]}

Pairing(seats, n, k, i) ==
  [round |-> k,
   home |-> seats[k][IF k % 2 = 1 /\ i = 1 THEN n + 1 - i ELSE i],
   away |-> seats[k][IF k % 2 = 1 /\ i = 1 THEN i ELSE n + 1 - i]]

IsPairing(d) == d = [round |-> d.round, home |-> d.home, away |-> d.away]

\* A draw has one pairing for each of the first half of the places of each round,
\* between the two who face each other there.
PairsThoseWhoFace(ids, n, h, rounds, draw) ==
  \E d : /\ \A k \in 0..(rounds - 1), i \in 1..h :
              /\ IsPairing(d[k][i])
              /\ d[k][i].round = k
              /\ {d[k][i].home, d[k][i].away} = Faces(ids, n, k, i)
              /\ d[k][i] \in draw
         /\ \A e \in draw : \E k \in 0..(rounds - 1), i \in 1..h : e = d[k][i]

\* So does the circle method's.
LEMMA DrawFromSeats ==
  ASSUME NEW P, NEW h \in Nat \ {0}, NEW n \in Nat, n = 2 * h, NEW ids \in [1..n -> P],
         NEW rounds \in Nat, rounds < n
  PROVE  PairsThoseWhoFace(ids, n, h, rounds, RoundRobin(ids, rounds))
<1> DEFINE N == Len(ids)
           seats[k \in 0..(rounds - 1)] ==
             IF k = 0 THEN ids
             ELSE <<seats[k - 1][1], seats[k - 1][N]>> \o SubSeq(seats[k - 1], 2, N - 1)
<1>1. N = n /\ N \div 2 = h  OBVIOUS
<1>2. SeatTable(ids, N, rounds, seats)
  <2>1. \E table : SeatTable(ids, N, rounds, table)  BY SeatTableExists
  <2> QED BY <2>1 DEF SeatTable
<1>3. RoundRobin(ids, rounds)
        = {Pairing(seats, N, k, i) : k \in 0..(rounds - 1), i \in 1..(N \div 2)}
  BY DEF RoundRobin, Pairing
<1> HIDE DEF seats, N
<1>4. SeatedAsSaid(ids, n, rounds, seats)
  <2>1. n >= 2 /\ SeatTable(ids, n, rounds, seats)  BY <1>1, <1>2
  <2> QED BY <2>1, SeatsAreAsSaid
<1> DEFINE d == [k \in 0..(rounds - 1) |-> [i \in 1..h |-> Pairing(seats, n, k, i)]]
<1>5. \A k \in 0..(rounds - 1), i \in 1..h : d[k][i] = Pairing(seats, n, k, i)
  OBVIOUS
<1> HIDE DEF d
<1>6. ASSUME NEW k \in 0..(rounds - 1), NEW i \in 1..h
      PROVE  /\ IsPairing(d[k][i])
             /\ d[k][i].round = k
             /\ {d[k][i].home, d[k][i].away} = Faces(ids, n, k, i)
  <2> DEFINE a == seats[k][i]
             b == seats[k][n + 1 - i]
             one == k % 2 = 1 /\ i = 1
  <2>1. i \in 1..n /\ n + 1 - i \in 1..n  OBVIOUS
  <2>2. Faces(ids, n, k, i) = {a, b}  BY <1>4, <2>1 DEF SeatedAsSaid, Faces
  <2>3. d[k][i] = [round |-> k, home |-> seats[k][IF one THEN n + 1 - i ELSE i],
                       away |-> seats[k][IF one THEN i ELSE n + 1 - i]]
    BY <1>5 DEF Pairing
  <2> HIDE DEF one
  <2>4. d[k][i] = [round |-> k, home |-> IF one THEN b ELSE a,
                       away |-> IF one THEN a ELSE b]
    BY <2>3
  <2>5. IsPairing(d[k][i]) /\ d[k][i].round = k  BY <2>4 DEF IsPairing
  <2> QED BY <2>2, <2>4, <2>5
<1>7. /\ \A k \in 0..(rounds - 1), i \in 1..h : d[k][i] \in RoundRobin(ids, rounds)
      /\ \A e \in RoundRobin(ids, rounds) :
           \E k \in 0..(rounds - 1), i \in 1..h : e = d[k][i]
  <2>1. RoundRobin(ids, rounds)
          = {Pairing(seats, n, k, i) : k \in 0..(rounds - 1), i \in 1..h}
    BY <1>1, <1>3
  <2> QED BY <1>5, <2>1
<1> SUFFICES \E x : /\ \A k \in 0..(rounds - 1), i \in 1..h :
                         /\ IsPairing(x[k][i])
                         /\ x[k][i].round = k
                         /\ {x[k][i].home, x[k][i].away} = Faces(ids, n, k, i)
                         /\ x[k][i] \in RoundRobin(ids, rounds)
                    /\ \A e \in RoundRobin(ids, rounds) :
                         \E k \in 0..(rounds - 1), i \in 1..h : e = x[k][i]
  BY DEF PairsThoseWhoFace
<1> WITNESS d
<1> QED BY <1>6, <1>7

\* A draw is of pairings of the field, in the rounds there are.
DrawOfField(P, rounds, draw) ==
  \A d \in draw : /\ IsPairing(d)
                   /\ d.round \in 0..(rounds - 1) /\ d.home \in P /\ d.away \in P

\* So is the circle method's.
LEMMA DrawIsOfField ==
  ASSUME NEW P, NEW h \in Nat \ {0}, NEW n \in Nat, n = 2 * h, NEW ids \in [1..n -> P],
         NEW rounds \in Nat, rounds < n
  PROVE  DrawOfField(P, rounds, RoundRobin(ids, rounds))
<1> DEFINE draw == RoundRobin(ids, rounds)
<1>2. PairsThoseWhoFace(ids, n, h, rounds, draw)  BY DrawFromSeats
<1> HIDE DEF draw
<1>3. ASSUME NEW d \in draw
      PROVE  /\ IsPairing(d)
             /\ d.round \in 0..(rounds - 1) /\ d.home \in P /\ d.away \in P
  <2>1. PICK p : /\ \A k \in 0..(rounds - 1), i \in 1..h :
                      /\ IsPairing(p[k][i])
                      /\ p[k][i].round = k
                      /\ {p[k][i].home, p[k][i].away} = Faces(ids, n, k, i)
                /\ \A e \in draw : \E k \in 0..(rounds - 1), i \in 1..h : e = p[k][i]
    BY <1>2 DEF PairsThoseWhoFace
  <2>2. PICK k \in 0..(rounds - 1), i \in 1..h : d = p[k][i]  BY <2>1
  <2>3. k \in Nat /\ k <= n - 2 /\ i \in 1..n /\ n + 1 - i \in 1..n  OBVIOUS
  <2>4. \A x \in 1..n : Seat(n, k, x) \in 1..n  BY <2>3, EverybodySits
  <2>5. Faces(ids, n, k, i) \subseteq P  BY <2>3, <2>4 DEF Faces
  <2> DEFINE two == {p[k][i].home, p[k][i].away}
  <2>6. two = Faces(ids, n, k, i) /\ p[k][i].home \in two /\ p[k][i].away \in two
    BY <2>1
  <2> HIDE DEF two
  <2>9. p[k][i].home \in P /\ p[k][i].away \in P  BY <2>5, <2>6
  <2>7. IsPairing(p[k][i])  BY <2>1
  <2>8. p[k][i].round = k  BY <2>1
  <2> QED BY <2>2, <2>7, <2>8, <2>9
<1> QED BY <1>3 DEF DrawOfField, draw

\* There are finitely many pairings.
LEMMA DrawIsFinite ==
  ASSUME NEW P, NEW h \in Nat \ {0}, NEW n \in Nat, n = 2 * h, NEW ids \in [1..n -> P],
         NEW rounds \in Nat, rounds < n
  PROVE  IsFiniteSet(RoundRobin(ids, rounds))
<1> DEFINE draw == RoundRobin(ids, rounds)
           K == 0..(rounds - 1)
           places == K \X (1..h)
<1>1. PairsThoseWhoFace(ids, n, h, rounds, draw)  BY DrawFromSeats
<1> HIDE DEF draw
<1>2. PICK p : /\ \A k \in K, i \in 1..h : p[k][i] \in draw
               /\ \A e \in draw : \E k \in K, i \in 1..h : e = p[k][i]
  BY <1>1 DEF PairsThoseWhoFace
<1> DEFINE f == [x \in places |-> p[x[1]][x[2]]]
<1>3. IsFiniteSet(places)
  <2>1. IsFiniteSet(K) /\ IsFiniteSet(1..h)  BY FS_Interval
  <2> HIDE DEF K
  <2> QED BY <2>1, FS_Product
<1>4. \A e \in draw : \E x \in places : f[x] = e
  <2> SUFFICES ASSUME NEW e \in draw PROVE \E x \in places : f[x] = e  OBVIOUS
  <2>1. PICK k \in K, i \in 1..h : e = p[k][i]  BY <1>2
  <2>2. <<k, i>> \in places /\ f[<<k, i>>] = p[k][i]  OBVIOUS
  <2> QED BY <2>1, <2>2
<1>5. f \in Surjection(places, draw)
  <2>1. \A x \in places : f[x] \in draw  BY <1>2
  <2>2. f \in [places -> draw]
    <3> HIDE DEF places
    <3> QED BY <2>1
  <2> HIDE DEF f, places
  <2> QED BY <1>4, <2>2 DEF Surjection
<1> HIDE DEF f, places
<1> QED BY <1>3, <1>5, FS_Surjection DEF draw

\* The circle method is fair: with an even number of managers, and fewer rounds than
\* managers, everybody plays once in every round and nobody meets the same opponent
\* twice.
THEOREM CircleMethodIsFair ==
  ASSUME NEW P, NEW h \in Nat \ {0}, NEW n \in Nat, n = 2 * h, NEW ids \in [1..n -> P],
         \A i, j \in 1..n : ids[i] = ids[j] => i = j,
         NEW rounds \in Nat, rounds < n
  PROVE  IsFairDraw(ids, rounds, RoundRobin(ids, rounds))
<1> DEFINE K == 0..(rounds - 1)
           draw == RoundRobin(ids, rounds)
<1>1. PairsThoseWhoFace(ids, n, h, rounds, draw)  BY DrawFromSeats
<1> HIDE DEF draw
<1>2. PICK p : /\ \A k \in K, i \in 1..h :
                     /\ IsPairing(p[k][i])
                     /\ p[k][i].round = k
                     /\ {p[k][i].home, p[k][i].away} = Faces(ids, n, k, i)
                     /\ p[k][i] \in draw
               /\ \A e \in draw : \E k \in K, i \in 1..h : e = p[k][i]
  BY <1>1 DEF PairsThoseWhoFace
<1>3. ASSUME NEW k \in K, NEW l \in K, NEW i \in 1..h, NEW j \in 1..h,
             Faces(ids, n, k, i) = Faces(ids, n, l, j)
      PROVE  k = l /\ i = j
  <2>1. k \in Nat /\ k <= n - 2 /\ l \in Nat /\ l <= n - 2  OBVIOUS
  <2>2. i \in 1..n /\ n + 1 - i \in 1..n /\ j \in 1..n /\ n + 1 - j \in 1..n  OBVIOUS
  <2> DEFINE a == Seat(n, k, i)  b == Seat(n, k, n + 1 - i)
             c == Seat(n, l, j)  d == Seat(n, l, n + 1 - j)
  <2>3. a \in 1..n /\ b \in 1..n /\ c \in 1..n /\ d \in 1..n
    <3>1. \A x \in 1..n : Seat(n, k, x) \in 1..n  BY <2>1, EverybodySits
    <3>2. \A x \in 1..n : Seat(n, l, x) \in 1..n  BY <2>1, EverybodySits
    <3> QED BY <2>2, <3>1, <3>2
  <2>4. {ids[a], ids[b]} = {ids[c], ids[d]}  BY <1>3 DEF Faces
  <2> HIDE DEF a, b, c, d
  <2>5. \/ ids[a] = ids[c] /\ ids[b] = ids[d]
        \/ ids[a] = ids[d] /\ ids[b] = ids[c]
    BY <2>4
  <2>6. (a = c /\ b = d) \/ (a = d /\ b = c)  BY <2>3, <2>5
  <2> QED BY <2>1, <2>6, NobodyFacedTwice DEF a, b, c, d
<1>4. ASSUME NEW k \in K, NEW i \in 1..h
      PROVE  ids[Seat(n, k, i)] # ids[Seat(n, k, n + 1 - i)]
  <2>1. k \in Nat /\ k <= n - 2 /\ i \in 1..n /\ n + 1 - i \in 1..n /\ i # n + 1 - i
    OBVIOUS
  <2>2. /\ \A x \in 1..n : Seat(n, k, x) \in 1..n
        /\ \A x, y \in 1..n : Seat(n, k, x) = Seat(n, k, y) => x = y
    BY <2>1, EverybodySits
  <2> QED BY <2>1, <2>2
<1>5. \A d, e \in draw : {d.home, d.away} = {e.home, e.away} => d = e
  <2> SUFFICES ASSUME NEW d \in draw, NEW e \in draw, {d.home, d.away} = {e.home, e.away}
               PROVE  d = e
    OBVIOUS
  <2>1. PICK k \in K, i \in 1..h : d = p[k][i]  BY <1>2
  <2>2. PICK l \in K, j \in 1..h : e = p[l][j]  BY <1>2
  <2> DEFINE D == {d.home, d.away}  E == {e.home, e.away}
  <2>3. D = Faces(ids, n, k, i) /\ E = Faces(ids, n, l, j)
    <3>1. D = {p[k][i].home, p[k][i].away} /\ E = {p[l][j].home, p[l][j].away}
      BY <2>1, <2>2
    <3> HIDE DEF D, E
    <3> QED BY <1>2, <3>1
  <2>4. D = E  OBVIOUS
  <2> HIDE DEF D, E
  <2> QED BY <1>3, <2>1, <2>2, <2>3, <2>4
<1>6. \A d \in draw : d.home # d.away
  <2> SUFFICES ASSUME NEW d \in draw PROVE d.home # d.away  OBVIOUS
  <2>1. PICK k \in K, i \in 1..h : d = p[k][i]  BY <1>2
  <2> DEFINE a == ids[Seat(n, k, i)]  b == ids[Seat(n, k, n + 1 - i)]
             home == p[k][i].home  away == p[k][i].away
  <2>2. {home, away} = Faces(ids, n, k, i)  BY <1>2
  <2>7. Faces(ids, n, k, i) = {a, b}  BY DEF Faces
  <2>3. a # b  BY <1>4
  <2>4. d.home = home /\ d.away = away  BY <2>1
  <2> HIDE DEF a, b, home, away
  <2>5. a \in {home, away} /\ b \in {home, away}  BY <2>2, <2>7
  <2>6. home # away  BY <2>3, <2>5
  <2> QED BY <2>4, <2>6
<1>7. ASSUME NEW s \in 1..n, NEW k \in K
      PROVE  Cardinality({d \in draw : d.round = k /\ ids[s] \in {d.home, d.away}}) = 1
  <2> DEFINE mine == {d \in draw : d.round = k /\ ids[s] \in {d.home, d.away}}
  <2>1. k \in Nat /\ k <= n - 2  OBVIOUS
  <2>2. PICK x \in 1..n : Seat(n, k, x) = s  BY <2>1, EverybodySits
  <2> DEFINE i == IF x <= h THEN x ELSE n + 1 - x
  <2>3. i \in 1..h /\ (x = i \/ x = n + 1 - i)  OBVIOUS
  <2>4. ids[s] \in Faces(ids, n, k, i)  BY <2>2, <2>3 DEF Faces
  <2>5. p[k][i] \in mine  BY <1>2, <2>3, <2>4
  <2>6. ASSUME NEW d \in mine PROVE d = p[k][i]
    <3>1. PICK l \in K, j \in 1..h : d = p[l][j]  BY <1>2
    <3>2. l = k /\ ids[s] \in Faces(ids, n, k, j)  BY <1>2, <3>1
    <3>3. s = Seat(n, k, j) \/ s = Seat(n, k, n + 1 - j)
      <4>1. j \in 1..n /\ n + 1 - j \in 1..n  OBVIOUS
      <4>2. \A y \in 1..n : Seat(n, k, y) \in 1..n  BY <2>1, EverybodySits
      <4> QED BY <3>2, <4>1, <4>2 DEF Faces
    <3>4. x = j \/ x = n + 1 - j
      <4>1. j \in 1..n /\ n + 1 - j \in 1..n  OBVIOUS
      <4>2. \A y, z \in 1..n : Seat(n, k, y) = Seat(n, k, z) => y = z
        BY <2>1, EverybodySits
      <4> QED BY <2>2, <3>3, <4>1, <4>2
    <3>5. i = j  BY <3>4
    <3> QED BY <3>1, <3>2, <3>5
  <2>7. mine = {p[k][i]}
    <3> HIDE DEF mine, i
    <3> QED BY <2>5, <2>6
  <2> HIDE DEF mine
  <2>8. Cardinality(mine) = 1  BY <2>7, FS_Singleton
  <2> QED BY <2>8 DEF mine
<1>8. DOMAIN ids = 1..n  OBVIOUS
<1>9. \A m \in {ids[i] : i \in DOMAIN ids}, k \in K :
        Cardinality({d \in draw : d.round = k /\ m \in {d.home, d.away}}) = 1
  BY <1>7, <1>8
<1> QED BY <1>5, <1>6, <1>9 DEF IsFairDraw, draw
=============================================================================
