---------------------------------- MODULE Sums ----------------------------------
(***************************************************************************)
(* Sums over finite sets: MapThenSumSet of the community modules is        *)
(* defined by recursion over an arbitrary choice of elements.  That it     *)
(* exists, does not depend on the order, and what it becomes when one      *)
(* element is taken out, is proved here by taking a smallest set for which *)
(* it would not be so.                                                     *)
(***************************************************************************)
EXTENDS Integers, FiniteSets, FiniteSetsExt, FiniteSetTheorems, TLAPS

Pick(s) == CHOOSE x \in s : TRUE

\* g follows the recursion on the parts of S, and gives each of them an integer.
Recurses(g, f, S) ==
  \A s \in SUBSET S : g[s] = IF s = {} THEN 0 ELSE f[Pick(s)] + g[s \ {Pick(s)}]

IsSum(g, f, S) == g \in [SUBSET S -> Int] /\ Recurses(g, f, S)

IntOn(f, S) == \A x \in S : f[x] \in Int

Agree(f, e, S) == \A x \in S : f[x] = e[x]

\* The sum of f over S.
Sum(f, S) == MapThenSumSet(LAMBDA x : f[x], S)

\* The members of S that k sends to c, and the sums over them.
Fibre(S, k, c) == {x \in S : k[x] = c}
FibreSums(f, S, k, C) == [c \in C |-> Sum(f, Fibre(S, k, c))]

\* A set of sets that has a member has a smallest one.
LEMMA Smallest ==
  ASSUME NEW S, IsFiniteSet(S), NEW B \in SUBSET SUBSET S, B # {}
  PROVE  \E T \in B : \A s \in B : s \subseteq T => s = T
<1>1. IsWellFoundedOn(StrictSubsetOrdering(S), SUBSET S)
  BY FS_StrictSubsetOrderingWellFounded, FS_FiniteSubsetsOfFinite
<1>2. PICK T \in B : \A s \in B : ~(<<s, T>> \in StrictSubsetOrdering(S))
  BY <1>1, WFMin
<1> QED BY <1>2 DEF StrictSubsetOrdering

LEMMA PickIn == \A s : s # {} => Pick(s) \in s
BY DEF Pick

\* Sums of functions that agree on a set agree on it.
LEMMA SumsAgree ==
  ASSUME NEW S, NEW R, IsFiniteSet(S), NEW f, NEW e, NEW g, NEW h,
         Recurses(g, f, S), Recurses(h, e, R), S \subseteq R,
         Agree(f, e, S)
  PROVE  \A s \in SUBSET S : g[s] = h[s]
<1> DEFINE B == {s \in SUBSET S : g[s] # h[s]}
<1>1. ASSUME B # {}
      PROVE  FALSE
  <2>1. PICK T \in B : \A s \in B : s \subseteq T => s = T
    <3>1. B \in SUBSET SUBSET S
      OBVIOUS
    <3> HIDE DEF B
    <3> QED BY <1>1, <3>1, Smallest
  <2>2. T # {} /\ T \in SUBSET S /\ T \in SUBSET R
    BY <2>1 DEF Recurses
  <2> DEFINE x == Pick(T)
  <2>3. x \in T
    BY <2>2, PickIn
  <2>4. g[T] = f[x] + g[T \ {x}] /\ h[T] = e[x] + h[T \ {x}]
    BY <2>2 DEF Recurses
  <2> HIDE DEF x
  <2>5. g[T \ {x}] = h[T \ {x}]
    BY <2>1, <2>2, <2>3
  <2> QED BY <2>1, <2>2, <2>3, <2>4, <2>5 DEF Agree
<1> QED BY <1>1

LEMMA SumIsUnique ==
  ASSUME NEW S, NEW R, IsFiniteSet(S), NEW f, NEW g, NEW h, Recurses(g, f, S),
         Recurses(h, f, R), S \subseteq R
  PROVE  \A s \in SUBSET S : g[s] = h[s]
<1>1. Agree(f, f, S)
  BY DEF Agree
<1> QED BY <1>1, SumsAgree, Z3

LEMMA SameRecursion ==
  ASSUME NEW S, IsFiniteSet(S), NEW f, NEW g, NEW h, Recurses(g, f, S), Recurses(h, f, S)
  PROVE  g[S] = h[S]
<1>1. \A s \in SUBSET S : g[s] = h[s]
  BY SumIsUnique, Z3
<1> QED BY <1>1

\* Any element may be taken out first.
LEMMA SumWithout ==
  ASSUME NEW S, IsFiniteSet(S), NEW f, IntOn(f, S), NEW g, IsSum(g, f, S)
  PROVE  \A s \in SUBSET S : \A x \in s : g[s] = f[x] + g[s \ {x}]
<1> DEFINE B == {s \in SUBSET S : \E x \in s : g[s] # f[x] + g[s \ {x}]}
<1>1. ASSUME B # {}
      PROVE  FALSE
  <2>1. PICK T \in B : \A s \in B : s \subseteq T => s = T
    <3>1. B \in SUBSET SUBSET S
      OBVIOUS
    <3> HIDE DEF B
    <3> QED BY <1>1, <3>1, Smallest
  <2>2. PICK x \in T : g[T] # f[x] + g[T \ {x}]
    BY <2>1
  <2> DEFINE y == Pick(T)
  <2>3. y \in T /\ T \in SUBSET S
    BY <2>1, <2>2, PickIn
  <2>4. g[T] = f[y] + g[T \ {y}]
    BY <2>2, <2>3 DEF IsSum, Recurses
  <2> HIDE DEF y
  <2>5. x # y
    BY <2>2, <2>4
  <2>6. g[T \ {y}] = f[x] + g[(T \ {y}) \ {x}]
    <3>1. T \ {y} \notin B
      BY <2>1, <2>3
    <3> QED BY <2>2, <2>3, <2>5, <3>1
  <2>7. g[T \ {x}] = f[y] + g[(T \ {x}) \ {y}]
    <3>1. T \ {x} \notin B
      BY <2>1, <2>2
    <3> QED BY <2>2, <2>3, <2>5, <3>1
  <2>8. (T \ {y}) \ {x} = (T \ {x}) \ {y}
    OBVIOUS
  <2>9. /\ f[x] \in Int /\ f[y] \in Int
        /\ g[(T \ {x}) \ {y}] \in Int
    BY <2>2, <2>3 DEF IsSum, Recurses, IntOn
  <2> DEFINE rest == g[(T \ {x}) \ {y}]
  <2>10. /\ g[T] = f[y] + g[T \ {y}] /\ g[T \ {y}] = f[x] + rest
         /\ g[T \ {x}] = f[y] + rest
         /\ f[x] \in Int /\ f[y] \in Int /\ rest \in Int
    BY <2>4, <2>6, <2>7, <2>8, <2>9
  <2> HIDE DEF rest
  <2>11. g[T] = f[x] + g[T \ {x}]
    BY <2>10
  <2> QED BY <2>2, <2>11
<1> QED BY <1>1

\* A function on a part of S is a sum there.
LEMMA SumOfPart ==
  ASSUME NEW S, NEW R, R \subseteq S, NEW f, NEW g, IsSum(g, f, S)
  PROVE  IsSum([s \in SUBSET R |-> g[s]], f, R)
<1> DEFINE h == [s \in SUBSET R |-> g[s]]
<1>1. h \in [SUBSET R -> Int] /\ h[{}] = 0
  BY DEF IsSum, Recurses
<1>2. ASSUME NEW s \in SUBSET R, s # {}
      PROVE  h[s] = f[Pick(s)] + h[s \ {Pick(s)}]
  BY <1>2 DEF IsSum, Recurses
<1> QED BY <1>1, <1>2 DEF IsSum, Recurses

\* There is a sum.
LEMMA SumExists ==
  ASSUME NEW S, IsFiniteSet(S), NEW f, IntOn(f, S)
  PROVE  \E g : IsSum(g, f, S)
<1> DEFINE B == {s \in SUBSET S : ~ \E g : IsSum(g, f, s)}
<1>1. ASSUME B # {}
      PROVE  FALSE
  <2>1. PICK T \in B : \A s \in B : s \subseteq T => s = T
    <3>1. B \in SUBSET SUBSET S
      OBVIOUS
    <3> HIDE DEF B
    <3> QED BY <1>1, <3>1, Smallest
  <2>2. T \in SUBSET S /\ ~ \E g : IsSum(g, f, T)
    BY <2>1
  <2>3. \A s \in SUBSET T : s # T => \E g : IsSum(g, f, s)
    BY <2>1, <2>2
  <2> HIDE DEF B
  <2> DEFINE of(s) == CHOOSE g : IsSum(g, f, s)
             x == Pick(T)
             h == [s \in SUBSET T |-> IF s # T THEN of(s)[s]
                                      ELSE IF T = {} THEN 0
                                      ELSE f[x] + of(T \ {x})[T \ {x}]]
  <2>4. \A s \in SUBSET T : s # T => IsSum(of(s), f, s)
    BY <2>3
  <2>5. ASSUME NEW s \in SUBSET T, NEW r \in SUBSET s, s # T
        PROVE  of(s)[r] = of(r)[r]
    <3>1. IsSum(of(s), f, s) /\ IsSum(of(r), f, r)
      BY <2>4, <2>5
    <3>2. IsFiniteSet(r)
      BY <2>2, FS_Subset
    <3> DEFINE g == of(r)  k == of(s)
    <3>3. Recurses(g, f, r) /\ Recurses(k, f, s)
      BY <3>1 DEF IsSum
    <3>4. r \subseteq s
      OBVIOUS
    <3> HIDE DEF g, k
    <3>5. \A a \in SUBSET r : g[a] = k[a]
      BY <3>2, <3>3, <3>4, SumIsUnique
    <3> QED BY <3>5 DEF g, k
  <2>6. \A s \in SUBSET T : s # T => of(s)[s] \in Int
    <3> HIDE DEF of
    <3> QED BY <2>4 DEF IsSum, Recurses
  <2>7. T # {} => x \in T /\ f[x] \in Int
    BY <2>2, PickIn DEF IntOn
  <2> HIDE DEF of
  <2>8. h \in [SUBSET T -> Int]
    <3>1. ASSUME NEW s \in SUBSET T
          PROVE  h[s] \in Int
      <4>1. CASE s # T
        BY <2>6, <4>1
      <4>2. CASE s = T /\ T # {}
        <5> HIDE DEF x
        <5>1. T \ {x} \in SUBSET T /\ T \ {x} # T
          BY <2>7, <4>2
        <5>2. of(T \ {x})[T \ {x}] \in Int
          BY <2>6, <5>1
        <5> QED BY <2>7, <4>2, <5>2
      <4> QED BY <4>1, <4>2
    <3> QED BY <3>1
  <2>9. h[{}] = 0
    <3>1. CASE T # {}
      <4>1. IsSum(of({}), f, {})
        BY <2>4, <3>1
      <4> QED BY <3>1, <4>1 DEF IsSum, Recurses
    <3> QED BY <3>1
  <2>10. ASSUME NEW s \in SUBSET T, s # {}
         PROVE  h[s] = f[Pick(s)] + h[s \ {Pick(s)}]
    <3> DEFINE y == Pick(s)  r == s \ {y}
    <3>1. y \in s
      BY <2>10, PickIn
    <3>2. r \in SUBSET s /\ r # T /\ r \in SUBSET T
      <4> HIDE DEF y
      <4> QED BY <3>1
    <3>3. h[r] = of(r)[r]
      BY <3>2
    <3>4. CASE s # T
      <4>1. h[s] = of(s)[s] /\ IsSum(of(s), f, s)
        BY <2>4, <3>4
      <4>2. of(s)[s] = f[y] + of(s)[r]
        BY <2>10, <4>1 DEF IsSum, Recurses
      <4>3. of(s)[r] = of(r)[r]
        BY <2>5, <3>2, <3>4
      <4> QED BY <3>3, <4>1, <4>2, <4>3
    <3>5. CASE s = T
      BY <2>10, <3>3, <3>5
    <3> QED BY <3>4, <3>5
  <2>11. IsSum(h, f, T)
    BY <2>8, <2>9, <2>10 DEF IsSum, Recurses
  <2> QED BY <2>2, <2>11
<1>2. S \notin B
  BY <1>1
<1> QED BY <1>2

-------------------------------------------------------------------------------
(***************************************************************************)
(* Sum.                                                                    *)
(***************************************************************************)

\* The recursion of the community modules is such a sum.
LEMMA SumIs ==
  ASSUME NEW S, IsFiniteSet(S), NEW f, IntOn(f, S), NEW g, IsSum(g, f, S)
  PROVE  Sum(f, S) = g[S]
<1> DEFINE iter == CHOOSE h :
             h = [s \in SUBSET S |->
                    IF s = {} THEN 0
                    ELSE f[CHOOSE x \in s : TRUE] + h[s \ {CHOOSE x \in s : TRUE}]]
<1>1. Sum(f, S) = iter[S]
  BY DEF Sum, MapThenSumSet, MapThenFoldSet
<1>2. g = [s \in SUBSET S |->
             IF s = {} THEN 0 ELSE f[CHOOSE x \in s : TRUE] + g[s \ {CHOOSE x \in s : TRUE}]]
  BY DEF IsSum, Recurses, Pick
<1>3. iter = [s \in SUBSET S |->
                IF s = {} THEN 0
                ELSE f[CHOOSE x \in s : TRUE] + iter[s \ {CHOOSE x \in s : TRUE}]]
  BY <1>2
<1> HIDE DEF iter
<1>4. Recurses(iter, f, S)
  BY <1>3 DEF Recurses, Pick
<1>5. Recurses(g, f, S) /\ S \subseteq S
  BY DEF IsSum
<1>6. iter[S] = g[S]
  BY <1>4, <1>5, SameRecursion
<1> QED BY <1>1, <1>6

LEMMA SumInt ==
  ASSUME NEW S, IsFiniteSet(S), NEW f, IntOn(f, S)
  PROVE  Sum(f, S) \in Int
<1>1. PICK g : IsSum(g, f, S)
  BY SumExists
<1>2. g[S] \in Int
  BY <1>1 DEF IsSum
<1> QED BY <1>1, <1>2, SumIs

\* One element is taken out.
LEMMA SumRemove ==
  ASSUME NEW S, IsFiniteSet(S), NEW f, IntOn(f, S), NEW x \in S
  PROVE  Sum(f, S) = f[x] + Sum(f, S \ {x})
<1> DEFINE R == S \ {x}
<1>1. PICK g : IsSum(g, f, S)
  BY SumExists
<1>2. Sum(f, S) = g[S]
  BY <1>1, SumIs
<1>3. IsFiniteSet(R) /\ IntOn(f, R) /\ R \in SUBSET S /\ R \subseteq S
  BY FS_Subset DEF IntOn
<1>4. g[S] = f[x] + g[R]
  BY <1>1, SumWithout
<1> HIDE DEF R
<1>5. IsSum([s \in SUBSET R |-> g[s]], f, R)
  BY <1>1, <1>3, SumOfPart
<1>6. Sum(f, R) = g[R]
  BY <1>3, <1>5, SumIs
<1> QED BY <1>2, <1>4, <1>6 DEF R

LEMMA SumSame ==
  ASSUME NEW S, IsFiniteSet(S), NEW f, NEW e, IntOn(f, S), Agree(f, e, S)
  PROVE  Sum(f, S) = Sum(e, S)
<1>1. IntOn(e, S)
  BY DEF IntOn, Agree
<1>2. PICK g : IsSum(g, f, S)
  BY SumExists
<1>3. PICK h : IsSum(h, e, S)
  BY <1>1, SumExists
<1>4. Recurses(g, f, S) /\ Recurses(h, e, S) /\ S \subseteq S
  BY <1>2, <1>3 DEF IsSum
<1>5. \A s \in SUBSET S : g[s] = h[s]
  BY <1>4, SumsAgree, Z3
<1>6. g[S] = h[S]
  BY <1>5
<1> QED BY <1>1, <1>2, <1>3, <1>6, SumIs

\* f and e differ at x only.
LEMMA SumPoint ==
  ASSUME NEW S, IsFiniteSet(S), NEW f, NEW e, IntOn(f, S), IntOn(e, S), NEW x \in S,
         Agree(f, e, S \ {x})
  PROVE  Sum(e, S) = Sum(f, S) + e[x] - f[x]
<1> DEFINE R == S \ {x}
<1>1. Sum(f, S) = f[x] + Sum(f, R) /\ Sum(e, S) = e[x] + Sum(e, R)
  BY SumRemove
<1>2. IsFiniteSet(R) /\ IntOn(f, R) /\ Agree(f, e, R)
  BY FS_Subset DEF IntOn
<1>3. f[x] \in Int /\ e[x] \in Int
  BY DEF IntOn
<1> HIDE DEF R
<1>4. Sum(f, R) = Sum(e, R) /\ Sum(f, R) \in Int
  BY <1>2, SumSame, SumInt
<1> QED BY <1>1, <1>3, <1>4

LEMMA SumEmpty ==
  ASSUME NEW f
  PROVE  Sum(f, {}) = 0
<1>1. IsFiniteSet({}) /\ IntOn(f, {})
  BY FS_EmptySet DEF IntOn
<1>2. PICK g : IsSum(g, f, {})
  BY <1>1, SumExists
<1>3. g[{}] = 0
  BY <1>2 DEF IsSum, Recurses
<1> QED BY <1>1, <1>2, <1>3, SumIs

LEMMA SumZero ==
  ASSUME NEW S, IsFiniteSet(S), NEW f, \A x \in S : f[x] = 0
  PROVE  Sum(f, S) = 0
<1> DEFINE B == {s \in SUBSET S : Sum(f, s) # 0}
<1>1. ASSUME B # {}
      PROVE  FALSE
  <2>1. PICK T \in B : \A s \in B : s \subseteq T => s = T
    <3>1. B \in SUBSET SUBSET S
      OBVIOUS
    <3> HIDE DEF B
    <3> QED BY <1>1, <3>1, Smallest
  <2>2. T \in SUBSET S /\ T # {} /\ Sum(f, T) # 0
    BY <2>1, SumEmpty
  <2>3. PICK x \in T : TRUE
    BY <2>2
  <2>4. IsFiniteSet(T) /\ IntOn(f, T)
    BY <2>2, FS_Subset DEF IntOn
  <2>5. Sum(f, T) = f[x] + Sum(f, T \ {x})
    BY <2>4, SumRemove
  <2>6. Sum(f, T \ {x}) = 0
    BY <2>1, <2>2
  <2> QED BY <2>2, <2>5, <2>6
<1>2. S \notin B
  BY <1>1
<1> QED BY <1>2

LEMMA ImageFinite ==
  ASSUME NEW S, IsFiniteSet(S), NEW k
  PROVE  IsFiniteSet({k[x] : x \in S})
<1> DEFINE C == {k[x] : x \in S}
           g == [x \in S |-> k[x]]
<1>1. g \in Surjection(S, C)
  BY DEF Surjection
<1> HIDE DEF g, C
<1>2. IsFiniteSet(C)
  BY <1>1, FS_Surjection
<1> QED BY <1>2 DEF C

\* The sums over the parts of a partition add up.
LEMMA SumOfFibres ==
  ASSUME NEW S, IsFiniteSet(S), NEW f, IntOn(f, S), NEW k, NEW C, IsFiniteSet(C),
         \A x \in S : k[x] \in C
  PROVE  Sum(FibreSums(f, S, k, C), C) = Sum(f, S)
<1> DEFINE B == {s \in SUBSET S : Sum(FibreSums(f, s, k, C), C) # Sum(f, s)}
<1>1. ASSUME B # {}
      PROVE  FALSE
  <2>1. PICK T \in B : \A s \in B : s \subseteq T => s = T
    <3>1. B \in SUBSET SUBSET S
      OBVIOUS
    <3> HIDE DEF B
    <3> QED BY <1>1, <3>1, Smallest
  <2>2. T \in SUBSET S /\ Sum(FibreSums(f, T, k, C), C) # Sum(f, T)
    BY <2>1
  <2>3. ASSUME NEW s \in SUBSET S
        PROVE  /\ IsFiniteSet(s) /\ IntOn(f, s)
               /\ IntOn(FibreSums(f, s, k, C), C)
    <3>1. IsFiniteSet(s) /\ IntOn(f, s)
      BY FS_Subset DEF IntOn
    <3>2. ASSUME NEW c \in C
          PROVE  FibreSums(f, s, k, C)[c] \in Int
      <4>1. Fibre(s, k, c) \in SUBSET s
        BY DEF Fibre
      <4>2. IsFiniteSet(Fibre(s, k, c)) /\ IntOn(f, Fibre(s, k, c))
        BY <3>1, <4>1, FS_Subset DEF IntOn
      <4>3. Sum(f, Fibre(s, k, c)) \in Int
        BY <4>2, SumInt
      <4> QED BY <4>3 DEF FibreSums
    <3> QED BY <3>1, <3>2 DEF IntOn
  <2>4. T # {}
    <3>1. ASSUME T = {}
          PROVE  FALSE
      <4>1. \A c \in C : Fibre(T, k, c) = {}
        BY <3>1 DEF Fibre
      <4>2. \A c \in C : FibreSums(f, T, k, C)[c] = 0
        BY <4>1, SumEmpty DEF FibreSums
      <4>3. Sum(FibreSums(f, T, k, C), C) = 0
        BY <4>2, SumZero
      <4> QED BY <2>2, <3>1, <4>3, SumEmpty
    <3> QED BY <3>1
  <2>5. PICK x \in T : TRUE
    BY <2>4
  <2> DEFINE R == T \ {x}
             old == FibreSums(f, R, k, C)
             new == FibreSums(f, T, k, C)
             d == k[x]
  <2>6. R \in SUBSET S /\ R # T /\ R \subseteq T /\ d \in C
    BY <2>2, <2>5
  <2>7. Sum(old, C) = Sum(f, R)
    BY <2>1, <2>6
  <2>8. Sum(f, T) = f[x] + Sum(f, R)
    BY <2>2, <2>3, <2>5, SumRemove
  <2>9. Sum(f, R) \in Int /\ f[x] \in Int
    BY <2>2, <2>3, <2>5, <2>6, SumInt DEF IntOn
  <2>10. Agree(old, new, C \ {d})
    <3>1. \A c \in C \ {d} : Fibre(R, k, c) = Fibre(T, k, c)
      BY DEF Fibre
    <3> QED BY <3>1 DEF Agree, FibreSums
  <2>11. new[d] = f[x] + old[d]
    <3>1. /\ x \in Fibre(T, k, d) /\ Fibre(R, k, d) = Fibre(T, k, d) \ {x}
          /\ Fibre(T, k, d) \in SUBSET T
      BY <2>5 DEF Fibre
    <3>2. IsFiniteSet(Fibre(T, k, d)) /\ IntOn(f, Fibre(T, k, d))
      BY <2>2, <2>3, <3>1, FS_Subset DEF IntOn
    <3>3. Sum(f, Fibre(T, k, d)) = f[x] + Sum(f, Fibre(T, k, d) \ {x})
      BY <3>1, <3>2, SumRemove
    <3> QED BY <2>6, <3>1, <3>3 DEF FibreSums
  <2>12. IntOn(old, C) /\ IntOn(new, C)
    BY <2>2, <2>3, <2>6
  <2>13. old[d] \in Int
    BY <2>6, <2>12 DEF IntOn
  <2> HIDE DEF old, new, d, R
  <2>14. Sum(new, C) = Sum(old, C) + new[d] - old[d]
    BY <2>6, <2>10, <2>12, SumPoint, Z3
  <2>15. Sum(new, C) = Sum(f, T)
    BY <2>7, <2>8, <2>9, <2>11, <2>13, <2>14
  <2> QED BY <2>2, <2>15 DEF new
<1>2. S \notin B
  BY <1>1
<1> QED BY <1>2

===============================================================================
