----------------------------- MODULE PlanningProofs -----------------------------
(***************************************************************************)
(* What holds of budgets, the forecast and the alerts for any merchants,   *)
(* accounts, categories, amounts and lengths of months.  The first part is *)
(* about what the model is built from: numbers in order, sums, the         *)
(* calendar, and the walks over it, which are recursive functions; each is *)
(* shown to be the function its equation describes.                        *)
(***************************************************************************)
EXTENDS Alerts, FiniteSetTheorems, WellFoundedInduction, TLAPS

(* Numbers *)

LEMMA NatMin ==
  ASSUME NEW T, T \subseteq Nat, T # {}
  PROVE  \E x \in T : \A y \in T : x <= y
<1> DEFINE R == OpToRel(<, Nat)
<1>1. PICK x \in T : \A y \in T : <<y, x>> \notin R
  BY NatLessThanWellFounded, WFMin
<1>2. \A m, n \in Nat : <<n, m>> \in R <=> n < m
  BY DEF OpToRel
<1> HIDE DEF R
<1>3. ASSUME NEW y \in T
      PROVE  x <= y
  <2>1. x \in Nat /\ y \in Nat /\ <<y, x>> \notin R
    BY <1>1
  <2>2. ~(y < x)
    BY <1>2, <2>1
  <2>3. QED
    BY <2>1, <2>2
<1>4. QED
  BY <1>3

\* Induction, with the property as the set of the numbers that have it.
LEMMA NatUp ==
  ASSUME NEW T, 0 \in T, \A n \in Nat : n \in T => n + 1 \in T
  PROVE  \A n \in Nat : n \in T
<1> DEFINE U == {n \in Nat : n \notin T}
<1>1. SUFFICES ASSUME U # {} PROVE FALSE
  OBVIOUS
<1>2. PICK m \in U : \A n \in U : m <= n
  <2>1. U \subseteq Nat
    OBVIOUS
  <2>2. QED
    BY <1>1, <2>1, NatMin
<1>3. m \in Nat /\ m \notin T /\ m # 0
  OBVIOUS
<1>4. m - 1 \in Nat /\ m - 1 \in T
  BY <1>2, <1>3
<1>5. (m - 1) + 1 \in T
  BY <1>4
<1>6. QED
  BY <1>3, <1>5

\* A part that is not the whole of a finite set has fewer members.
LEMMA StrictlyFewer ==
  ASSUME NEW S, IsFiniteSet(S), NEW A \in SUBSET S, NEW B \in SUBSET S, A \subseteq B, A # B
  PROVE  Cardinality(A) \in Nat /\ Cardinality(B) \in Nat /\ Cardinality(A) < Cardinality(B)
<1>1. IsFiniteSet(B) /\ IsFiniteSet(A)
  BY FS_Subset
<1>2. Cardinality(A) \in Nat /\ Cardinality(B) \in Nat
  BY <1>1, FS_CardinalityType
<1>3. Cardinality(A) <= Cardinality(B) /\ Cardinality(A) # Cardinality(B)
  BY <1>1, FS_Subset
<1>4. QED
  BY <1>2, <1>3

StrictOrder(S, R) ==
    /\ \A x \in S : <<x, x>> \notin R
    /\ \A x, y, z \in S : <<x, y>> \in R /\ <<y, z>> \in R => <<x, z>> \in R
    /\ \A x, y \in S : x = y \/ <<x, y>> \in R \/ <<y, x>> \in R

UpTo(S, R, x) == {y \in S : y = x \/ <<y, x>> \in R}

\* In a strict total order of a finite set exactly one member is the n-th.
LEMMA RankOnto ==
  ASSUME NEW S, IsFiniteSet(S), NEW R, StrictOrder(S, R)
  PROVE  \A n \in 1 .. Cardinality(S) :
           \E x \in S : /\ Cardinality(UpTo(S, R, x)) = n
                        /\ \A z \in S : Cardinality(UpTo(S, R, z)) = n => z = x
<1> DEFINE upTo(x) == UpTo(S, R, x)
           rank == [x \in S |-> Cardinality(upTo(x))]
<1> USE DEF StrictOrder
<1>1. \A x \in S : upTo(x) \in SUBSET S /\ x \in upTo(x)
  BY DEF UpTo
<1>2. ASSUME NEW x \in S, NEW z \in S, <<x, z>> \in R
      PROVE  Cardinality(upTo(x)) < Cardinality(upTo(z))
  <2>1. upTo(x) \subseteq upTo(z) /\ z \in upTo(z) /\ z \notin upTo(x)
    BY <1>2 DEF UpTo
  <2> HIDE DEF upTo
  <2>2. upTo(x) \in SUBSET S /\ upTo(z) \in SUBSET S /\ upTo(x) # upTo(z)
    BY <1>1, <2>1
  <2>3. QED
    BY <2>1, <2>2, StrictlyFewer
<1>3. \A x \in S : Cardinality(upTo(x)) \in 1 .. Cardinality(S)
  <2> SUFFICES ASSUME NEW x \in S PROVE Cardinality(upTo(x)) \in 1 .. Cardinality(S)
    OBVIOUS
  <2>1. upTo(x) \in SUBSET S /\ upTo(x) # {}
    BY <1>1
  <2> HIDE DEF upTo
  <2>2. IsFiniteSet(upTo(x)) /\ Cardinality(upTo(x)) <= Cardinality(S)
    BY <2>1, FS_Subset
  <2>3. Cardinality(upTo(x)) \in Nat /\ Cardinality(S) \in Nat /\ Cardinality(upTo(x)) # 0
    BY <2>1, <2>2, FS_CardinalityType, FS_EmptySet
  <2>4. QED
    BY <2>2, <2>3
<1>4. \A x, z \in S : Cardinality(upTo(x)) = Cardinality(upTo(z)) => x = z
  <2> SUFFICES ASSUME NEW x \in S, NEW z \in S, x # z
               PROVE  Cardinality(upTo(x)) # Cardinality(upTo(z))
    OBVIOUS
  <2>1. <<x, z>> \in R \/ <<z, x>> \in R
    OBVIOUS
  <2>2. Cardinality(upTo(x)) \in Int /\ Cardinality(upTo(z)) \in Int
    BY <1>3
  <2>3. Cardinality(upTo(x)) < Cardinality(upTo(z)) \/ Cardinality(upTo(z)) < Cardinality(upTo(x))
    BY <1>2, <2>1
  <2> HIDE DEF upTo
  <2>4. QED
    BY <2>2, <2>3
<1> HIDE DEF upTo
<1>5. rank \in Injection(S, 1 .. Cardinality(S))
  BY <1>3, <1>4 DEF Injection, IsInjective
<1>6. Cardinality(S) = Cardinality(1 .. Cardinality(S)) /\ IsFiniteSet(1 .. Cardinality(S))
  <2>1. Cardinality(S) \in Nat
    BY FS_CardinalityType
  <2>2. QED
    BY <2>1, FS_Interval
<1>7. rank \in Surjection(S, 1 .. Cardinality(S))
  BY <1>5, <1>6, FS_Injection
<1>8. \A n \in 1 .. Cardinality(S) : \E x \in S : Cardinality(upTo(x)) = n
  BY <1>7 DEF Surjection
<1>9. \A n \in 1 .. Cardinality(S) :
         \E x \in S : Cardinality(upTo(x)) = n /\ \A z \in S : Cardinality(upTo(z)) = n => z = x
  BY <1>4, <1>8
<1>10. QED
  BY <1>9 DEF upTo

\* It has a first member.
LEMMA FirstInOrder ==
  ASSUME NEW S, IsFiniteSet(S), S # {}, NEW R, StrictOrder(S, R)
  PROVE  \E x \in S : \A y \in S : y = x \/ <<x, y>> \in R
<1>1. 1 \in 1 .. Cardinality(S)
  BY FS_CardinalityType, FS_EmptySet
<1>2. PICK x \in S : Cardinality(UpTo(S, R, x)) = 1
  BY <1>1, RankOnto
<1>3. IsFiniteSet(UpTo(S, R, x)) /\ x \in UpTo(S, R, x)
  <2>1. UpTo(S, R, x) \in SUBSET S /\ x \in UpTo(S, R, x)
    BY DEF UpTo
  <2>2. QED
    BY <2>1, FS_Subset
<1>4. UpTo(S, R, x) = {x}
  BY <1>2, <1>3, FS_Singleton
<1>5. ASSUME NEW y \in S, y # x
      PROVE  <<x, y>> \in R
  <2>1. <<y, x>> \notin R
    BY <1>4, <1>5 DEF UpTo
  <2>2. QED
    BY <1>5, <2>1 DEF StrictOrder
<1>6. QED
  BY <1>5


\* A finite set of numbers has a smallest and a largest.
LEMMA MinOf ==
  ASSUME NEW S \in SUBSET Int, IsFiniteSet(S), S # {}
  PROVE  Min(S) \in S /\ \A x \in S : Min(S) <= x
<1> DEFINE R == {p \in S \X S : p[1] < p[2]}
<1>1. \A x, y \in S : <<x, y>> \in R <=> x < y
  OBVIOUS
<1> HIDE DEF R
<1>2. StrictOrder(S, R)
  <2>1. \A x, y, z \in S : x < y /\ y < z => x < z
    OBVIOUS
  <2>2. \A x, y \in S : x = y \/ x < y \/ y < x
    OBVIOUS
  <2>3. \A x \in S : ~(x < x)
    OBVIOUS
  <2>4. QED
    BY <1>1, <2>1, <2>2, <2>3 DEF StrictOrder
<1>3. PICK x \in S : \A y \in S : y = x \/ <<x, y>> \in R
  BY <1>2, FirstInOrder
<1>4. ASSUME NEW y \in S PROVE x <= y
  <2>1. x \in Int /\ y \in Int /\ (y = x \/ x < y)
    BY <1>1, <1>3
  <2>2. QED
    BY <2>1
<1>5. QED
  BY <1>4 DEF Min

LEMMA MaxOf ==
  ASSUME NEW S \in SUBSET Int, IsFiniteSet(S), S # {}
  PROVE  Max(S) \in S /\ \A x \in S : x <= Max(S)
<1> DEFINE R == {p \in S \X S : p[2] < p[1]}
<1>1. \A x, y \in S : <<x, y>> \in R <=> y < x
  OBVIOUS
<1> HIDE DEF R
<1>2. StrictOrder(S, R)
  <2>1. \A x, y, z \in S : y < x /\ z < y => z < x
    OBVIOUS
  <2>2. \A x, y \in S : x = y \/ x < y \/ y < x
    OBVIOUS
  <2>3. \A x \in S : ~(x < x)
    OBVIOUS
  <2>4. QED
    BY <1>1, <2>1, <2>2, <2>3 DEF StrictOrder
<1>3. PICK x \in S : \A y \in S : y = x \/ <<x, y>> \in R
  BY <1>2, FirstInOrder
<1>4. ASSUME NEW y \in S PROVE x >= y
  <2>1. x \in Int /\ y \in Int /\ (y = x \/ y < x)
    BY <1>1, <1>3
  <2>2. QED
    BY <2>1
<1>5. Max(S) \in S /\ \A y \in S : Max(S) >= y
  BY <1>4 DEF Max
<1>6. QED
  BY <1>5

LEMMA MinOfTwo == \A a, b \in Int : Min({a, b}) = IF a <= b THEN a ELSE b
<1> SUFFICES ASSUME NEW a \in Int, NEW b \in Int PROVE Min({a, b}) = IF a <= b THEN a ELSE b
  OBVIOUS
<1>1. \E x \in {a, b} : \A y \in {a, b} : x <= y
  OBVIOUS
<1>2. Min({a, b}) \in {a, b} /\ Min({a, b}) <= a /\ Min({a, b}) <= b
  BY <1>1 DEF Min
<1>3. QED
  BY <1>2

LEMMA MaxOfTwo == \A a, b \in Int : Max({a, b}) = IF a >= b THEN a ELSE b
<1> SUFFICES ASSUME NEW a \in Int, NEW b \in Int PROVE Max({a, b}) = IF a >= b THEN a ELSE b
  OBVIOUS
<1>1. \E x \in {a, b} : \A y \in {a, b} : x >= y
  OBVIOUS
<1>2. Max({a, b}) \in {a, b} /\ Max({a, b}) >= a /\ Max({a, b}) >= b
  BY <1>1 DEF Max
<1>3. QED
  BY <1>2
-------------------------------------------------------------------------------
(* Sums *)

Pick(s) == CHOOSE y \in s : TRUE

\* What the sum of the values of a function is computed by: a total for each part of its domain.
SumStep(S, f, g) == [s \in SUBSET S |-> IF s = {} THEN 0 ELSE f[Pick(s)] + g[s \ {Pick(s)}]]

\* A total for each part, each the value of a member and the total of the rest.
Totals(S, f, g) ==
    /\ g \in [SUBSET S -> Int]
    /\ g[{}] = 0
    /\ \A s \in SUBSET S : s # {} => g[s] = f[Pick(s)] + g[s \ {Pick(s)}]

LEMMA Picked == ASSUME NEW s, s # {} PROVE Pick(s) \in s
BY DEF Pick

LEMMA SumIs ==
  ASSUME NEW f
  PROVE  SumFunction(f) = (CHOOSE iter : iter = SumStep(DOMAIN f, f, iter))[DOMAIN f]
BY DEF SumFunction, SumFunctionOnSet, FoldFunctionOnSet, MapThenFoldSet, SumStep, Pick

LEMMA SumStepType ==
  ASSUME NEW S, NEW f \in [S -> Int], NEW g \in [SUBSET S -> Int]
  PROVE  /\ SumStep(S, f, g) \in [SUBSET S -> Int]
         /\ SumStep(S, f, g)[{}] = 0
         /\ \A s \in SUBSET S : s # {} => SumStep(S, f, g)[s] = f[Pick(s)] + g[s \ {Pick(s)}]
<1>1. ASSUME NEW s \in SUBSET S, s # {}
      PROVE  f[Pick(s)] + g[s \ {Pick(s)}] \in Int
  <2>1. Pick(s) \in S
    BY <1>1, Picked
  <2>2. f[Pick(s)] \in Int /\ g[s \ {Pick(s)}] \in Int
    BY <2>1
  <2>3. QED
    BY <2>2
<1>2. QED
  BY <1>1 DEF SumStep

\* A finite set less a member.
LEMMA OneLess ==
  ASSUME NEW S, IsFiniteSet(S), NEW s \in SUBSET S, s # {}, NEW x \in s
  PROVE  /\ s \ {x} \in SUBSET S /\ IsFiniteSet(s) /\ IsFiniteSet(s \ {x})
         /\ Cardinality(s) \in Nat \ {0} /\ Cardinality(s \ {x}) = Cardinality(s) - 1
<1>1. IsFiniteSet(s)
  BY FS_Subset
<1>2. Cardinality(s) \in Nat /\ Cardinality(s) # 0
  BY <1>1, FS_CardinalityType, FS_EmptySet
<1>3. IsFiniteSet(s \ {x}) /\ Cardinality(s \ {x}) = Cardinality(s) - 1
  BY <1>1, FS_RemoveElement
<1>4. QED
  BY <1>1, <1>2, <1>3

LEMMA Sized ==
  ASSUME NEW S, IsFiniteSet(S), NEW s \in SUBSET S
  PROVE  /\ IsFiniteSet(s) /\ Cardinality(s) \in Nat /\ Cardinality(s) <= Cardinality(S)
         /\ Cardinality(s) = 0 <=> s = {}
<1>1. IsFiniteSet(s) /\ Cardinality(s) <= Cardinality(S)
  BY FS_Subset
<1>2. QED
  BY <1>1, FS_CardinalityType, FS_EmptySet

\* What is true of a part if it is of the part less each of its members is true of all parts of a
\* finite set; the property as the set of the parts that have it.
LEMMA PartsUp ==
  ASSUME NEW S, IsFiniteSet(S), NEW T, {} \in T,
         \A s \in SUBSET S : s # {} /\ (\A x \in s : s \ {x} \in T) => s \in T
  PROVE  \A s \in SUBSET S : s \in T
<1> DEFINE U == {n \in Nat : \A s \in SUBSET S : Cardinality(s) = n => s \in T}
<1>1. 0 \in U
  BY Sized
<1>2. ASSUME NEW n \in Nat, n \in U
      PROVE  n + 1 \in U
  <2>1. ASSUME NEW s \in SUBSET S, Cardinality(s) = n + 1
        PROVE  s \in T
    <3>1. s # {}
      BY <2>1, Sized
    <3>2. ASSUME NEW x \in s PROVE s \ {x} \in T
      <4>1. s \ {x} \in SUBSET S /\ Cardinality(s \ {x}) = Cardinality(s) - 1
        BY <3>1, OneLess
      <4>2. Cardinality(s \ {x}) = n
        BY <2>1, <4>1
      <4>3. QED
        BY <1>2, <4>1, <4>2
    <3>3. QED
      BY <3>1, <3>2
  <2>2. QED
    BY <2>1
<1>3. \A n \in Nat : n \in U
  <2> HIDE DEF U
  <2>1. QED
    BY <1>1, <1>2, NatUp
<1>4. ASSUME NEW s \in SUBSET S PROVE s \in T
  <2>1. Cardinality(s) \in Nat
    BY Sized
  <2>2. QED
    BY <1>3, <2>1
<1>5. QED
  BY <1>4

\* The equation has a solution: one that is right up to parts of n members gives one for n + 1.
GoodSums(S, f, n) ==
    {g \in [SUBSET S -> Int] : \A s \in SUBSET S : Cardinality(s) <= n => g[s] = SumStep(S, f, g)[s]}

LEMMA SumSolved ==
  ASSUME NEW S, IsFiniteSet(S), NEW f \in [S -> Int]
  PROVE  \E g \in [SUBSET S -> Int] : g = SumStep(S, f, g)
<1> DEFINE T == {n \in Nat : GoodSums(S, f, n) # {}}
<1>1. 0 \in T
  <2> DEFINE g == [s \in SUBSET S |-> 0]
  <2>1. g \in [SUBSET S -> Int] /\ \A s \in SUBSET S : g[s] = 0
    OBVIOUS
  <2> HIDE DEF g
  <2>2. ASSUME NEW s \in SUBSET S, Cardinality(s) <= 0
        PROVE  g[s] = SumStep(S, f, g)[s]
    <3>1. s = {}
      BY <2>2, Sized
    <3>2. QED
      BY <2>1, <3>1, SumStepType
  <2>3. g \in GoodSums(S, f, 0)
    BY <2>1, <2>2 DEF GoodSums
  <2>4. QED
    BY <2>3
<1>2. ASSUME NEW n \in Nat, n \in T
      PROVE  n + 1 \in T
  <2>1. PICK g \in [SUBSET S -> Int] :
           \A s \in SUBSET S : Cardinality(s) <= n => g[s] = SumStep(S, f, g)[s]
    BY <1>2 DEF GoodSums
  <2> DEFINE h == SumStep(S, f, g)
  <2>2. /\ h \in [SUBSET S -> Int]
        /\ h[{}] = 0
        /\ \A s \in SUBSET S : s # {} => h[s] = f[Pick(s)] + g[s \ {Pick(s)}]
    BY SumStepType
  <2>3. \A s \in SUBSET S : Cardinality(s) <= n => g[s] = h[s]
    BY <2>1
  <2> HIDE DEF h
  <2>4. ASSUME NEW s \in SUBSET S, Cardinality(s) <= n + 1
        PROVE  h[s] = SumStep(S, f, h)[s]
    <3>1. CASE s = {}
      <4>1. SumStep(S, f, h)[{}] = 0
        BY <2>2, SumStepType
      <4>2. QED
        BY <2>2, <3>1, <4>1
    <3>2. CASE s # {}
      <4>1. SumStep(S, f, h)[s] = f[Pick(s)] + h[s \ {Pick(s)}] /\ h[s] = f[Pick(s)] + g[s \ {Pick(s)}]
        <5>1. SumStep(S, f, h)[s] = f[Pick(s)] + h[s \ {Pick(s)}]
          BY <3>2 DEF SumStep
        <5>2. QED
          BY <2>2, <3>2, <5>1
      <4>2. Pick(s) \in s
        BY <3>2, Picked
      <4>3. /\ s \ {Pick(s)} \in SUBSET S /\ Cardinality(s) \in Nat
            /\ Cardinality(s \ {Pick(s)}) = Cardinality(s) - 1
        BY <3>2, <4>2, OneLess
      <4>4. Cardinality(s \ {Pick(s)}) <= n
        BY <2>4, <4>3
      <4>5. g[s \ {Pick(s)}] = h[s \ {Pick(s)}]
        BY <2>3, <4>3, <4>4
      <4>6. QED
        BY <4>1, <4>5
    <3>3. QED
      BY <3>1, <3>2
  <2>5. h \in GoodSums(S, f, n + 1)
    BY <2>2, <2>4 DEF GoodSums
  <2>6. QED
    BY <2>5
<1>3. Cardinality(S) \in T
  <2>1. Cardinality(S) \in Nat
    BY FS_CardinalityType
  <2> HIDE DEF T
  <2>2. \A n \in Nat : n \in T
    BY <1>1, <1>2, NatUp
  <2>3. QED
    BY <2>1, <2>2
<1>4. PICK g \in GoodSums(S, f, Cardinality(S)) : TRUE
  BY <1>3
<1>5. g \in [SUBSET S -> Int] /\ \A s \in SUBSET S : g[s] = SumStep(S, f, g)[s]
  <2>1. \A s \in SUBSET S : Cardinality(s) <= Cardinality(S)
    BY Sized
  <2>2. QED
    BY <2>1 DEF GoodSums
<1>6. SumStep(S, f, g) \in [SUBSET S -> Int]
  BY <1>5, SumStepType
<1>7. g = SumStep(S, f, g)
  BY <1>5, <1>6
<1>8. QED
  BY <1>5, <1>7

\* Every solution is one of numbers.
LEMMA SumTyped ==
  ASSUME NEW S, IsFiniteSet(S), NEW f \in [S -> Int], NEW g, g = SumStep(S, f, g)
  PROVE  Totals(S, f, g)
<1> DEFINE T == {s \in SUBSET S : g[s] \in Int}
<1>1. \A s \in SUBSET S : g[s] = IF s = {} THEN 0 ELSE f[Pick(s)] + g[s \ {Pick(s)}]
  BY DEF SumStep
<1>2. {} \in T
  <2>1. {} \in SUBSET S
    OBVIOUS
  <2>2. g[{}] = 0
    BY <1>1, <2>1
  <2>3. QED
    BY <2>1, <2>2
<1>3. ASSUME NEW s \in SUBSET S, s # {}, \A x \in s : s \ {x} \in T
      PROVE  s \in T
  <2>1. Pick(s) \in s /\ Pick(s) \in S
    BY <1>3, Picked
  <2>2. g[s \ {Pick(s)}] \in Int /\ f[Pick(s)] \in Int
    BY <1>3, <2>1
  <2>3. g[s] = f[Pick(s)] + g[s \ {Pick(s)}]
    BY <1>1, <1>3
  <2>4. g[s] \in Int
    BY <2>2, <2>3
  <2>5. QED
    BY <2>4
<1>4. \A s \in SUBSET S : s \in T
  <2> HIDE DEF T
  <2>1. QED
    BY <1>2, <1>3, PartsUp
<1>5. g = [s \in SUBSET S |-> g[s]]
  BY DEF SumStep
<1>6. g \in [SUBSET S -> Int]
  BY <1>4, <1>5
<1>7. QED
  BY <1>1, <1>6 DEF Totals

LEMMA SumBy ==
  ASSUME NEW S, IsFiniteSet(S), NEW f \in [S -> Int]
  PROVE  \E g : Totals(S, f, g) /\ SumFunction(f) = g[S]
<1> DEFINE iter == CHOOSE g : g = SumStep(S, f, g)
<1>1. DOMAIN f = S
  OBVIOUS
<1>2. SumFunction(f) = iter[S]
  BY <1>1, SumIs
<1>3. iter = SumStep(S, f, iter)
  BY SumSolved
<1> HIDE DEF iter
<1>4. Totals(S, f, iter)
  BY <1>3, SumTyped
<1>5. QED
  BY <1>2, <1>4

\* A total does not depend on the order its members are taken in.
LEMMA SumTakesAny ==
  ASSUME NEW S, IsFiniteSet(S), NEW f \in [S -> Int], NEW g, Totals(S, f, g)
  PROVE  \A s \in SUBSET S : \A y \in s : g[s] = f[y] + g[s \ {y}]
<1> DEFINE T == {s \in SUBSET S : \A y \in s : g[s] = f[y] + g[s \ {y}]}
<1> USE DEF Totals
<1>1. {} \in T
  OBVIOUS
<1>2. ASSUME NEW s \in SUBSET S, s # {}, \A x \in s : s \ {x} \in T
      PROVE  s \in T
  <2>1. ASSUME NEW y \in s
        PROVE  g[s] = f[y] + g[s \ {y}]
    <3> DEFINE x == Pick(s)
    <3>1. x \in s /\ g[s] = f[x] + g[s \ {x}]
      BY <1>2, Picked
    <3> HIDE DEF x
    <3>2. CASE x = y
      BY <3>1, <3>2
    <3>3. CASE x # y
      <4>1. y \in s \ {x} /\ x \in s \ {y} /\ (s \ {x}) \ {y} = (s \ {y}) \ {x}
        BY <3>1, <3>3
      <4>2. s \ {x} \in T /\ s \ {y} \in T
        BY <1>2, <3>1
      <4>3. g[s \ {x}] = f[y] + g[(s \ {x}) \ {y}] /\ g[s \ {y}] = f[x] + g[(s \ {y}) \ {x}]
        BY <4>1, <4>2
      <4>4. f[x] \in Int /\ f[y] \in Int /\ g[(s \ {x}) \ {y}] \in Int
        <5>1. (s \ {x}) \ {y} \in SUBSET S /\ x \in S /\ y \in S
          BY <3>1
        <5>2. QED
          BY <5>1
      <4>5. f[x] + (f[y] + g[(s \ {x}) \ {y}]) = f[y] + (f[x] + g[(s \ {x}) \ {y}])
        BY <4>4
      <4>6. QED
        BY <3>1, <4>1, <4>3, <4>5
    <3>4. QED
      BY <3>2, <3>3
  <2>2. QED
    BY <2>1
<1>3. \A s \in SUBSET S : s \in T
  <2> HIDE DEF T
  <2>1. QED
    BY <1>1, <1>2, PartsUp
<1>4. QED
  BY <1>3

\* Parts of the domain are summed alike whatever it is a part of.
LEMMA SumOfPart ==
  ASSUME NEW S, IsFiniteSet(S), NEW f \in [S -> Int], NEW g, Totals(S, f, g), NEW P \in SUBSET S
  PROVE  SumFunction([y \in P |-> f[y]]) = g[P]
<1> DEFINE e == [y \in P |-> f[y]]
<1>1. e \in [P -> Int] /\ \A y \in P : e[y] = f[y]
  OBVIOUS
<1>2. IsFiniteSet(P)
  BY Sized
<1> HIDE DEF e
<1>3. PICK h : Totals(P, e, h) /\ SumFunction(e) = h[P]
  BY <1>1, <1>2, SumBy
<1> DEFINE T == {s \in SUBSET P : h[s] = g[s]}
<1>4. {} \in T
  BY <1>3 DEF Totals
<1>5. ASSUME NEW s \in SUBSET P, s # {}, \A x \in s : s \ {x} \in T
      PROVE  s \in T
  <2>1. PICK x \in s : TRUE
    BY <1>5
  <2>2. h[s] = e[x] + h[s \ {x}]
    BY <1>1, <1>2, <1>3, SumTakesAny
  <2>3. g[s] = f[x] + g[s \ {x}]
    <3>1. s \in SUBSET S
      OBVIOUS
    <3>2. QED
      BY <3>1, SumTakesAny
  <2>4. h[s \ {x}] = g[s \ {x}] /\ e[x] = f[x]
    BY <1>1, <1>5
  <2>5. QED
    BY <2>2, <2>3, <2>4
<1>6. P \in T
  <2> HIDE DEF T
  <2>1. \A s \in SUBSET P : s \in T
    BY <1>2, <1>4, <1>5, PartsUp
  <2>2. QED
    BY <2>1
<1>7. SumFunction(e) = g[P]
  BY <1>3, <1>6
<1>8. QED
  BY <1>7 DEF e

LEMMA SumType ==
  ASSUME NEW S, IsFiniteSet(S), NEW f \in [S -> Int]
  PROVE  SumFunction(f) \in Int
<1>1. PICK g : Totals(S, f, g) /\ SumFunction(f) = g[S]
  BY SumBy
<1>2. QED
  BY <1>1 DEF Totals

LEMMA SumOfNone ==
  ASSUME NEW f, DOMAIN f = {}, f = [x \in {} |-> f[x]]
  PROVE  SumFunction(f) = 0
<1>1. IsFiniteSet({}) /\ f \in [{} -> Int]
  BY FS_EmptySet
<1>2. PICK g : Totals({}, f, g) /\ SumFunction(f) = g[{}]
  BY <1>1, SumBy
<1>3. QED
  BY <1>2 DEF Totals

\* With one more member there is its value more.
LEMMA SumAdds ==
  ASSUME NEW S, IsFiniteSet(S), NEW f \in [S -> Int], NEW x \in S
  PROVE  /\ SumFunction(f) = f[x] + SumFunction([y \in S \ {x} |-> f[y]])
         /\ SumFunction([y \in S \ {x} |-> f[y]]) \in Int
<1>1. PICK g : Totals(S, f, g) /\ SumFunction(f) = g[S]
  BY SumBy
<1>2. S \in SUBSET S /\ S \ {x} \in SUBSET S
  OBVIOUS
<1>3. g[S] = f[x] + g[S \ {x}]
  BY <1>1, <1>2, SumTakesAny
<1>4. g[S \ {x}] \in Int
  BY <1>1, <1>2 DEF Totals
<1>5. SumFunction([y \in S \ {x} |-> f[y]]) = g[S \ {x}]
  BY <1>1, <1>2, SumOfPart
<1>6. QED
  BY <1>1, <1>3, <1>4, <1>5
-------------------------------------------------------------------------------
(* The calendar *)

Positive == Nat \ {0}

LEMMA DaysInType == \A month \in Positive : DaysIn(month) \in Positive
<1> SUFFICES ASSUME NEW month \in Positive PROVE DaysIn(month) \in Positive
  OBVIOUS
<1>1. MonthsInYear \in Positive
  BY MonthDaysAssumption DEF MonthsInYear, Positive
<1>2. (month - 1) % MonthsInYear \in 0 .. MonthsInYear - 1
  BY <1>1 DEF Positive
<1>3. ((month - 1) % MonthsInYear) + 1 \in 1 .. Len(MonthDays)
  BY <1>1, <1>2 DEF MonthsInYear, Positive
<1>4. QED
  BY <1>3, MonthDaysAssumption DEF DaysIn, Positive

\* The days before a month are a sum, so the equation of FirstOf has a solution.
LEMMA FirstOfIs ==
  /\ FirstOf \in [Positive -> Positive]
  /\ FirstOf[1] = 1
  /\ \A month \in Positive : FirstOf[month + 1] = FirstOf[month] + DaysIn(month)
<1> DEFINE Days(n) == [k \in 1 .. n |-> DaysIn(k)]
           f == [month \in Positive |-> 1 + SumFunction(Days(month - 1))]
           Step(g) == [month \in Positive |-> IF month = 1 THEN 1 ELSE g[month - 1] + DaysIn(month - 1)]
<1>1. \A n \in Nat : IsFiniteSet(1 .. n) /\ Days(n) \in [1 .. n -> Int]
  BY DaysInType, FS_Interval DEF Positive
<1>2. SumFunction(Days(0)) = 0
  <2>1. DOMAIN Days(0) = {} /\ Days(0) = [x \in {} |-> Days(0)[x]]
    OBVIOUS
  <2>2. QED
    BY <2>1, SumOfNone
<1>3. ASSUME NEW n \in Positive
      PROVE  SumFunction(Days(n)) = DaysIn(n) + SumFunction(Days(n - 1))
  <2>1. n \in 1 .. n /\ (1 .. n) \ {n} = 1 .. n - 1 /\ IsFiniteSet(1 .. n) /\ Days(n) \in [1 .. n -> Int]
    BY <1>1 DEF Positive
  <2>2. SumFunction(Days(n)) = Days(n)[n] + SumFunction([y \in (1 .. n) \ {n} |-> Days(n)[y]])
    <3> DEFINE numbers == 1 .. n
               days == Days(n)
    <3>1. IsFiniteSet(numbers) /\ days \in [numbers -> Int] /\ n \in numbers
      BY <2>1
    <3> HIDE DEF numbers, days
    <3>2. SumFunction(days) = days[n] + SumFunction([y \in numbers \ {n} |-> days[y]])
      BY <3>1, SumAdds
    <3>3. QED
      BY <3>2 DEF numbers, days
  <2>3. [y \in (1 .. n) \ {n} |-> Days(n)[y]] = Days(n - 1)
    BY <2>1
  <2>4. QED
    BY <2>1, <2>2, <2>3
<1>4. \A n \in Nat : SumFunction(Days(n)) \in Int
  <2> SUFFICES ASSUME NEW n \in Nat PROVE SumFunction(Days(n)) \in Int
    OBVIOUS
  <2>1. IsFiniteSet(1 .. n) /\ Days(n) \in [1 .. n -> Int]
    BY <1>1
  <2> HIDE DEF Days
  <2>2. QED
    BY <2>1, SumType
<1>5. f = Step(f)
  <2> HIDE DEF Days
  <2>1. ASSUME NEW month \in Positive
        PROVE  f[month] = IF month = 1 THEN 1 ELSE f[month - 1] + DaysIn(month - 1)
    <3>1. CASE month = 1
      BY <1>2, <3>1
    <3>2. CASE month # 1
      <4>1. month - 1 \in Positive
        BY <3>2 DEF Positive
      <4>2. SumFunction(Days(month - 1)) = DaysIn(month - 1) + SumFunction(Days((month - 1) - 1))
        BY <1>3, <4>1
      <4>3. /\ f[month] = 1 + SumFunction(Days(month - 1))
            /\ f[month - 1] = 1 + SumFunction(Days((month - 1) - 1))
        BY <4>1
      <4>4. SumFunction(Days((month - 1) - 1)) \in Int /\ DaysIn(month - 1) \in Int
        BY <1>4, <4>1, DaysInType DEF Positive
      <4>5. QED
        BY <3>2, <4>2, <4>3, <4>4
    <3>3. QED
      BY <3>1, <3>2
  <2>2. QED
    BY <2>1
<1>6. FirstOf = Step(FirstOf)
  <2>1. FirstOf = CHOOSE g : g = Step(g)
    BY DEF FirstOf, Positive
  <2> HIDE DEF f, Step
  <2>2. QED
    BY <1>5, <2>1
<1>7. \A month \in Positive : FirstOf[month] = IF month = 1 THEN 1 ELSE FirstOf[month - 1] + DaysIn(month - 1)
  BY <1>6
<1> HIDE DEF f
<1>8. FirstOf[1] = 1
  BY <1>7 DEF Positive
<1>9. ASSUME NEW month \in Positive
      PROVE  FirstOf[month + 1] = FirstOf[month] + DaysIn(month)
  <2>1. month + 1 \in Positive /\ month + 1 # 1 /\ (month + 1) - 1 = month
    BY DEF Positive
  <2>2. QED
    BY <1>7, <2>1
<1> DEFINE T == {n \in Nat : FirstOf[n + 1] \in Positive}
<1>10. 0 \in T
  BY <1>8 DEF Positive
<1>11. ASSUME NEW n \in Nat, n \in T
       PROVE  n + 1 \in T
  <2>1. n + 1 \in Positive
    BY DEF Positive
  <2>2. FirstOf[(n + 1) + 1] = FirstOf[n + 1] + DaysIn(n + 1) /\ DaysIn(n + 1) \in Positive
    BY <1>9, <2>1, DaysInType
  <2>3. FirstOf[(n + 1) + 1] \in Positive
    BY <1>11, <2>2 DEF Positive
  <2>4. QED
    BY <2>1, <2>3 DEF Positive
<1>12. \A n \in Nat : n \in T
  <2> HIDE DEF T
  <2>1. QED
    BY <1>10, <1>11, NatUp
<1>13. ASSUME NEW month \in Positive PROVE FirstOf[month] \in Positive
  <2>1. month - 1 \in Nat /\ (month - 1) + 1 = month
    BY DEF Positive
  <2>2. QED
    BY <1>12, <2>1
<1>14. FirstOf \in [Positive -> Positive]
  BY <1>6, <1>13
<1>15. QED
  BY <1>8, <1>9, <1>14

\* A later month begins when the earlier one is over, or later.
LEMMA FirstOfRises ==
  \A m, n \in Positive : m < n => FirstOf[m] + DaysIn(m) <= FirstOf[n]
<1> SUFFICES ASSUME NEW m \in Positive PROVE \A n \in Positive : m < n => FirstOf[m] + DaysIn(m) <= FirstOf[n]
  OBVIOUS
<1> DEFINE T == {k \in Nat : FirstOf[m] + DaysIn(m) <= FirstOf[m + k + 1]}
<1>0. m \in Positive /\ m \in Nat /\ FirstOf[m] \in Int /\ DaysIn(m) \in Int
  BY FirstOfIs, DaysInType DEF Positive
<1>1. 0 \in T
  <2>1. m + 0 + 1 = m + 1 /\ FirstOf[m + 1] = FirstOf[m] + DaysIn(m)
    BY <1>0, FirstOfIs
  <2>2. QED
    BY <1>0, <2>1
<1>2. ASSUME NEW k \in Nat, k \in T
      PROVE  k + 1 \in T
  <2>1. m + k + 1 \in Positive /\ m + (k + 1) + 1 = (m + k + 1) + 1
    BY <1>0 DEF Positive
  <2>2. /\ FirstOf[(m + k + 1) + 1] = FirstOf[m + k + 1] + DaysIn(m + k + 1)
        /\ FirstOf[m + k + 1] \in Int /\ DaysIn(m + k + 1) \in Nat
    BY <2>1, FirstOfIs, DaysInType DEF Positive
  <2>3. FirstOf[m] + DaysIn(m) <= FirstOf[m + (k + 1) + 1]
    BY <1>0, <1>2, <2>1, <2>2
  <2>4. QED
    BY <2>3
<1>3. \A k \in Nat : k \in T
  <2> HIDE DEF T
  <2>1. QED
    BY <1>1, <1>2, NatUp
<1>4. ASSUME NEW n \in Positive, m < n PROVE FirstOf[m] + DaysIn(m) <= FirstOf[n]
  <2>1. n - m - 1 \in Nat /\ m + (n - m - 1) + 1 = n
    BY <1>0, <1>4 DEF Positive
  <2>2. QED
    BY <1>3, <2>1
<1>5. QED
  BY <1>4

\* The month with the day.
InMonth(day, m) == m \in Positive /\ FirstOf[m] <= day /\ day < FirstOf[m + 1]

LEMMA OneMonth ==
  ASSUME NEW day \in Positive, NEW m, InMonth(day, m)
  PROVE  m \in 1 .. day /\ MonthOf(day) = m
<1>1. m \in Positive /\ m \in Nat /\ m + 1 \in Positive /\ FirstOf[m] \in Int /\ FirstOf[m] <= day /\ day < FirstOf[m + 1]
  BY FirstOfIs DEF InMonth, Positive
<1> DEFINE T == {k \in Nat : k + 1 <= FirstOf[k + 1]}
<1>2. 0 \in T
  BY FirstOfIs
<1>3. ASSUME NEW k \in Nat, k \in T PROVE k + 1 \in T
  <2>1. k + 1 \in Positive
    BY DEF Positive
  <2>2. FirstOf[(k + 1) + 1] = FirstOf[k + 1] + DaysIn(k + 1) /\ FirstOf[k + 1] \in Int /\ DaysIn(k + 1) \in Positive
    BY <2>1, FirstOfIs, DaysInType DEF Positive
  <2>3. (k + 1) + 1 <= FirstOf[(k + 1) + 1]
    BY <1>3, <2>2 DEF Positive
  <2>4. QED
    BY <2>3
<1>4. \A k \in Nat : k \in T
  <2> HIDE DEF T
  <2>1. QED
    BY <1>2, <1>3, NatUp
<1>5. m \in 1 .. day
  <2>1. m - 1 \in T /\ (m - 1) + 1 = m
    BY <1>1, <1>4 DEF Positive
  <2>2. m <= FirstOf[m]
    BY <2>1
  <2>3. QED
    BY <1>1, <2>2 DEF Positive
<1>6. ASSUME NEW k \in 1 .. day, FirstOf[k] <= day, day < FirstOf[k + 1]
      PROVE  k = m
  <2>1. k \in Positive /\ k + 1 \in Positive /\ k \in Nat
    BY DEF Positive
  <2>2. FirstOf[k] \in Int /\ FirstOf[k + 1] \in Int /\ FirstOf[m + 1] \in Int
    BY <1>1, <2>1, FirstOfIs DEF Positive
  <2>3. ~(k < m)
    <3>1. SUFFICES ASSUME k < m PROVE FALSE
      OBVIOUS
    <3>2. FirstOf[k] + DaysIn(k) <= FirstOf[m] /\ FirstOf[k + 1] = FirstOf[k] + DaysIn(k)
      BY <1>1, <2>1, <3>1, FirstOfRises, FirstOfIs
    <3>3. QED
      BY <1>1, <1>6, <2>2, <3>2 DEF Positive
  <2>4. ~(m < k)
    <3>1. SUFFICES ASSUME m < k PROVE FALSE
      OBVIOUS
    <3>2. FirstOf[m] + DaysIn(m) <= FirstOf[k] /\ FirstOf[m + 1] = FirstOf[m] + DaysIn(m)
      BY <1>1, <2>1, <3>1, FirstOfRises, FirstOfIs
    <3>3. QED
      BY <1>1, <1>6, <2>2, <3>2 DEF Positive
  <2>5. QED
    BY <1>1, <2>1, <2>3, <2>4
<1>7. MonthOf(day) = m
  BY <1>1, <1>5, <1>6 DEF MonthOf
<1>8. QED
  BY <1>5, <1>7

LEMMA MonthOfIs == \A day \in Positive : InMonth(day, MonthOf(day))
<1> DEFINE T == {k \in Nat : \E m : InMonth(k + 1, m)}
<1>1. 0 \in T
  <2>1. FirstOf[1] = 1 /\ FirstOf[1 + 1] = FirstOf[1] + DaysIn(1) /\ DaysIn(1) \in Positive /\ 1 \in Positive
    BY FirstOfIs, DaysInType DEF Positive
  <2>2. FirstOf[1] <= 0 + 1 /\ 0 + 1 < FirstOf[1 + 1]
    BY <2>1 DEF Positive
  <2>3. InMonth(0 + 1, 1)
    BY <2>1, <2>2 DEF InMonth
  <2>4. QED
    BY <2>3
<1>2. ASSUME NEW k \in Nat, k \in T PROVE k + 1 \in T
  <2>1. PICK m : InMonth(k + 1, m)
    BY <1>2
  <2>2. m \in Positive /\ m + 1 \in Positive /\ FirstOf[m] <= k + 1 /\ k + 1 < FirstOf[m + 1]
    BY <2>1 DEF InMonth, Positive
  <2>3. /\ FirstOf[m] \in Int /\ FirstOf[m + 1] \in Int
        /\ FirstOf[(m + 1) + 1] = FirstOf[m + 1] + DaysIn(m + 1) /\ DaysIn(m + 1) \in Nat /\ DaysIn(m + 1) # 0
    BY <2>2, FirstOfIs, DaysInType DEF Positive
  <2>4. InMonth((k + 1) + 1, m) \/ InMonth((k + 1) + 1, m + 1)
    BY <2>2, <2>3 DEF InMonth
  <2>5. QED
    BY <2>4
<1>3. \A k \in Nat : k \in T
  <2> HIDE DEF T
  <2>1. QED
    BY <1>1, <1>2, NatUp
<1>4. ASSUME NEW day \in Positive PROVE InMonth(day, MonthOf(day))
  <2>1. day - 1 \in T /\ (day - 1) + 1 = day
    BY <1>3 DEF Positive
  <2>2. PICK m : InMonth(day, m)
    BY <2>1
  <2>3. QED
    BY <2>2, OneMonth
<1>5. QED
  BY <1>4

\* Some months on is in the month that many on, not past the day of the month.
LEMMA AddMonthsIs ==
  ASSUME NEW day \in Positive, NEW n \in Positive
  PROVE  /\ AddMonths(day, n) \in Positive
         /\ MonthOf(AddMonths(day, n)) = MonthOf(day) + n
         /\ day < AddMonths(day, n)
         /\ DayInMonth(AddMonths(day, n)) <= DayInMonth(day)
<1> DEFINE m == MonthOf(day)
<1>1. m \in Positive /\ FirstOf[m] <= day /\ day < FirstOf[m + 1]
  BY MonthOfIs DEF InMonth
<1> HIDE DEF m
<1>2. m + 1 \in Positive /\ m + n \in Positive /\ (m + n) + 1 \in Positive
  BY <1>1 DEF Positive
<1>3. /\ FirstOf[m] \in Positive /\ FirstOf[m + 1] \in Positive /\ FirstOf[m + n] \in Positive
      /\ DaysIn(m + n) \in Positive /\ FirstOf[(m + n) + 1] = FirstOf[m + n] + DaysIn(m + n)
  BY <1>1, <1>2, FirstOfIs, DaysInType
<1>4. FirstOf[m + 1] <= FirstOf[m + n]
  <2>1. CASE n = 1
    BY <1>3, <2>1 DEF Positive
  <2>2. CASE n # 1
    <3>1. m + 1 < m + n
      BY <1>1, <2>2 DEF Positive
    <3>2. FirstOf[m + 1] + DaysIn(m + 1) <= FirstOf[m + n] /\ DaysIn(m + 1) \in Positive
      BY <1>2, <3>1, FirstOfRises, DaysInType
    <3>3. QED
      BY <1>3, <3>2 DEF Positive
  <2>3. QED
    BY <2>1, <2>2
<1> DEFINE in == day - FirstOf[m] + 1
           least == Min({in, DaysIn(m + n)})
           to == FirstOf[m + n] + least - 1
<1>5. in \in Positive /\ in = DayInMonth(day)
  BY <1>1, <1>3 DEF Positive, m, DayInMonth
<1>6. least \in Positive /\ least <= in /\ least <= DaysIn(m + n)
  <2> HIDE DEF in
  <2>1. in \in Int /\ DaysIn(m + n) \in Int
    BY <1>3, <1>5 DEF Positive
  <2>2. least = IF in <= DaysIn(m + n) THEN in ELSE DaysIn(m + n)
    BY <2>1, MinOfTwo
  <2>3. QED
    BY <1>3, <1>5, <2>2 DEF Positive
<1>7. AddMonths(day, n) = to
  BY <1>5 DEF AddMonths, m
<1> HIDE DEF least, in
<1>8. to \in Positive /\ FirstOf[m + n] <= to /\ to < FirstOf[(m + n) + 1] /\ day < to
  BY <1>1, <1>3, <1>4, <1>6 DEF Positive
<1>9. InMonth(to, m + n)
  BY <1>2, <1>8 DEF InMonth
<1>10. MonthOf(to) = m + n
  BY <1>8, <1>9, OneMonth
<1>11. DayInMonth(to) = least
  BY <1>3, <1>6, <1>10 DEF DayInMonth, Positive
<1>12. QED
  BY <1>5, <1>6, <1>7, <1>8, <1>10, <1>11 DEF m

LEMMA StepForwardIs ==
  ASSUME NEW day \in Positive, NEW cadence \in Cadence
  PROVE  StepForward(day, cadence) \in Positive /\ day < StepForward(day, cadence)
<1>1. CASE cadence \in DOMAIN StepDays
  <2>1. StepDays[cadence] \in {7, 14}
    BY <1>1 DEF StepDays
  <2>2. QED
    BY <1>1, <2>1 DEF StepForward, Positive
<1>2. CASE cadence \notin DOMAIN StepDays
  <2>1. StepMonths[cadence] \in {1, 3, 12}
    BY <1>2 DEF StepMonths, Cadence
  <2>2. StepMonths[cadence] \in Positive
    BY <2>1 DEF Positive
  <2>3. StepForward(day, cadence) = AddMonths(day, StepMonths[cadence])
    BY <1>2 DEF StepForward
  <2>4. QED
    BY <2>2, <2>3, AddMonthsIs
<1>3. QED
  BY <1>1, <1>2
-------------------------------------------------------------------------------
(* What detection finds *)

LEMMA LenIs ==
  ASSUME NEW S, NEW n \in Nat, NEW s \in [1 .. n -> S]
  PROVE  s \in Seq(S) /\ Len(s) = n
<1>1. s \in Seq(S)
  OBVIOUS
<1>2. DOMAIN s = 1 .. n /\ DOMAIN s = 1 .. Len(s) /\ Len(s) \in Nat
  BY <1>1
<1>3. QED
  BY <1>1, <1>2

LEMMA Ranked ==
  ASSUME NEW S, IsFiniteSet(S), NEW R, StrictOrder(S, R), NEW i \in 1 .. Cardinality(S)
  PROVE  \E x \in S : Cardinality(UpTo(S, R, x)) = i
BY RankOnto

\* The members of a set of numbers, each once, the smaller first.
LEMMA InOrderIs ==
  ASSUME NEW S \in SUBSET Int, IsFiniteSet(S)
  PROVE  /\ InOrder(S) \in [1 .. Cardinality(S) -> S]
         /\ Cardinality(S) \in Nat /\ Len(InOrder(S)) = Cardinality(S)
         /\ S # {} => \A x \in S : x <= InOrder(S)[Cardinality(S)]
<1> DEFINE R == {p \in S \X S : p[1] < p[2]}
<1>1. \A x, y \in S : <<x, y>> \in R <=> x < y
  OBVIOUS
<1> HIDE DEF R
<1>2. StrictOrder(S, R)
  <2>1. \A x, y, z \in S : x < y /\ y < z => x < z
    OBVIOUS
  <2>2. \A x, y \in S : x = y \/ x < y \/ y < x
    OBVIOUS
  <2>3. \A x \in S : ~(x < x)
    OBVIOUS
  <2>4. QED
    BY <1>1, <2>1, <2>2, <2>3 DEF StrictOrder
<1>3. Cardinality(S) \in Nat
  BY FS_CardinalityType
<1>4. ASSUME NEW i \in 1 .. Cardinality(S)
      PROVE  \E x \in S : Cardinality({k \in S : k < x}) = i - 1
  <2>1. PICK x \in S : Cardinality(UpTo(S, R, x)) = i
    BY <1>2, Ranked
  <2>2. UpTo(S, R, x) \in SUBSET S /\ x \in UpTo(S, R, x)
    BY DEF UpTo
  <2>3. UpTo(S, R, x) \ {x} = {k \in S : k < x}
    <3>1. \A k \in S : k < x => k # x
      OBVIOUS
    <3>2. QED
      BY <1>1, <3>1 DEF UpTo
  <2>4. Cardinality(UpTo(S, R, x) \ {x}) = Cardinality(UpTo(S, R, x)) - 1
    BY <2>2, OneLess
  <2>5. QED
    BY <2>1, <2>3, <2>4
<1>5. InOrder(S) \in [1 .. Cardinality(S) -> S]
  BY <1>4 DEF InOrder
<1>6. ASSUME S # {}, NEW x \in S
      PROVE  x <= InOrder(S)[Cardinality(S)]
  <2> DEFINE n == Cardinality(S)
             last == InOrder(S)[n]
             below == {k \in S : k < last}
  <2>1. n \in 1 .. n
    BY <1>3, <1>6, FS_EmptySet
  <2>2. last \in S
    BY <1>5, <2>1
  <2>3. Cardinality({k \in S : k < InOrder(S)[n]}) = n - 1
    BY <1>4, <2>1 DEF InOrder
  <2> HIDE DEF n, last
  <2>4. below \in SUBSET S /\ last \notin below /\ Cardinality(below) = n - 1
    <3>1. below = {k \in S : k < InOrder(S)[n]}
      BY DEF last
    <3>2. last \in Int /\ below \in SUBSET S /\ last \notin below
      BY <2>2
    <3> HIDE DEF below
    <3>3. QED
      BY <2>3, <3>1, <3>2
  <2>5. IsFiniteSet(below) /\ n \in Nat /\ n = Cardinality(S)
    BY <1>3, <2>4, FS_Subset DEF n
  <2> DEFINE both == below \cup {last}
  <2> HIDE DEF below
  <2>6. IsFiniteSet(both) /\ Cardinality(both) = (n - 1) + 1
    BY <2>4, <2>5, FS_AddElement
  <2>7. both \in SUBSET S /\ Cardinality(both) = Cardinality(S)
    BY <2>2, <2>4, <2>5, <2>6
  <2>8. x \in both
    <3> HIDE DEF both
    <3>1. QED
      BY <2>7, FS_Subset
  <2>9. x \in Int /\ last \in Int /\ (x < last \/ x = last)
    BY <2>2, <2>8 DEF below
  <2>10. QED
    BY <2>9 DEF last, n
<1>7. QED
  BY <1>3, <1>5, <1>6, LenIs

\* The places of a list of numbers in the order of the numbers, and of the places among equal ones.
Places(s) == {<<s[k], k>> : k \in DOMAIN s}
PlacedBefore(s) ==
    {p \in Places(s) \X Places(s) : p[1][1] < p[2][1] \/ (p[1][1] = p[2][1] /\ p[1][2] < p[2][2])}

LEMMA PlacesIs ==
  ASSUME NEW n \in Nat, NEW s \in [1 .. n -> Int]
  PROVE  /\ IsFiniteSet(Places(s)) /\ Cardinality(Places(s)) = n
         /\ StrictOrder(Places(s), PlacedBefore(s))
         /\ \A p \in Places(s) : p[1] \in Int /\ p[2] \in 1 .. n /\ p[1] = s[p[2]] /\ p = <<p[1], p[2]>>
<1>1. \A p \in Places(s) : p[1] \in Int /\ p[2] \in 1 .. n /\ p[1] = s[p[2]] /\ p = <<p[1], p[2]>>
  BY DEF Places
<1>2. IsFiniteSet(1 .. n) /\ Cardinality(1 .. n) = n
  BY FS_Interval
<1> DEFINE place == [k \in 1 .. n |-> <<s[k], k>>]
<1>3. place \in Bijection(1 .. n, Places(s))
  BY DEF Places, Bijection, Injection, Surjection, IsInjective
<1>4. IsFiniteSet(Places(s)) /\ Cardinality(Places(s)) = n
  <2>1. ExistsBijection(1 .. n, Places(s))
    BY <1>3 DEF ExistsBijection
  <2>2. QED
    BY <1>2, <2>1, FS_Bijection
<1>5. \A p, q \in Places(s) :
         <<p, q>> \in PlacedBefore(s) <=> p[1] < q[1] \/ (p[1] = q[1] /\ p[2] < q[2])
  BY DEF PlacedBefore
<1>6. StrictOrder(Places(s), PlacedBefore(s))
  <2>1. \A p \in Places(s) : <<p, p>> \notin PlacedBefore(s)
    BY <1>1, <1>5
  <2>2. ASSUME NEW p \in Places(s), NEW q \in Places(s), NEW r \in Places(s),
               <<p, q>> \in PlacedBefore(s), <<q, r>> \in PlacedBefore(s)
        PROVE  <<p, r>> \in PlacedBefore(s)
    <3>1. /\ p[1] \in Int /\ q[1] \in Int /\ r[1] \in Int
          /\ p[2] \in Int /\ q[2] \in Int /\ r[2] \in Int
      BY <1>1
    <3>2. /\ p[1] < q[1] \/ (p[1] = q[1] /\ p[2] < q[2])
          /\ q[1] < r[1] \/ (q[1] = r[1] /\ q[2] < r[2])
      BY <1>5, <2>2
    <3>3. p[1] < r[1] \/ (p[1] = r[1] /\ p[2] < r[2])
      BY <3>1, <3>2
    <3>4. QED
      BY <1>5, <3>3
  <2>3. ASSUME NEW p \in Places(s), NEW q \in Places(s)
        PROVE  p = q \/ <<p, q>> \in PlacedBefore(s) \/ <<q, p>> \in PlacedBefore(s)
    <3>1. p[1] \in Int /\ q[1] \in Int /\ p[2] \in Int /\ q[2] \in Int
      BY <1>1
    <3>2. \/ p[1] = q[1] /\ p[2] = q[2]
          \/ p[1] < q[1] \/ (p[1] = q[1] /\ p[2] < q[2])
          \/ q[1] < p[1] \/ (q[1] = p[1] /\ q[2] < p[2])
      BY <3>1
    <3>3. QED
      BY <1>1, <1>5, <3>2
  <2>4. QED
    BY <2>1, <2>2, <2>3 DEF StrictOrder
<1>7. QED
  BY <1>1, <1>4, <1>6

\* The i-th of the numbers in ascending order is the number of the i-th place.
LEMMA AscendingIs ==
  ASSUME NEW n \in Nat, NEW s \in [1 .. n -> Int]
  PROVE  /\ Ascending(s) \in [1 .. n -> Int]
         /\ \A i \in 1 .. n :
              \E p \in Places(s) : /\ Cardinality(UpTo(Places(s), PlacedBefore(s), p)) = i
                                   /\ Ascending(s)[i] = p[1]
<1> DEFINE upTo(p) == {q \in Places(s) : q[1] < p[1] \/ (q[1] = p[1] /\ q[2] <= p[2])}
<1>1. \A p \in Places(s) : p[1] \in Int /\ p[2] \in 1 .. n /\ p[1] = s[p[2]] /\ p = <<p[1], p[2]>>
  BY PlacesIs
<1>2. ASSUME NEW p \in Places(s) PROVE upTo(p) = UpTo(Places(s), PlacedBefore(s), p)
  <2>1. ASSUME NEW q \in Places(s)
        PROVE  (q[1] < p[1] \/ (q[1] = p[1] /\ q[2] <= p[2])) <=> (q = p \/ <<q, p>> \in PlacedBefore(s))
    <3>1. p[1] \in Int /\ q[1] \in Int /\ p[2] \in Int /\ q[2] \in Int
      BY <1>1
    <3>2. <<q, p>> \in PlacedBefore(s) <=> q[1] < p[1] \/ (q[1] = p[1] /\ q[2] < p[2])
      BY DEF PlacedBefore
    <3>3. q = p <=> q[1] = p[1] /\ q[2] = p[2]
      BY <1>1
    <3>4. QED
      BY <3>1, <3>2, <3>3
  <2>2. QED
    BY <2>1 DEF UpTo
<1>3. \A i \in 1 .. n : \E p \in Places(s) : Cardinality(upTo(p)) = i
  <2>1. IsFiniteSet(Places(s)) /\ Cardinality(Places(s)) = n /\ StrictOrder(Places(s), PlacedBefore(s))
    BY PlacesIs
  <2>2. \A i \in 1 .. n : \E p \in Places(s) : Cardinality(UpTo(Places(s), PlacedBefore(s), p)) = i
    BY <2>1, RankOnto
  <2> HIDE DEF upTo
  <2>3. QED
    BY <1>2, <2>2
<1> DEFINE at(i) == CHOOSE p \in Places(s) : Cardinality(upTo(p)) = i
<1>4. Ascending(s) = [i \in DOMAIN s |-> at(i)[1]]
  BY DEF Ascending, Places
<1>5. \A i \in 1 .. n : at(i) \in Places(s) /\ Cardinality(upTo(at(i))) = i
  <2> HIDE DEF upTo
  <2>1. QED
    BY <1>3
<1> HIDE DEF at, upTo
<1>6. Ascending(s) \in [1 .. n -> Int] /\ \A i \in 1 .. n : Ascending(s)[i] = at(i)[1]
  BY <1>1, <1>4, <1>5
<1>7. \A i \in 1 .. n : Cardinality(UpTo(Places(s), PlacedBefore(s), at(i))) = i
  BY <1>2, <1>5
<1>8. QED
  BY <1>5, <1>6, <1>7

LEMMA TwiceMedianType ==
  ASSUME NEW n \in Positive, NEW s \in [1 .. n -> Int]
  PROVE  /\ TwiceMedian(s) \in Int
         /\ (\A i \in 1 .. n : s[i] \in Nat) => TwiceMedian(s) \in Nat
<1>1. n \in Nat /\ Len(s) = n
  BY LenIs DEF Positive
<1>2. (n + 1) \div 2 \in 1 .. n /\ n \div 2 + 1 \in 1 .. n
  BY DEF Positive
<1>3. TwiceMedian(s) = Ascending(s)[(n + 1) \div 2] + Ascending(s)[n \div 2 + 1]
  BY <1>1 DEF TwiceMedian
<1>4. \A i \in 1 .. n : Ascending(s)[i] \in Int /\ \E k \in 1 .. n : Ascending(s)[i] = s[k]
  <2>1. ASSUME NEW i \in 1 .. n
        PROVE  Ascending(s)[i] \in Int /\ \E k \in 1 .. n : Ascending(s)[i] = s[k]
    <3>1. PICK p \in Places(s) : Ascending(s)[i] = p[1]
      BY <1>1, AscendingIs
    <3>2. p[1] \in Int /\ p[2] \in 1 .. n /\ p[1] = s[p[2]]
      BY <1>1, PlacesIs
    <3>3. QED
      BY <3>1, <3>2
  <2>2. QED
    BY <2>1
<1> DEFINE low == Ascending(s)[(n + 1) \div 2]
           high == Ascending(s)[n \div 2 + 1]
<1>5. low \in Int /\ high \in Int /\ (\E k \in 1 .. n : low = s[k]) /\ (\E k \in 1 .. n : high = s[k])
  BY <1>2, <1>4
<1>6. TwiceMedian(s) = low + high
  BY <1>3
<1> HIDE DEF low, high
<1>7. QED
  BY <1>5, <1>6

LEMMA RoundDivIs ==
  \A a \in Int, b \in Positive : RoundDiv(a, b) \in Int /\ a \div b <= RoundDiv(a, b)
<1> SUFFICES ASSUME NEW a \in Int, NEW b \in Positive
             PROVE  RoundDiv(a, b) \in Int /\ a \div b <= RoundDiv(a, b)
  OBVIOUS
<1>1. a \div b \in Int
  BY DEF Positive
<1>2. RoundDiv(a, b) = a \div b \/ RoundDiv(a, b) = a \div b + 1
  BY DEF RoundDiv
<1>3. QED
  BY <1>1, <1>2

LEMMA AbsIs == \A n \in Int : Abs(n) \in Nat /\ (n >= 0 => Abs(n) = n) /\ (n < 0 => Abs(n) = -n)
BY DEF Abs

LEMMA FiniteImage ==
  ASSUME NEW S, IsFiniteSet(S), NEW f
  PROVE  IsFiniteSet({f[x] : x \in S})
<1> DEFINE T == {f[x] : x \in S}
           g == [x \in S |-> f[x]]
<1>1. g \in Surjection(S, T)
  BY DEF Surjection
<1> HIDE DEF g, T
<1>2. IsFiniteSet(T)
  BY <1>1, FS_Surjection
<1>3. QED
  BY <1>2 DEF T

\* Transactions as the household has them.
TxnsTyped(rows) ==
    /\ IsFiniteSet(rows)
    /\ \A t \in rows : t.day \in Positive /\ t.amount \in Int

\* Of each day with a charge one, the days in order.
LEMMA DedupeIs ==
  ASSUME NEW rows, TxnsTyped(rows)
  PROVE  \E n \in Nat : /\ DedupeSameDay(rows) \in [1 .. n -> rows] /\ Len(DedupeSameDay(rows)) = n
                        /\ n > 0 => \A t \in rows : t.day <= DedupeSameDay(rows)[n].day
<1> DEFINE days == {t.day : t \in rows}
           ordered == InOrder(days)
           ofDay(i) == {t \in rows : t.day = ordered[i]}
           largest(i) == CHOOSE t \in ofDay(i) : \A u \in ofDay(i) : Abs(u.amount) <= Abs(t.amount)
<1>1. days \in SUBSET Int /\ IsFiniteSet(days)
  <2>1. \A t \in rows : t.day \in Int
    BY DEF TxnsTyped, Positive
  <2>2. IsFiniteSet(days)
    <3> DEFINE dayOf == [t \in rows |-> t.day]
    <3>1. days = {dayOf[t] : t \in rows}
      OBVIOUS
    <3> HIDE DEF dayOf, days
    <3>2. QED
      BY <3>1, FiniteImage DEF TxnsTyped
  <2>3. QED
    BY <2>1, <2>2
<1>2. /\ ordered \in [1 .. Cardinality(days) -> days] /\ Cardinality(days) \in Nat
      /\ days # {} => \A x \in days : x <= ordered[Cardinality(days)]
  <2> HIDE DEF days
  <2>1. QED
    BY <1>1, InOrderIs
<1>3. ASSUME NEW i \in 1 .. Cardinality(days)
      PROVE  largest(i) \in rows /\ largest(i).day = ordered[i]
  <2>1. ordered[i] \in days
    <3> HIDE DEF days, ordered
    <3>1. QED
      BY <1>2
  <2>2. ofDay(i) # {} /\ ofDay(i) \in SUBSET rows
    BY <2>1
  <2> DEFINE sizes == {Abs(t.amount) : t \in ofDay(i)}
  <2>3. IsFiniteSet(ofDay(i))
    <3> HIDE DEF ofDay
    <3>1. QED
      BY <2>2, FS_Subset DEF TxnsTyped
  <2> HIDE DEF ofDay
  <2>4. IsFiniteSet(sizes) /\ sizes # {} /\ sizes \in SUBSET Int
    <3>1. \A t \in ofDay(i) : Abs(t.amount) \in Int
      BY <2>2, AbsIs DEF TxnsTyped
    <3>2. IsFiniteSet(sizes)
      <4> DEFINE sizeOf == [t \in ofDay(i) |-> Abs(t.amount)]
      <4>1. sizes = {sizeOf[t] : t \in ofDay(i)}
        OBVIOUS
      <4> HIDE DEF sizeOf, sizes
      <4>2. QED
        BY <2>3, <4>1, FiniteImage
    <3>3. QED
      BY <2>2, <3>1, <3>2
  <2>5. Max(sizes) \in sizes /\ \A x \in sizes : x <= Max(sizes)
    <3> HIDE DEF sizes
    <3>1. QED
      BY <2>4, MaxOf
  <2>6. PICK t \in ofDay(i) : Abs(t.amount) = Max(sizes)
    BY <2>5
  <2>7. \A u \in ofDay(i) : Abs(u.amount) <= Abs(t.amount)
    <3>1. \A u \in ofDay(i) : Abs(u.amount) \in sizes
      OBVIOUS
    <3> HIDE DEF sizes
    <3>2. QED
      BY <2>5, <2>6, <3>1
  <2>8. largest(i) \in ofDay(i)
    BY <2>7
  <2>9. \A u \in ofDay(i) : u.day = ordered[i]
    BY DEF ofDay
  <2>10. QED
    BY <2>2, <2>8, <2>9
<1> HIDE DEF largest
<1>4. DedupeSameDay(rows) = [i \in 1 .. Cardinality(days) |-> largest(i)]
  <2>1. DedupeSameDay(rows) = [i \in DOMAIN ordered |-> largest(i)]
    BY DEF DedupeSameDay, largest
  <2> HIDE DEF ordered
  <2>2. QED
    BY <1>2, <2>1
<1>5. DedupeSameDay(rows) \in [1 .. Cardinality(days) -> rows]
  BY <1>3, <1>4
<1>6. ASSUME Cardinality(days) > 0, NEW t \in rows
      PROVE  t.day <= DedupeSameDay(rows)[Cardinality(days)].day
  <2>1. t.day \in days
    OBVIOUS
  <2> HIDE DEF days, ordered
  <2>2. Cardinality(days) \in 1 .. Cardinality(days)
    BY <1>2, <1>6
  <2>3. DedupeSameDay(rows)[Cardinality(days)].day = ordered[Cardinality(days)]
    BY <1>3, <1>4, <2>2
  <2>4. QED
    BY <1>2, <2>1, <2>3
<1> HIDE DEF days
<1>7. QED
  BY <1>2, <1>5, <1>6, LenIs

\* Every month has at least three days: the shortest there is has nine times as many.
MonthsOfThree == \A month \in Positive : DaysIn(month) >= 3

\* The next charge is that many days off, at least, when months are no shorter than that.
LEMMA AddMonthsFar ==
  ASSUME MonthsOfThree, NEW day \in Positive, NEW n \in Positive
  PROVE  AddMonths(day, n) >= day + 3 * n
<1> DEFINE m == MonthOf(day)
<1>1. m \in Positive /\ FirstOf[m] <= day /\ day < FirstOf[m + 1]
  BY MonthOfIs DEF InMonth
<1> HIDE DEF m
<1> DEFINE T == {k \in Nat : \A j \in Positive : FirstOf[j + k] >= FirstOf[j] + 3 * k}
<1>2. 0 \in T
  <2>1. ASSUME NEW j \in Positive PROVE FirstOf[j + 0] >= FirstOf[j] + 3 * 0
    <3>1. FirstOf[j] \in Int /\ j + 0 = j
      BY FirstOfIs DEF Positive
    <3>2. QED
      BY <3>1
  <2>2. QED
    BY <2>1
<1>3. ASSUME NEW k \in Nat, k \in T PROVE k + 1 \in T
  <2>1. ASSUME NEW j \in Positive PROVE FirstOf[j + (k + 1)] >= FirstOf[j] + 3 * (k + 1)
    <3>1. j + k \in Positive /\ (j + k) + 1 = j + (k + 1)
      BY DEF Positive
    <3>2. FirstOf[(j + k) + 1] = FirstOf[j + k] + DaysIn(j + k) /\ DaysIn(j + k) >= 3 /\ DaysIn(j + k) \in Int
      BY <3>1, FirstOfIs, DaysInType DEF MonthsOfThree, Positive
    <3>3. FirstOf[j + k] >= FirstOf[j] + 3 * k /\ FirstOf[j + k] \in Int /\ FirstOf[j] \in Int
      BY <1>3, <3>1, FirstOfIs DEF Positive
    <3>4. QED
      BY <3>1, <3>2, <3>3
  <2>2. QED
    BY <2>1
<1>4. \A k \in Nat : k \in T
  <2> HIDE DEF T
  <2>1. QED
    BY <1>2, <1>3, NatUp
<1>5. n \in Nat /\ n \in T /\ m + 1 \in Positive /\ m + n \in Positive /\ m \in Nat
  BY <1>1, <1>4 DEF Positive
<1>6. FirstOf[m + n] >= FirstOf[m] + 3 * n /\ FirstOf[(m + 1) + n] >= FirstOf[m + 1] + 3 * n
  BY <1>1, <1>5
<1> HIDE DEF T
<1>7. /\ FirstOf[m] \in Int /\ FirstOf[m + 1] \in Int /\ FirstOf[m + n] \in Int /\ DaysIn(m + n) \in Int
      /\ FirstOf[(m + 1) + n] = FirstOf[m + n] + DaysIn(m + n)
  <2>1. (m + 1) + n = (m + n) + 1
    BY <1>5
  <2>2. QED
    BY <1>1, <1>5, <2>1, FirstOfIs, DaysInType DEF Positive
<1> DEFINE in == day - FirstOf[m] + 1
           least == Min({in, DaysIn(m + n)})
<1>8. AddMonths(day, n) = FirstOf[m + n] + least - 1
  BY DEF AddMonths, DayInMonth, m
<1>9. in \in Int /\ day \in Int
  BY <1>7 DEF Positive
<1>10. least = IF in <= DaysIn(m + n) THEN in ELSE DaysIn(m + n)
  <2> HIDE DEF in
  <2>1. QED
    BY <1>7, <1>9, MinOfTwo
<1> HIDE DEF least
<1>11. QED
  BY <1>1, <1>5, <1>6, <1>7, <1>8, <1>9, <1>10

NextFar(row) ==
    /\ row.next >= row.lastDay + 3
    /\ row.cadence = "yearly" => row.next >= row.lastDay + 36

IsCandidate(c, rows) ==
    /\ c.cadence \in Cadence
    /\ c.twiceTypical \in Nat /\ c.last \in Nat /\ c.increase \in Nat
    /\ c.charges \in Nat /\ c.gap \in Int /\ c.next \in Positive
    /\ \E t \in rows : c.lastDay = t.day /\ c.direction = Direction(t.amount)
    /\ MonthsOfThree => NextFar(c)

\* What detection takes for the last charge is the latest there is.
IsLast(c, rows) ==
    \E t \in rows : c.lastDay = t.day /\ c.last = Abs(t.amount) /\ \A u \in rows : u.day <= t.day

LEMMA NextExpectedOnIs ==
  ASSUME NEW day \in Positive, NEW cadence \in Cadence, NEW gap \in Int,
         cadence \in DOMAIN StepDays => gap >= 5
  PROVE  /\ NextExpectedOn(day, cadence, gap) \in Positive
         /\ MonthsOfThree => /\ NextExpectedOn(day, cadence, gap) >= day + 3
                             /\ cadence = "yearly" => NextExpectedOn(day, cadence, gap) >= day + 36
<1>1. CASE cadence \in DOMAIN StepMonths
  <2>1. StepMonths[cadence] \in Positive /\ (cadence = "yearly" => StepMonths[cadence] = 12)
    BY <1>1 DEF StepMonths, Positive
  <2>2. NextExpectedOn(day, cadence, gap) = AddMonths(day, StepMonths[cadence])
    BY <1>1 DEF NextExpectedOn
  <2> DEFINE n == StepMonths[cadence]
  <2> HIDE DEF n
  <2>3. n \in Positive /\ (cadence = "yearly" => n = 12) /\ NextExpectedOn(day, cadence, gap) = AddMonths(day, n)
    BY <2>1, <2>2 DEF n
  <2>4. AddMonths(day, n) \in Positive /\ (MonthsOfThree => AddMonths(day, n) >= day + 3 * n)
    BY <2>3, AddMonthsIs, AddMonthsFar
  <2> DEFINE to == AddMonths(day, n)
  <2>5. to \in Positive /\ (MonthsOfThree => to >= day + 3 * n) /\ NextExpectedOn(day, cadence, gap) = to
    BY <2>3, <2>4
  <2> HIDE DEF to
  <2>6. QED
    BY <2>3, <2>5 DEF Positive
<1>2. CASE cadence \notin DOMAIN StepMonths
  <2>1. cadence \in DOMAIN StepDays /\ cadence # "yearly"
    BY <1>2 DEF Cadence, StepMonths
  <2>2. NextExpectedOn(day, cadence, gap) = day + gap
    BY <1>2 DEF NextExpectedOn
  <2>3. QED
    BY <2>1, <2>2 DEF Positive
<1>3. QED
  BY <1>1, <1>2

LEMMA CandidateIs ==
  ASSUME NEW rows, TxnsTyped(rows), Candidate(rows) # NoCandidate
  PROVE  IsCandidate(Candidate(rows), rows) /\ IsLast(Candidate(rows), rows)
<1> DEFINE charges == DedupeSameDay(rows)
           n == Len(charges)
           gaps == [i \in 1 .. n - 1 |-> charges[i + 1].day - charges[i].day]
           twiceGap == TwiceMedian(gaps)
           cadence == CHOOSE c \in CadencesOf(twiceGap) : TRUE
           points == CadencePoints(gaps, cadence, twiceGap)
           sizes == [i \in 1 .. n |-> Abs(charges[i].amount)]
           amounts == Ascending(sizes)
           spread == amounts[n] - amounts[1]
           amountPoints == AmountPoints(spread, TwiceMedian(amounts))
           last == charges[n]
           gap == RoundDiv(twiceGap, 2)
           prior == [i \in 1 .. n - 1 |-> Abs(charges[i].amount)]
           increase == PriceIncrease(Abs(last.amount), TwiceMedian(prior))
           next == NextExpectedOn(last.day, cadence, gap)
           confidence == Confidence(points, n - 1, amountPoints, n)
           found == [cadence |-> cadence, direction |-> Direction(last.amount),
                     twiceTypical |-> TwiceMedian(amounts), last |-> Abs(last.amount),
                     increase |-> increase, charges |-> n, lastDay |-> last.day, gap |-> gap,
                     next |-> next, confidence |-> confidence]
           short == \/ n < MinCharges
                    \/ charges[n].day - charges[1].day < MinSpanDays
                    \/ CadencesOf(twiceGap) = {}
                    \/ 5 * points < 6 * (n - 1)
                    \/ amountPoints = 0
                    \/ confidence < MinConfidence
<1>1. Candidate(rows) = IF short THEN NoCandidate ELSE found
  BY DEF Candidate
<1>2. n \in Nat /\ charges \in [1 .. n -> rows] /\ (n > 0 => \A t \in rows : t.day <= charges[n].day)
  BY DedupeIs
<1> HIDE DEF charges, found, confidence, points, amountPoints
<1>3. ~short /\ Candidate(rows) = found
  BY <1>1
<1>4. n >= 3 /\ CadencesOf(twiceGap) # {}
  <2> HIDE DEF n, twiceGap
  <2>1. ~(n < MinCharges) /\ CadencesOf(twiceGap) # {}
    BY <1>3
  <2>2. QED
    BY <1>2, <2>1 DEF MinCharges
<1> HIDE DEF short, n
<1>5. \A i \in 1 .. n : charges[i] \in rows /\ charges[i].day \in Positive /\ charges[i].amount \in Int
  BY <1>2 DEF TxnsTyped
<1>6. n - 1 \in Positive /\ n \in Positive /\ n \in 1 .. n
  BY <1>2, <1>4 DEF Positive
<1>7. /\ last \in rows /\ last.day \in Positive /\ last.amount \in Int
      /\ \A t \in rows : t.day <= last.day
  BY <1>2, <1>4, <1>5, <1>6
<1>8. gaps \in [1 .. n - 1 -> Int] /\ prior \in [1 .. n - 1 -> Int] /\ sizes \in [1 .. n -> Int]
      /\ \A i \in 1 .. n : sizes[i] \in Nat
  <2>1. \A i \in 1 .. n : charges[i].day \in Int /\ Abs(charges[i].amount) \in Nat
    BY <1>5, AbsIs DEF Positive
  <2>2. \A i \in 1 .. n - 1 : i \in 1 .. n /\ i + 1 \in 1 .. n
    BY <1>2, <1>6
  <2>3. QED
    BY <2>1, <2>2
<1> HIDE DEF gaps, prior, sizes, last
<1>9. twiceGap \in Int /\ TwiceMedian(prior) \in Int
  BY <1>6, <1>8, TwiceMedianType
<1>10. amounts \in [1 .. n -> Int] /\ \A i \in 1 .. n : amounts[i] \in Nat
  <2>1. n \in Nat
    BY <1>2
  <2>2. amounts \in [1 .. n -> Int] /\ \A i \in 1 .. n : \E p \in Places(sizes) : amounts[i] = p[1]
    BY <1>8, <2>1, AscendingIs
  <2>3. \A p \in Places(sizes) : p[2] \in 1 .. n /\ p[1] = sizes[p[2]]
    BY <1>8, <2>1, PlacesIs
  <2> HIDE DEF amounts
  <2>4. QED
    BY <1>8, <2>2, <2>3
<1> HIDE DEF amounts
<1>11. TwiceMedian(amounts) \in Nat
  BY <1>6, <1>10, TwiceMedianType
<1> HIDE DEF twiceGap
<1>12. gap \in Int /\ twiceGap \div 2 <= gap
  BY <1>9, RoundDivIs DEF Positive
<1>13. cadence \in Cadence /\ cadence \in CadencesOf(twiceGap)
  BY <1>4 DEF CadencesOf
<1> HIDE DEF cadence, gap
<1>14. cadence \in DOMAIN StepDays => gap >= 5
  <2>1. 2 * Buckets[cadence][1] <= twiceGap
    BY <1>13 DEF CadencesOf
  <2>2. cadence \in DOMAIN StepDays => Buckets[cadence][1] >= 5 /\ Buckets[cadence][1] \in Int
    BY DEF StepDays, Buckets
  <2> DEFINE low == Buckets[cadence][1]
  <2>3. 2 * low <= twiceGap /\ (cadence \in DOMAIN StepDays => low >= 5 /\ low \in Int)
    BY <2>1, <2>2
  <2> HIDE DEF low
  <2>4. QED
    BY <1>9, <1>12, <2>3
<1>15. /\ next \in Positive
       /\ MonthsOfThree => next >= last.day + 3 /\ (cadence = "yearly" => next >= last.day + 36)
  BY <1>7, <1>12, <1>13, <1>14, NextExpectedOnIs
<1>16. Abs(last.amount) \in Nat
  BY <1>7, AbsIs
<1>17. increase \in Nat
  <2>1. Abs(last.amount) \in Int /\ TwiceMedian(prior) \in Int
    BY <1>9, <1>16
  <2> DEFINE a == Abs(last.amount)
             b == TwiceMedian(prior)
  <2>2. a \in Int /\ b \in Int /\ increase = PriceIncrease(a, b)
    BY <2>1
  <2> HIDE DEF a, b, increase
  <2>3. QED
    BY <2>2 DEF PriceIncrease, IncreaseFloor
<1> HIDE DEF next, increase
<1>18. /\ found.cadence = cadence /\ found.direction = Direction(last.amount)
       /\ found.twiceTypical = TwiceMedian(amounts) /\ found.last = Abs(last.amount)
       /\ found.increase = increase /\ found.charges = n /\ found.lastDay = last.day
       /\ found.gap = gap /\ found.next = next
  BY DEF found
<1>19. MonthsOfThree => NextFar(found)
  BY <1>15, <1>18 DEF NextFar
<1>20. IsCandidate(found, rows)
  BY <1>2, <1>7, <1>11, <1>12, <1>13, <1>15, <1>16, <1>17, <1>18, <1>19 DEF IsCandidate
<1>21. IsLast(found, rows)
  BY <1>7, <1>18 DEF IsLast
<1>22. QED
  BY <1>3, <1>20, <1>21
-------------------------------------------------------------------------------
(* The rows of the household *)

TxnsSound ==
    /\ today \in Positive /\ MonthOf(today) \in Month
    /\ IsFiniteSet(txns) /\ txns \subseteq TxnRow
    /\ \A t \in txns : t.day <= today /\ t.id <= Cardinality(txns)
    /\ \A t, u \in txns : t.id = u.id => t = u

BudgetSound == budget \in [Category \X Month -> BudgetRow \cup {None}]

RowSound(row) ==
    /\ row.lastDay \in Positive /\ row.next \in Positive
    /\ row.status = "cancelled" <=> row.cancelledOn # None
    /\ MonthsOfThree => NextFar(row)

SeriesSound ==
    /\ series \in [Merchants -> SeriesRow \cup {None}]
    /\ born \in [Merchants -> Nat]
    /\ \A m \in Rows : RowSound(series[m])

HoldingsSound ==
    /\ DOMAIN balance \subseteq Accounts
    /\ balance \in [DOMAIN balance -> Balances]
    /\ goals \in [Goals -> GoalRow \cup {None}]
    /\ \A g \in Goals : goals[g] # None => goals[g].accounts \subseteq DOMAIN balance

PlanInvariant == TxnsSound /\ BudgetSound /\ SeriesSound /\ HoldingsSound

LEMMA InitSound == Init => PlanInvariant
<1> SUFFICES ASSUME Init PROVE PlanInvariant
  OBVIOUS
<1> USE DEF Init, LedgerInit
<1>1. TxnsSound
  <2>1. InMonth(1, 1)
    BY FirstOfIs, DaysInType DEF InMonth, Positive
  <2>2. MonthOf(1) \in Month
    BY <2>1, OneMonth, BoundsAssumption DEF Month, Positive
  <2>3. QED
    BY <2>2, FS_EmptySet DEF TxnsSound, Positive
<1>2. BudgetSound
  BY DEF BudgetSound
<1>3. SeriesSound
  BY DEF SeriesSound, Rows
<1>4. HoldingsSound
  BY DEF HoldingsSound
<1>5. QED
  BY <1>1, <1>2, <1>3, <1>4 DEF PlanInvariant

\* Any part of the transactions is of typed rows.
LEMMA PartTyped ==
  ASSUME TxnsSound, NEW rows \in SUBSET txns
  PROVE  TxnsTyped(rows)
<1>1. IsFiniteSet(rows)
  BY FS_Subset DEF TxnsSound
<1>2. \A t \in rows : t.day \in Positive /\ t.amount \in Int
  BY AmountsAssumption DEF TxnsSound, TxnRow, Positive
<1>3. QED
  BY <1>1, <1>2 DEF TxnsTyped

LEMMA NextDaySound == TxnsSound /\ NextDay => TxnsSound'
<1> SUFFICES ASSUME TxnsSound, NextDay PROVE TxnsSound'
  OBVIOUS
<1>1. today' = today + 1 /\ txns' = txns
  BY DEF NextDay
<1>2. \A t \in txns : t.day \in Int
  BY DEF TxnsSound, TxnRow
<1>3. today \in Positive
  BY DEF TxnsSound
<1>4. \A t \in txns : t.day <= today + 1
  BY <1>2, <1>3 DEF TxnsSound, Positive
<1>5. today + 1 \in Positive
  BY <1>3 DEF Positive
<1>6. MonthOf(today + 1) \in Month
  <2>1. MonthOf(today + 1) \in Positive
    BY <1>5, MonthOfIs DEF InMonth
  <2>2. QED
    BY <2>1, BoundsAssumption DEF NextDay, Month, Positive
<1>7. QED
  BY <1>1, <1>4, <1>5, <1>6 DEF TxnsSound

LEMMA PostSound ==
  ASSUME TxnsSound, NEW merchant \in Merchants, NEW category \in Category \cup {None},
         NEW day \in Positive, NEW amount \in Amounts, day <= today, Post(merchant, category, day, amount)
  PROVE  TxnsSound'
<1> DEFINE n == Cardinality(txns)
           t == [id |-> n + 1, merchant |-> merchant, category |-> category,
                 day |-> day, amount |-> amount, ignored |-> FALSE]
<1>1. txns' = txns \cup {t} /\ today' = today /\ n < MaxTxns
  BY DEF Post
<1>2. n \in Nat
  BY FS_CardinalityType DEF TxnsSound
<1>3. n + 1 \in 1 .. MaxTxns
  BY <1>1, <1>2, BoundsAssumption
<1> HIDE DEF n
<1>4. t \in TxnRow /\ t.id = n + 1 /\ t.day = day
  BY <1>3 DEF TxnRow, Positive
<1> HIDE DEF t
<1>5. \A u \in txns : u.id \in Int /\ u.id <= n /\ u.id # n + 1 /\ u.day <= today
  BY <1>2 DEF TxnsSound, TxnRow, n
<1>6. t \notin txns
  BY <1>4, <1>5
<1>7. IsFiniteSet(txns') /\ Cardinality(txns') = n + 1
  BY <1>1, <1>6, FS_AddElement DEF TxnsSound, n
<1>8. \A u \in txns' : u.day <= today' /\ u.id <= Cardinality(txns')
  BY <1>1, <1>2, <1>4, <1>5, <1>7
<1>9. \A u, w \in txns' : u.id = w.id => u = w
  BY <1>1, <1>4, <1>5 DEF TxnsSound
<1>10. QED
  BY <1>1, <1>4, <1>7, <1>8, <1>9 DEF TxnsSound

LEMMA EditTxnSound ==
  ASSUME TxnsSound, NEW t \in txns, NEW category \in Category \cup {None}, NEW ignored \in BOOLEAN,
         EditTxn(t, category, ignored)
  PROVE  TxnsSound'
<1> DEFINE u == [t EXCEPT !.category = category, !.ignored = ignored]
<1>1. txns' = (txns \ {t}) \cup {u} /\ today' = today
  BY DEF EditTxn
<1>2. t \in TxnRow
  BY DEF TxnsSound
<1>3. u \in TxnRow /\ u.id = t.id /\ u.day = t.day
  BY <1>2 DEF TxnRow
<1> HIDE DEF u
<1> DEFINE rest == txns \ {t}
           n == Cardinality(txns)
<1>4. IsFiniteSet(txns) /\ n \in Nat
  BY FS_CardinalityType DEF TxnsSound
<1>5. IsFiniteSet(rest) /\ Cardinality(rest) = n - 1
  BY <1>4, FS_RemoveElement
<1>6. u \notin rest
  BY <1>3 DEF TxnsSound
<1> HIDE DEF rest
<1>7. IsFiniteSet(rest \cup {u}) /\ Cardinality(rest \cup {u}) = n
  <2>1. Cardinality(rest \cup {u}) = Cardinality(rest) + 1 /\ IsFiniteSet(rest \cup {u})
    BY <1>5, <1>6, FS_AddElement
  <2> HIDE DEF n
  <2>2. QED
    BY <1>4, <1>5, <2>1
<1>8. txns' = rest \cup {u} /\ IsFiniteSet(txns') /\ Cardinality(txns') = n
  BY <1>1, <1>7 DEF rest
<1>9. \A w \in txns' : w.day <= today' /\ w.id <= Cardinality(txns')
  BY <1>1, <1>3, <1>8 DEF TxnsSound, rest
<1>10. \A w, v \in txns' : w.id = v.id => w = v
  BY <1>3, <1>8 DEF TxnsSound, rest
<1>11. txns' \subseteq TxnRow
  BY <1>3, <1>8 DEF TxnsSound, rest
<1>12. QED
  BY <1>1, <1>8, <1>9, <1>10, <1>11 DEF TxnsSound

LEMMA PutBudgetsSound ==
  ASSUME BudgetSound, NEW month \in Month, NEW items, \A c \in DOMAIN items : items[c] \in BudgetRow,
         PutBudgets(month, items)
  PROVE  BudgetSound'
<1>1. budget' = [key \in Category \X Month |->
                   IF key[2] = month /\ key[1] \in DOMAIN items THEN items[key[1]] ELSE budget[key]]
  BY DEF PutBudgets, Upserted, BudgetSound
<1>2. \A key \in Category \X Month :
         (IF key[2] = month /\ key[1] \in DOMAIN items THEN items[key[1]] ELSE budget[key]) \in BudgetRow \cup {None}
  BY DEF BudgetSound
<1>3. QED
  BY <1>1, <1>2 DEF BudgetSound

LEMMA LedgerSound ==
  ASSUME TxnsSound, BudgetSound, LedgerNext
  PROVE  TxnsSound' /\ BudgetSound'
<1>1. CASE NextDay
  BY <1>1, NextDaySound DEF NextDay, BudgetSound
<1>2. ASSUME NEW merchant \in Merchants, NEW category \in Category \cup {None},
             NEW day \in TxnDays, NEW amount \in Amounts,
             day <= today, Post(merchant, category, day, amount)
      PROVE  TxnsSound' /\ BudgetSound'
  <2>1. day \in Positive
    BY BoundsAssumption DEF Positive
  <2>2. TxnsSound'
    BY <1>2, <2>1, PostSound
  <2>3. QED
    BY <1>2, <2>2 DEF Post, BudgetSound
<1>3. ASSUME NEW t \in txns, NEW category \in Category \cup {None}, NEW ignored \in BOOLEAN,
             EditTxn(t, category, ignored)
      PROVE  TxnsSound' /\ BudgetSound'
  <2>1. TxnsSound'
    BY <1>3, EditTxnSound
  <2>2. QED
    BY <1>3, <2>1 DEF EditTxn, BudgetSound
<1>4. ASSUME NEW month \in Month, NEW c \in Category, NEW row \in BudgetRow, PutBudgets(month, [only \in {c} |-> row])
      PROVE  TxnsSound' /\ BudgetSound'
  <2> DEFINE items == [only \in {c} |-> row]
  <2>1. \A k \in DOMAIN items : items[k] \in BudgetRow
    OBVIOUS
  <2>2. PutBudgets(month, items)
    BY <1>4
  <2> HIDE DEF items
  <2>3. BudgetSound'
    BY <2>1, <2>2, PutBudgetsSound
  <2>4. QED
    BY <2>2, <2>3 DEF PutBudgets, TxnsSound
<1>5. ASSUME NEW from \in Month, NEW to \in Month, CopyBudgets(from, to)
      PROVE  TxnsSound' /\ BudgetSound'
  <2> DEFINE items == [c \in Budgeted(from) |-> budget[<<c, from>>]]
  <2>1. PutBudgets(to, items)
    BY <1>5 DEF CopyBudgets
  <2>2. \A c \in DOMAIN items : items[c] \in BudgetRow
    BY DEF Budgeted, BudgetSound
  <2> HIDE DEF items
  <2>3. BudgetSound'
    BY <2>1, <2>2, PutBudgetsSound
  <2>4. QED
    BY <2>1, <2>3 DEF PutBudgets, TxnsSound
<1>6. QED
  BY <1>1, <1>2, <1>3, <1>4, <1>5 DEF LedgerNext

(* The rows of series *)

LEMMA CandidatesAre ==
  ASSUME TxnsSound, NEW m \in Merchants, NEW c \in Candidates(m)
  PROVE  /\ IsCandidate(c, txns) /\ c.direction \in {1, -1}
         /\ c = Candidate({t \in Matching(m, c.direction) : ~t.ignored})
         /\ IsLast(c, {t \in Matching(m, c.direction) : ~t.ignored})
<1>1. PICK d \in {1, -1} : c = Candidate({t \in Matching(m, d) : ~t.ignored}) /\ c # NoCandidate
  BY DEF Candidates
<1> DEFINE rows == {t \in Matching(m, d) : ~t.ignored}
<1>2. rows \in SUBSET txns /\ \A t \in rows : Direction(t.amount) = d
  BY DEF Matching
<1> HIDE DEF rows
<1>3. TxnsTyped(rows)
  BY <1>2, PartTyped
<1>4. IsCandidate(c, rows) /\ IsLast(c, rows)
  BY <1>1, <1>3, CandidateIs DEF rows
<1>5. IsCandidate(c, txns) /\ c.direction = d
  BY <1>2, <1>4 DEF IsCandidate
<1>6. IsLast(c, {t \in Matching(m, c.direction) : ~t.ignored})
  BY <1>4, <1>5 DEF rows
<1>7. QED
  BY <1>1, <1>5, <1>6

LEMMA StrongestIs ==
  ASSUME TxnsSound, NEW m \in Merchants, NEW first \in {1, -1}, Candidates(m) # {}
  PROVE  Strongest(Candidates(m), first) \in Candidates(m)
<1> DEFINE found(d) == Candidate({t \in Matching(m, d) : ~t.ignored})
<1>1. Candidates(m) = {found(1), found(-1)} \ {NoCandidate}
  BY DEF Candidates
<1>2. \A c \in Candidates(m) : c.charges \in Nat /\ c.direction \in {1, -1} /\ c = found(c.direction)
  <2>1. SUFFICES ASSUME NEW c \in Candidates(m)
                 PROVE  c.charges \in Nat /\ c.direction \in {1, -1} /\ c = found(c.direction)
    OBVIOUS
  <2>2. IsCandidate(c, txns) /\ c.direction \in {1, -1} /\ c = found(c.direction)
    BY CandidatesAre
  <2> HIDE DEF found
  <2>3. QED
    BY <2>2 DEF IsCandidate
<1> HIDE DEF found
<1>3. \E c \in Candidates(m) :
         \A d \in Candidates(m) \ {c} :
            d.charges < c.charges \/ (d.charges = c.charges /\ c.direction = first)
  <2>1. CASE \E c \in Candidates(m) : Candidates(m) = {c}
    BY <2>1
  <2>2. CASE ~\E c \in Candidates(m) : Candidates(m) = {c}
    <3> DEFINE a == found(1)
               b == found(-1)
    <3>1. Candidates(m) = {a, b} /\ a # b
      BY <1>1, <2>2
    <3>2. a.charges \in Nat /\ b.charges \in Nat /\ a.direction \in {1, -1} /\ b.direction \in {1, -1}
          /\ a.direction # b.direction
      <4>1. /\ a.charges \in Nat /\ a.direction \in {1, -1} /\ a = found(a.direction)
            /\ b.charges \in Nat /\ b.direction \in {1, -1} /\ b = found(b.direction)
        BY <1>2, <3>1
      <4>2. a.direction # b.direction
        BY <3>1, <4>1
      <4>3. QED
        BY <4>1, <4>2
    <3> HIDE DEF a, b
    <3>3. CASE a.charges > b.charges
      BY <3>1, <3>2, <3>3
    <3>4. CASE b.charges > a.charges
      BY <3>1, <3>2, <3>4
    <3>5. CASE a.charges = b.charges
      <4>1. a.direction = first \/ b.direction = first
        BY <3>2
      <4>2. QED
        BY <3>1, <3>5, <4>1
    <3>6. QED
      BY <3>2, <3>3, <3>4, <3>5
  <2>3. QED
    BY <2>1, <2>2
<1>4. QED
  BY <1>3 DEF Strongest

LEMMA AppliedSound ==
  ASSUME TxnsSound, NEW c, IsCandidate(c, txns), c.direction \in {1, -1},
         NEW row \in SeriesRow \cup {None},
         row # None => row \in SeriesRow /\ (row.status = "cancelled" <=> row.cancelledOn # None)
  PROVE  Applied(row, c) \in SeriesRow /\ RowSound(Applied(row, c))
<1> DEFINE status == IF row # None /\ row.status \in {"cancelled", "ignored"} THEN row.status
                     ELSE IF PastGrace(c.next, c.gap, today) THEN "ended" ELSE "active"
           cancelledOn == IF row = None THEN None ELSE row.cancelledOn
           noted == row # None /\ row.noted
           a == [cadence |-> c.cadence, direction |-> c.direction, twiceTypical |-> c.twiceTypical,
                 last |-> c.last, increase |-> c.increase, lastDay |-> c.lastDay, next |-> c.next,
                 status |-> status, cancelledOn |-> cancelledOn, noted |-> noted]
<1>1. Applied(row, c) = a
  BY DEF Applied
<1>2. /\ status \in {"active", "ended", "cancelled", "ignored"}
      /\ cancelledOn \in Nat \cup {None}
      /\ status = "cancelled" <=> cancelledOn # None
  BY DEF SeriesRow
<1>9. noted \in BOOLEAN
  OBVIOUS
<1> HIDE DEF status, cancelledOn, noted
<1>3. /\ c.cadence \in Cadence /\ c.twiceTypical \in Nat /\ c.last \in Nat /\ c.increase \in Nat
      /\ c.next \in Positive /\ c.lastDay \in Positive /\ (MonthsOfThree => NextFar(c))
  BY DEF IsCandidate, TxnsSound, TxnRow, Positive
<1>4. c.next \in Nat /\ c.lastDay \in Nat
  BY <1>3 DEF Positive
<1>5. a \in SeriesRow
  BY <1>2, <1>3, <1>4, <1>9 DEF SeriesRow
<1>6. /\ a.lastDay = c.lastDay /\ a.next = c.next /\ a.cadence = c.cadence
      /\ a.status = status /\ a.cancelledOn = cancelledOn
  OBVIOUS
<1> HIDE DEF a
<1>7. RowSound(a)
  BY <1>2, <1>3, <1>6 DEF RowSound, NextFar
<1>8. QED
  BY <1>1, <1>5, <1>7

LEMMA DetectSound ==
  ASSUME TxnsSound, SeriesSound, Detect
  PROVE  SeriesSound'
<1>1. PICK first \in {1, -1} : series' = [m \in Merchants |-> Detected(m, first)]
  BY DEF Detect
<1>2. ASSUME NEW m \in Merchants
      PROVE  /\ Detected(m, first) \in SeriesRow \cup {None}
             /\ Detected(m, first) # None => RowSound(Detected(m, first))
  <2> DEFINE row == series[m]
  <2>1. row \in SeriesRow \cup {None}
    BY DEF SeriesSound
  <2>2. row # None => row \in SeriesRow /\ RowSound(row)
    BY <2>1 DEF SeriesSound, Rows
  <2>3. CASE Candidates(m) # {}
    <3> DEFINE c == Strongest(Candidates(m), first)
    <3>1. c \in Candidates(m)
      BY <2>3, StrongestIs
    <3>2. Detected(m, first) = Applied(row, c)
      BY <2>3 DEF Detected
    <3> HIDE DEF c, row
    <3>3. IsCandidate(c, txns) /\ c.direction \in {1, -1}
      BY <3>1, CandidatesAre
    <3>4. row # None => row \in SeriesRow /\ (row.status = "cancelled" <=> row.cancelledOn # None)
      BY <2>2 DEF RowSound
    <3>5. Applied(row, c) \in SeriesRow /\ RowSound(Applied(row, c))
      BY <2>1, <3>3, <3>4, AppliedSound
    <3>6. QED
      BY <3>2, <3>5
  <2>4. CASE Candidates(m) = {}
    <3> DEFINE status == IF row.status \in {"cancelled", "ignored"} THEN row.status ELSE "ended"
               ended == [row EXCEPT !.status = status]
    <3>1. Detected(m, first) = IF row # None /\ Touched(row) THEN ended ELSE None
      BY <2>4 DEF Detected
    <3> HIDE DEF row
    <3>2. ASSUME row # None
          PROVE  ended \in SeriesRow /\ RowSound(ended)
      <4>1. row \in SeriesRow /\ RowSound(row)
        BY <2>2, <3>2
      <4>2. /\ status \in {"ended", "cancelled", "ignored"}
            /\ status = "cancelled" <=> row.status = "cancelled"
        OBVIOUS
      <4> HIDE DEF status
      <4>3. /\ ended \in SeriesRow /\ ended.status = status /\ ended.cancelledOn = row.cancelledOn
            /\ ended.lastDay = row.lastDay /\ ended.next = row.next /\ ended.cadence = row.cadence
        BY <4>1, <4>2 DEF SeriesRow
      <4> HIDE DEF ended
      <4>4. RowSound(ended)
        BY <4>1, <4>2, <4>3 DEF RowSound, NextFar
      <4>5. QED
        BY <4>3, <4>4
    <3> HIDE DEF ended
    <3>3. QED
      BY <3>1, <3>2
  <2>5. QED
    BY <2>3, <2>4
<1>3. series' \in [Merchants -> SeriesRow \cup {None}]
  BY <1>1, <1>2
<1>4. \A m \in Rows' : RowSound(series'[m])
  BY <1>1, <1>2 DEF Rows
<1>5. born' \in [Merchants -> Nat]
  BY DEF Detect, SeriesSound
<1>6. QED
  BY <1>3, <1>4, <1>5 DEF SeriesSound, RowSound, NextFar

LEMMA UpdateSeriesSound ==
  ASSUME TxnsSound, SeriesSound, NEW m \in Merchants, NEW noted \in BOOLEAN,
         NEW status \in {"active", "cancelled", "ignored", None}, UpdateSeries(m, status, noted)
  PROVE  SeriesSound'
<1> DEFINE row == series[m]
           to == IF status = None THEN row.status ELSE status
           since == CASE status = None -> row.cancelledOn
                      [] status \notin {None, "cancelled"} -> None
                      [] OTHER -> IF row.cancelledOn = None THEN today ELSE row.cancelledOn
           updated == [row EXCEPT !.status = to, !.cancelledOn = since, !.noted = noted]
<1>1. series' = [series EXCEPT ![m] = updated] /\ born' = born
  BY DEF UpdateSeries
<1>2. row \in SeriesRow /\ RowSound(row)
  BY DEF UpdateSeries, SeriesSound, Rows
<1>3. today \in Nat /\ today # None
  BY NoneAssumption DEF TxnsSound, Positive
<1> HIDE DEF row
<1>4. row.cancelledOn \in Nat \cup {None} /\ (row.status = "cancelled" <=> row.cancelledOn # None)
  BY <1>2 DEF SeriesRow, RowSound
<1>5. /\ to \in {"active", "ended", "cancelled", "ignored"}
      /\ since \in Nat \cup {None} /\ (to = "cancelled" <=> since # None)
  <2>1. CASE status = None
    BY <1>2, <1>4, <2>1 DEF SeriesRow
  <2>2. CASE status \notin {None, "cancelled"}
    BY <2>2
  <2>3. CASE status # None /\ status = "cancelled"
    BY <1>3, <1>4, <2>3
  <2>4. QED
    BY <2>1, <2>2, <2>3
<1> HIDE DEF since, to
<1>6. /\ updated \in SeriesRow
      /\ updated.lastDay = row.lastDay /\ updated.next = row.next /\ updated.cadence = row.cadence
      /\ updated.status = to /\ updated.cancelledOn = since
  BY <1>2, <1>5 DEF SeriesRow
<1> HIDE DEF updated
<1>7. RowSound(updated)
  BY <1>2, <1>5, <1>6 DEF RowSound, NextFar
<1>8. series' \in [Merchants -> SeriesRow \cup {None}]
      /\ \A n \in Merchants : series'[n] = IF n = m THEN updated ELSE series[n]
  BY <1>1, <1>6 DEF SeriesSound
<1>9. \A n \in Rows' : RowSound(series'[n])
  BY <1>7, <1>8 DEF SeriesSound, Rows
<1>10. QED
  BY <1>1, <1>8, <1>9 DEF SeriesSound, RowSound, NextFar

(* Accounts and goals *)

LEMMA GoalSound ==
  ASSUME HoldingsSound, GoalNext
  PROVE  HoldingsSound'
<1> USE DEF HoldingsSound
<1>1. ASSUME NEW a \in Accounts, NEW amount \in Balances, SetBalance(a, amount)
      PROVE  HoldingsSound'
  BY <1>1 DEF SetBalance
<1>2. ASSUME NEW a \in Accounts, DeleteAccount(a)
      PROVE  HoldingsSound'
  <2>1. /\ balance' = [b \in DOMAIN balance \ {a} |-> balance[b]]
        /\ goals' = [g \in Goals |-> IF goals[g] = None THEN None ELSE [goals[g] EXCEPT !.accounts = @ \ {a}]]
    BY <1>2 DEF DeleteAccount
  <2>2. ASSUME NEW g \in Goals, goals[g] # None
        PROVE  /\ [goals[g] EXCEPT !.accounts = @ \ {a}] \in GoalRow
               /\ [goals[g] EXCEPT !.accounts = @ \ {a}].accounts \subseteq DOMAIN balance \ {a}
    <3>1. goals[g] \in GoalRow /\ goals[g].accounts \subseteq DOMAIN balance
      BY <2>2
    <3> DEFINE row == goals[g]
    <3> HIDE DEF row
    <3>2. row \in GoalRow /\ row.accounts \subseteq DOMAIN balance
      BY <3>1 DEF row
    <3>3. [row EXCEPT !.accounts = @ \ {a}] \in GoalRow
          /\ [row EXCEPT !.accounts = @ \ {a}].accounts = row.accounts \ {a}
      BY <3>2 DEF GoalRow
    <3>4. QED
      BY <3>2, <3>3 DEF row
  <2>3. balance' \in [DOMAIN balance' -> Balances] /\ DOMAIN balance' = DOMAIN balance \ {a}
    BY <2>1
  <2>4. goals' \in [Goals -> GoalRow \cup {None}]
    BY <2>1, <2>2
  <2>5. \A g \in Goals : goals'[g] # None => goals'[g].accounts \subseteq DOMAIN balance'
    BY <2>1, <2>2, <2>3
  <2>6. QED
    BY <2>3, <2>4, <2>5
<1>3. ASSUME NEW g \in Goals, NEW row \in GoalRow, PutGoal(g, row)
      PROVE  HoldingsSound'
  BY <1>3 DEF PutGoal
<1>4. ASSUME NEW g \in Goals, DeleteGoal(g)
      PROVE  HoldingsSound'
  BY <1>4 DEF DeleteGoal
<1>5. QED
  BY <1>1, <1>2, <1>3, <1>4 DEF GoalNext

LEMMA PlanStep ==
  ASSUME PlanInvariant, [Next]_vars
  PROVE  PlanInvariant'
<1> USE DEF PlanInvariant
<1>1. CASE LedgerNext /\ UNCHANGED <<series, born, balance, goals>>
  <2>1. TxnsSound' /\ BudgetSound'
    BY <1>1, LedgerSound
  <2>2. SeriesSound' /\ HoldingsSound'
    BY <1>1 DEF SeriesSound, HoldingsSound, Rows, RowSound, NextFar
  <2>3. QED
    BY <2>1, <2>2
<1>2. CASE GoalNext
  <2>1. HoldingsSound'
    BY <1>2, GoalSound
  <2>2. UNCHANGED <<ledger, series, born>>
    BY <1>2 DEF GoalNext, SetBalance, DeleteAccount, PutGoal, DeleteGoal
  <2>3. QED
    BY <2>1, <2>2 DEF ledger, TxnsSound, BudgetSound, SeriesSound, Rows, RowSound, NextFar
<1>3. CASE SeriesNext
  <2>1. SeriesSound'
    BY <1>3, DetectSound, UpdateSeriesSound DEF SeriesNext
  <2>2. UNCHANGED <<ledger, balance, goals>>
    BY <1>3 DEF SeriesNext, Detect, UpdateSeries
  <2>3. QED
    BY <2>1, <2>2 DEF ledger, TxnsSound, BudgetSound, HoldingsSound
<1>4. CASE UNCHANGED vars
  BY <1>4 DEF vars, ledger, TxnsSound, BudgetSound, SeriesSound, Rows, RowSound, NextFar, HoldingsSound
<1>5. QED
  BY <1>1, <1>2, <1>3, <1>4 DEF Next

\* In every reachable state the rows of the budgets, the series, the accounts and the goals are sound.
LEMMA PlanSound == Spec => []PlanInvariant
<1>1. Init => PlanInvariant
  BY InitSound
<1>2. PlanInvariant /\ [Next]_vars => PlanInvariant'
  BY PlanStep
<1>3. QED
  BY <1>1, <1>2, PTL DEF Spec
-------------------------------------------------------------------------------
(* Alerts *)

Kinds == {"bill_due", "price_increase", "yearly_renewal", "still_billing", "low_balance",
          "over_budget", "large_charge"}

\* What the key of an alert says of the day it was shown on, and of the row there was.
ShownSound(d) ==
    /\ d.key[1] \in Kinds
    /\ d.key[1] = "price_increase" =>
         d.row \in SeriesRow /\ d.key = Key("price_increase", d.key[2], d.row.last)
    /\ d.key[1] = "still_billing" => d.key[3] \in Int /\ d.key[3] <= d.on
    /\ d.key[1] = "bill_due" => d.key[3] \in Int /\ d.key[3] <= d.on + BillDueDays
    /\ d.key[1] = "yearly_renewal" => d.key[3] \in Int /\ d.key[3] <= d.on + YearlyRenewalDays
    /\ d.on \in Int

AllShownSound == \A d \in page \cup dismissed : ShownSound(d)

AlertsInvariant == PlanInvariant /\ AllShownSound

\* An id is of one merchant.
LEMMA IdsDiffer == \A m, n \in Merchants : Id(m) = Id(n) => m = n
BY DEF Id

\* Rows that are cancelled, and the charges asked for.
LEMMA CancelledAre ==
  ASSUME TxnsSound, SeriesSound, NEW m \in Cancelled
  PROVE  /\ series[m].cancelledOn \in Nat
         /\ {t \in txns : t.day >= series[m].cancelledOn} \subseteq SinceCancellation
         /\ SinceCancellation \subseteq txns
<1> DEFINE days == {series[n].cancelledOn : n \in Cancelled}
<1>1. Cancelled \in SUBSET Merchants /\ \A n \in Cancelled : series[n].cancelledOn \in Nat
  BY DEF Cancelled, Rows, SeriesSound, SeriesRow
<1>2. IsFiniteSet(days)
  <2> DEFINE dayOf == [n \in Cancelled |-> series[n].cancelledOn]
  <2>1. days = {dayOf[n] : n \in Cancelled}
    OBVIOUS
  <2>2. IsFiniteSet(Cancelled)
    BY <1>1, FiniteAssumption, FS_Subset
  <2> HIDE DEF dayOf, days
  <2>3. QED
    BY <2>1, <2>2, FiniteImage
<1>3. days \in SUBSET Int /\ days # {} /\ series[m].cancelledOn \in days
  BY <1>1
<1> HIDE DEF days
<1>4. Min(days) \in Int /\ Min(days) <= series[m].cancelledOn
  BY <1>2, <1>3, MinOf
<1>5. SinceCancellation = {t \in txns : t.day >= Min(days)}
  BY DEF SinceCancellation, days
<1>6. ASSUME NEW t \in txns, t.day >= series[m].cancelledOn
      PROVE  t.day >= Min(days)
  <2>1. t.day \in Int /\ series[m].cancelledOn \in Int
    BY <1>1 DEF TxnsSound, TxnRow
  <2>2. QED
    BY <1>4, <1>6, <2>1
<1>7. QED
  BY <1>1, <1>5, <1>6

LEMMA LatestChargeIs ==
  ASSUME TxnsSound, SeriesSound, NEW m \in Cancelled
  PROVE  /\ LatestCharge(m) # None =>
              /\ LatestCharge(m) \in Int /\ LatestCharge(m) <= today
              /\ \E t \in Matching(m, series[m].direction) : t.day = LatestCharge(m)
         /\ \A t \in Matching(m, series[m].direction) : t.day > series[m].cancelledOn =>
              LatestCharge(m) # None /\ LatestCharge(m) >= t.day
<1> DEFINE of == SinceCancellation \cap Matching(m, series[m].direction)
           days == {t.day : t \in of}
<1>1. of \in SUBSET txns /\ of \subseteq Matching(m, series[m].direction)
  BY CancelledAre
<1>2. \A t \in Matching(m, series[m].direction) : t.day > series[m].cancelledOn => t \in of
  <2>1. \A t \in Matching(m, series[m].direction) : t \in txns /\ t.day \in Int
    BY DEF Matching, TxnsSound, TxnRow
  <2>2. series[m].cancelledOn \in Int /\ {t \in txns : t.day >= series[m].cancelledOn} \subseteq SinceCancellation
    BY CancelledAre
  <2>3. QED
    BY <2>1, <2>2
<1> HIDE DEF of
<1>3. \A t \in of : t.day \in Int /\ t.day <= today
  BY <1>1 DEF TxnsSound, TxnRow
<1>4. days \in SUBSET Int
  BY <1>3
<1>5. IsFiniteSet(days)
  <2> DEFINE dayOf == [t \in of |-> t.day]
  <2>1. days = {dayOf[t] : t \in of}
    OBVIOUS
  <2>2. IsFiniteSet(of)
    BY <1>1, FS_Subset DEF TxnsSound
  <2> HIDE DEF dayOf, days
  <2>3. QED
    BY <2>1, <2>2, FiniteImage
<1>6. LatestCharge(m) = IF days = {} THEN None ELSE Max(days)
  BY DEF LatestCharge, of
<1>7. days # {} => Max(days) \in days /\ \A x \in days : x <= Max(days)
  <2> HIDE DEF days
  <2>1. QED
    BY <1>4, <1>5, MaxOf
<1>8. ASSUME LatestCharge(m) # None
      PROVE  /\ LatestCharge(m) \in Int /\ LatestCharge(m) <= today
             /\ \E t \in Matching(m, series[m].direction) : t.day = LatestCharge(m)
  <2>1. LatestCharge(m) \in days
    <3> HIDE DEF days
    <3>1. QED
      BY <1>6, <1>7, <1>8
  <2>2. PICK t \in of : t.day = LatestCharge(m)
    BY <2>1
  <2>3. QED
    BY <1>1, <1>3, <2>2
<1>9. ASSUME NEW t \in Matching(m, series[m].direction), t.day > series[m].cancelledOn
      PROVE  LatestCharge(m) # None /\ LatestCharge(m) >= t.day
  <2>1. t.day \in days
    BY <1>2, <1>9
  <2> HIDE DEF days
  <2>2. LatestCharge(m) = Max(days) /\ Max(days) \in Int /\ t.day <= Max(days) /\ t.day \in Int
    BY <1>4, <1>6, <1>7, <2>1
  <2>3. QED
    BY <2>2, NoneAssumption
<1>10. QED
  BY <1>8, <1>9

\* A key of a kind is made by the part of the list that makes it.
LEMMA KindsAre ==
  ASSUME NEW key \in Found
  PROVE  /\ key[1] \in Kinds
         /\ key[1] = "price_increase" => key \in PriceIncreases
         /\ key[1] = "still_billing" => key \in StillBilling
         /\ key[1] = "bill_due" => key \in Bills
         /\ key[1] = "yearly_renewal" => key \in Renewals
<1>1. key \in Renewals => key[1] = "yearly_renewal"
  BY DEF Renewals, Key
<1>2. key \in Bills => key[1] = "bill_due"
  BY DEF Bills, Key
<1>3. key \in PriceIncreases => key[1] = "price_increase"
  BY DEF PriceIncreases, Key
<1>4. key \in StillBilling => key[1] = "still_billing"
  BY DEF StillBilling, Key
<1>5. key \in LowBalance => key[1] = "low_balance"
  BY DEF LowBalance, Key
<1>6. key \in OverBudget => key[1] = "over_budget"
  BY DEF OverBudget, Key
<1>7. key \in LargeCharges => key[1] = "large_charge"
  BY DEF LargeCharges, Key
<1>8. QED
  BY <1>1, <1>2, <1>3, <1>4, <1>5, <1>6, <1>7 DEF Found, Kinds

LEMMA FoundIsSound ==
  ASSUME PlanInvariant, NEW key \in Found
  PROVE  ShownSound(Shown(key))
<1> USE DEF PlanInvariant
<1> DEFINE row == IF key[1] \in {"yearly_renewal", "bill_due", "price_increase", "still_billing"}
                  THEN series[key[2][1]] ELSE None
           d == [key |-> key, on |-> today, row |-> row]
<1>1. d = Shown(key)
  BY DEF Shown
<1>2. d.key = key /\ d.on = today /\ d.row = row /\ today \in Int
  BY DEF TxnsSound, Positive
<1> HIDE DEF d
<1>3. key[1] = "price_increase" => row \in SeriesRow /\ key = Key("price_increase", key[2], row.last)
  <2>1. SUFFICES ASSUME key[1] = "price_increase", key \in PriceIncreases
                 PROVE  row \in SeriesRow /\ key = Key("price_increase", key[2], row.last)
    BY KindsAre
  <2>2. PICK m \in Active : key = Key("price_increase", Id(m), series[m].last)
    BY <2>1 DEF PriceIncreases
  <2>3. key[2] = Id(m) /\ key[2][1] = m /\ series[m] \in SeriesRow
    BY <2>2 DEF Key, Id, Active, SeriesSound
  <2>4. row = series[m]
    BY <2>1, <2>3
  <2> HIDE DEF row
  <2>5. QED
    BY <2>2, <2>3, <2>4
<1> HIDE DEF row
<1>4. key[1] = "still_billing" => key[3] \in Int /\ key[3] <= today
  <2>1. SUFFICES ASSUME key \in StillBilling PROVE key[3] \in Int /\ key[3] <= today
    BY KindsAre
  <2>2. PICK m \in Cancelled : LatestCharge(m) # None /\ key = Key("still_billing", Id(m), LatestCharge(m))
    BY <2>1 DEF StillBilling
  <2>3. key[3] = LatestCharge(m)
    BY <2>2 DEF Key
  <2>4. QED
    BY <2>2, <2>3, LatestChargeIs
<1>5. key[1] = "bill_due" => key[3] \in Int /\ key[3] <= today + BillDueDays
  <2>1. SUFFICES ASSUME key \in Bills PROVE key[3] \in Int /\ key[3] <= today + BillDueDays
    BY KindsAre
  <2>2. PICK m \in Rows : Upcoming(m, BillDueDays) /\ key = Key("bill_due", Id(m), series[m].next)
    BY <2>1 DEF Bills
  <2>3. key[3] = series[m].next /\ series[m] \in SeriesRow
    BY <2>2 DEF Key, Rows, SeriesSound
  <2>4. QED
    BY <2>2, <2>3 DEF Upcoming, SeriesRow
<1>6. key[1] = "yearly_renewal" => key[3] \in Int /\ key[3] <= today + YearlyRenewalDays
  <2>1. SUFFICES ASSUME key \in Renewals PROVE key[3] \in Int /\ key[3] <= today + YearlyRenewalDays
    BY KindsAre
  <2>2. PICK m \in Rows : Upcoming(m, YearlyRenewalDays) /\ key = Key("yearly_renewal", Id(m), series[m].next)
    BY <2>1 DEF Renewals
  <2>3. key[3] = series[m].next /\ series[m] \in SeriesRow
    BY <2>2 DEF Key, Rows, SeriesSound
  <2>4. QED
    BY <2>2, <2>3 DEF Upcoming, SeriesRow
<1>7. ShownSound(d)
  BY <1>2, <1>3, <1>4, <1>5, <1>6, KindsAre DEF ShownSound
<1>8. QED
  BY <1>1, <1>7

\* The alerts that are kept stay sound, for nothing of theirs changes.
LEMMA ShownStaysSound ==
  ASSUME AllShownSound, page' \cup dismissed' \subseteq page \cup dismissed
  PROVE  AllShownSound'
BY DEF AllShownSound, ShownSound

LEMMA AlertsStep ==
  ASSUME AlertsInvariant, [AlertsNext]_allVars
  PROVE  AlertsInvariant'
<1> USE DEF AlertsInvariant
<1>1. CASE Next /\ UNCHANGED <<page, dismissed>>
  <2>1. PlanInvariant'
    BY <1>1, PlanStep
  <2>2. QED
    BY <1>1, <2>1, ShownStaysSound
<1>2. CASE Load
  <2>1. PlanInvariant'
    BY <1>2, PlanStep DEF Load
  <2>2. \A key \in Listed : ShownSound(Shown(key))
    BY FoundIsSound DEF Listed, Visible
  <2>3. \A d \in page' \cup dismissed' : ShownSound(d)
    BY <1>2, <2>2 DEF Load, AllShownSound
  <2>4. AllShownSound'
    BY <2>3 DEF AllShownSound, ShownSound
  <2>5. QED
    BY <2>1, <2>4
<1>3. ASSUME NEW alert \in page, Dismiss(alert) PROVE AlertsInvariant'
  <2>1. PlanInvariant'
    BY <1>3, PlanStep DEF Dismiss
  <2>2. page' \cup dismissed' \subseteq page \cup dismissed
    BY <1>3 DEF Dismiss
  <2>3. QED
    BY <2>1, <2>2, ShownStaysSound
<1>4. CASE UNCHANGED allVars
  <2>1. UNCHANGED vars /\ page' = page /\ dismissed' = dismissed
    BY <1>4 DEF allVars
  <2>2. PlanInvariant'
    BY <2>1, PlanStep
  <2>3. QED
    BY <2>1, <2>2, ShownStaysSound
<1>5. QED
  BY <1>1, <1>2, <1>3, <1>4 DEF AlertsNext

LEMMA AlertsSound == AlertsSpec => []AlertsInvariant
<1>1. AlertsInit => AlertsInvariant
  BY InitSound DEF AlertsInit, AlertsInvariant, AllShownSound
<1>2. AlertsInvariant /\ [AlertsNext]_allVars => AlertsInvariant'
  BY AlertsStep
<1>3. QED
  BY <1>1, <1>2, PTL DEF AlertsSpec

LEMMA AlertsTyped ==
  ASSUME AlertsInvariant
  PROVE  TypeOK
<1> USE DEF AlertsInvariant, PlanInvariant
<1>1. \A key \in Dismissed :
         key[1] \in {"bill_due", "price_increase", "yearly_renewal", "still_billing", "low_balance",
                     "over_budget", "large_charge"}
  BY DEF AllShownSound, ShownSound, Dismissed, Kinds
<1>2. \A m \in Rows : series[m].status = "cancelled" <=> series[m].cancelledOn # None
  BY DEF SeriesSound, RowSound
<1>3. today \in Nat /\ txns \subseteq TxnRow /\ \A t, u \in txns : t.id = u.id => t = u
  BY DEF TxnsSound, Positive
<1>4. budget \in [Category \X Month -> BudgetRow \cup {None}]
  BY DEF BudgetSound
<1>5. series \in [Merchants -> SeriesRow \cup {None}] /\ born \in [Merchants -> Nat]
  BY DEF SeriesSound
<1>6. /\ DOMAIN balance \subseteq Accounts
      /\ \A a \in DOMAIN balance : balance[a] \in Balances
      /\ goals \in [Goals -> GoalRow \cup {None}]
  BY DEF HoldingsSound
<1>7. QED
  BY <1>1, <1>2, <1>3, <1>4, <1>5, <1>6 DEF TypeOK

LEMMA CancelledAreTold ==
  ASSUME AlertsInvariant
  PROVE  CancelledChargesAreTold
<1> USE DEF AlertsInvariant, PlanInvariant
<1>1. ASSUME NEW m \in Rows, NEW key \in StillBilling, key[2] = Id(m)
      PROVE  m \in Cancelled /\ \E t \in Matching(m, series[m].direction) : t.day > series[m].cancelledOn
  <2>1. PICK n \in Cancelled : /\ LatestCharge(n) # None /\ LatestCharge(n) > series[n].cancelledOn
                              /\ key = Key("still_billing", Id(n), LatestCharge(n))
    BY DEF StillBilling
  <2>2. n = m
    BY <1>1, <2>1, IdsDiffer DEF Key, Cancelled, Rows
  <2>3. QED
    BY <2>1, <2>2, LatestChargeIs
<1>2. ASSUME NEW m \in Cancelled, NEW t \in Matching(m, series[m].direction), t.day > series[m].cancelledOn
      PROVE  \E key \in StillBilling : key[2] = Id(m)
  <2>1. LatestCharge(m) # None /\ LatestCharge(m) >= t.day /\ LatestCharge(m) \in Int
    BY <1>2, LatestChargeIs
  <2>2. t.day \in Int /\ series[m].cancelledOn \in Int
    BY CancelledAre DEF Matching, TxnsSound, TxnRow
  <2>3. LatestCharge(m) > series[m].cancelledOn
    BY <1>2, <2>1, <2>2
  <2>4. Key("still_billing", Id(m), LatestCharge(m)) \in StillBilling
    BY <2>1, <2>3 DEF StillBilling
  <2>5. QED
    BY <2>4 DEF Key
<1>3. QED
  BY <1>1, <1>2, AlertsTyped DEF CancelledChargesAreTold

LEMMA StillBillingShows ==
  ASSUME AlertsInvariant, NEW m \in Rows,
         NEW t \in Matching(m, series[m].direction), m \in Cancelled, t.day > series[m].cancelledOn,
         \A d \in dismissed : d.key[1] = "still_billing" /\ d.key[2] = Id(m) => t.day > d.on
  PROVE  \E key \in Visible(StillBilling) : key[2] = Id(m)
<1> USE DEF AlertsInvariant, PlanInvariant
<1> DEFINE key == Key("still_billing", Id(m), LatestCharge(m))
<1>1. LatestCharge(m) # None /\ LatestCharge(m) >= t.day /\ LatestCharge(m) \in Int
  BY LatestChargeIs
<1>2. t.day \in Int /\ series[m].cancelledOn \in Int
  BY CancelledAre DEF Matching, TxnsSound, TxnRow
<1>3. LatestCharge(m) > series[m].cancelledOn
  BY <1>1, <1>2
<1>4. key \in StillBilling /\ key[1] = "still_billing" /\ key[2] = Id(m) /\ key[3] = LatestCharge(m)
  BY <1>1, <1>3 DEF StillBilling, Key
<1>5. ASSUME NEW d \in dismissed, d.key = key
      PROVE  FALSE
  <2>1. d.key[3] <= d.on /\ d.on \in Int /\ t.day > d.on
    BY <1>4, <1>5 DEF AllShownSound, ShownSound
  <2>2. QED
    BY <1>1, <1>2, <1>4, <1>5, <2>1
<1>6. QED
  BY <1>4, <1>5 DEF Visible, Dismissed

LEMMA BillShows ==
  ASSUME AlertsInvariant, MonthsOfThree, NEW m \in Rows, Upcoming(m, BillDueDays),
         \A d \in dismissed : d.key[1] \in {"bill_due", "yearly_renewal"} /\ d.key[2] = Id(m) => series[m].lastDay > d.on
  PROVE  \E key \in Visible(Bills \cup Renewals) : key[2] = Id(m)
<1> USE DEF AlertsInvariant, PlanInvariant
<1>1. /\ series[m].next \in Int /\ series[m].lastDay \in Int /\ NextFar(series[m])
      /\ today \in Int /\ series[m].next <= today + BillDueDays
  BY DEF SeriesSound, RowSound, Positive, TxnsSound, Upcoming
<1> DEFINE kind == IF series[m].cadence = "yearly" THEN "yearly_renewal" ELSE "bill_due"
           key == Key(kind, Id(m), series[m].next)
<1>2. key \in Bills \cup Renewals
  <2>1. Upcoming(m, YearlyRenewalDays)
    BY <1>1 DEF Upcoming, BillDueDays, YearlyRenewalDays
  <2>2. QED
    BY <2>1 DEF Bills, Renewals
<1>3. key[1] = kind /\ key[2] = Id(m) /\ key[3] = series[m].next
  BY DEF Key
<1>4. kind = "bill_due" \/ (kind = "yearly_renewal" /\ series[m].cadence = "yearly")
  OBVIOUS
<1> HIDE DEF key, kind
<1>5. ASSUME NEW d \in dismissed, d.key = key
      PROVE  FALSE
  <2>1. d.key[1] = kind /\ d.key[2] = Id(m) /\ d.key[3] = series[m].next
    BY <1>3, <1>5
  <2>2. series[m].lastDay > d.on /\ d.on \in Int
    BY <1>4, <2>1 DEF AllShownSound, ShownSound
  <2>3. CASE kind = "bill_due"
    <3>1. series[m].next <= d.on + 3 /\ series[m].next >= series[m].lastDay + 3
      BY <1>1, <2>1, <2>3 DEF AllShownSound, ShownSound, BillDueDays, NextFar
    <3>2. QED
      BY <1>1, <2>2, <3>1
  <2>4. CASE kind = "yearly_renewal" /\ series[m].cadence = "yearly"
    <3>1. series[m].next <= d.on + 30 /\ series[m].next >= series[m].lastDay + 36
      BY <1>1, <2>1, <2>4 DEF AllShownSound, ShownSound, YearlyRenewalDays, NextFar
    <3>2. QED
      BY <1>1, <2>2, <3>1
  <2>5. QED
    BY <1>4, <2>3, <2>4
<1>6. QED
  BY <1>2, <1>3, <1>5 DEF Visible, Dismissed

LEMMA NextShows ==
  ASSUME AlertsInvariant, MonthsOfThree
  PROVE  NextOccurrenceShows
BY StillBillingShows, BillShows DEF NextOccurrenceShows

\* What a detection finds of an outgoing series is its last charge.
LEMMA DetectedLast ==
  ASSUME PlanInvariant, Detect, NEW m \in Active', series'[m].direction = -1
  PROVE  \E t \in Matching(m, -1) :
            ~t.ignored /\ series'[m].last = Abs(t.amount) /\ t.amount \in Int /\ t.day \in Int
            /\ \A u \in Matching(m, -1) : ~u.ignored => u.day <= t.day /\ u.day \in Int
<1> USE DEF PlanInvariant
<1>1. PICK first \in {1, -1} : series' = [n \in Merchants |-> Detected(n, first)]
  BY DEF Detect
<1>2. m \in Merchants /\ series'[m] = Detected(m, first) /\ series'[m] # None /\ series'[m].status = "active"
  BY <1>1 DEF Active
<1> DEFINE row == series[m]
           status == IF row.status \in {"cancelled", "ignored"} THEN row.status ELSE "ended"
<1>3. Candidates(m) # {}
  <2>1. SUFFICES ASSUME Candidates(m) = {} PROVE FALSE
    OBVIOUS
  <2>2. row # None /\ series'[m] = [row EXCEPT !.status = status]
    BY <1>2, <2>1 DEF Detected
  <2>3. row \in SeriesRow
    BY <1>2, <2>2 DEF SeriesSound
  <2> HIDE DEF row
  <2>4. status # "active"
    OBVIOUS
  <2> HIDE DEF status
  <2>5. [row EXCEPT !.status = status].status = status
    BY <2>3 DEF SeriesRow
  <2>6. QED
    BY <1>2, <2>2, <2>4, <2>5
<1> DEFINE c == Strongest(Candidates(m), first)
<1>4. c \in Candidates(m) /\ series'[m] = Applied(row, c)
  BY <1>2, <1>3, StrongestIs DEF Detected
<1> HIDE DEF c, row, status
<1>5. series'[m].last = c.last /\ c.direction = -1
  BY <1>4 DEF Applied
<1> DEFINE rows == {t \in Matching(m, -1) : ~t.ignored}
<1>6. IsLast(c, rows)
  BY <1>2, <1>4, <1>5, CandidatesAre
<1>7. PICK t \in rows : c.last = Abs(t.amount) /\ \A u \in rows : u.day <= t.day
  BY <1>6 DEF IsLast
<1>8. \A u \in rows : u.amount \in Int /\ u.day \in Int
  <2>1. rows \in SUBSET txns
    BY DEF Matching
  <2> HIDE DEF rows
  <2>2. QED
    BY <2>1, PartTyped DEF TxnsTyped, Positive
<1>9. QED
  BY <1>5, <1>7, <1>8

LEMMA PriceStays ==
  ASSUME AlertsInvariant, [AlertsNext]_allVars, Detect,
         NEW m \in Rows', NEW d \in dismissed, d.key[1] = "price_increase", d.key[2] = Id(m)',
         NEW since, since = {t \in Matching(m, -1) : ~t.ignored /\ t.day >= d.row.lastDay},
         since # {}, \A t \in since : t.amount = -d.row.last,
         NEW key \in Visible(PriceIncreases)'
  PROVE  key[2] # Id(m)'
<1> USE DEF AlertsInvariant
<1>1. SUFFICES ASSUME key[2] = Id(m)' PROVE FALSE
  OBVIOUS
<1>2. d.row \in SeriesRow /\ d.key = Key("price_increase", Id(m)', d.row.last)
  BY DEF AllShownSound, ShownSound
<1>3. PICK n \in Active' : series'[n].direction = -1 /\ key = Key("price_increase", Id(n)', series'[n].last)
  BY DEF Visible, PriceIncreases
<1>4. n = m
  <2>1. Id(n)' = Id(m)'
    BY <1>1, <1>3 DEF Key
  <2>2. QED
    BY <2>1 DEF Id
<1>5. PICK t \in Matching(m, -1) :
         /\ ~t.ignored /\ series'[m].last = Abs(t.amount) /\ t.amount \in Int /\ t.day \in Int
         /\ \A u \in Matching(m, -1) : ~u.ignored => u.day <= t.day /\ u.day \in Int
  BY <1>3, <1>4, DetectedLast
<1>6. PICK u \in since : TRUE
  OBVIOUS
<1> DEFINE from == d.row.lastDay
           price == d.row.last
<1>7. from \in Nat /\ price \in Nat
  BY <1>2 DEF SeriesRow
<1>8. u.day >= from /\ u.day <= t.day /\ u.day \in Int
  BY <1>5, <1>6
<1>9. t.day >= from
  <2> HIDE DEF from
  <2>1. QED
    BY <1>5, <1>7, <1>8
<1>10. t.amount = -price
  BY <1>5, <1>9
<1>11. series'[m].last = price
  <2> HIDE DEF price
  <2>1. QED
    BY <1>5, <1>7, <1>10 DEF Abs
<1>12. key = d.key
  BY <1>2, <1>3, <1>4, <1>11
<1>13. d \in dismissed'
  BY DEF AlertsNext, allVars, Load, Dismiss
<1>14. QED
  BY <1>12, <1>13 DEF Visible, Dismissed

\* A cancelled series of which a later charge is on record has its still_billing alert, however
\* detection, cancellations and edits follow one another, and the rows are of their types.
THEOREM CancelledAreReported == AlertsSpec => []CancelledChargesAreTold
<1>1. AlertsInvariant => CancelledChargesAreTold
  BY CancelledAreTold
<1>2. QED
  BY <1>1, AlertsSound, PTL

\* A dismissal hides the occurrence it was made on: a later charge, or the next date, is listed
\* again.  It takes months of three days; in shorter ones the next date can be the one dismissed.
THEOREM LaterOnesAreListed == MonthsOfThree => (AlertsSpec => []NextOccurrenceShows)
<1> SUFFICES ASSUME MonthsOfThree PROVE AlertsSpec => []NextOccurrenceShows
  OBVIOUS
<1>1. AlertsInvariant => NextOccurrenceShows
  BY NextShows
<1>2. QED
  BY <1>1, AlertsSound, PTL

\* While a series lives, a dismissed increase stays hidden through every detection after which all
\* that was charged since is of its price, whatever came in between.
THEOREM DismissedIncreaseStays == AlertsSpec => DismissedPriceStays
<1> DEFINE Stays ==
      \A m \in Rows', d \in dismissed :
         LET since == {t \in Matching(m, -1) : ~t.ignored /\ t.day >= d.row.lastDay}
         IN  /\ d.key[1] = "price_increase" /\ d.key[2] = Id(m)'
             /\ since # {} /\ \A t \in since : t.amount = -d.row.last
             /\ Detect
             => \A key \in Visible(PriceIncreases)' : key[2] # Id(m)'
<1>1. AlertsInvariant /\ [AlertsNext]_allVars => Stays
  BY PriceStays
<1>2. DismissedPriceStays <=> [][Stays]_allVars
  BY DEF DismissedPriceStays
<1>3. QED
  BY <1>1, <1>2, AlertsSound, PTL DEF AlertsSpec
-------------------------------------------------------------------------------
(* Steps along the calendar *)

Steps == {step \in [Positive -> Positive] : \A x \in Positive : x < step[x]}

\* The days the cursor lands on from c on: in every set with c and, with a day, its next.
Reached(step, c) ==
    {d \in Positive : \A T \in SUBSET Positive : c \in T /\ (\A x \in T : step[x] \in T) => d \in T}

LEMMA ReachedIs ==
  ASSUME NEW step \in Steps, NEW c \in Positive
  PROVE  /\ c \in Reached(step, c) /\ Reached(step, c) \in SUBSET Positive
         /\ \A x \in Reached(step, c) : step[x] \in Reached(step, c) /\ c <= x
         /\ Reached(step, c) = {c} \cup Reached(step, step[c])
<1>1. \A x \in Positive : step[x] \in Positive /\ x < step[x] /\ x \in Int
  BY DEF Steps, Positive
<1>2. \A a \in Positive : a \in Reached(step, a) /\ \A x \in Reached(step, a) : step[x] \in Reached(step, a)
  BY <1>1 DEF Reached
<1>3. ASSUME NEW x \in Reached(step, c)
      PROVE  c <= x
  <2> DEFINE T == {y \in Positive : c <= y}
  <2>1. c \in T
    BY DEF Positive
  <2>2. ASSUME NEW y \in T PROVE step[y] \in T
    <3>1. step[y] \in Positive /\ y < step[y] /\ y \in Int /\ c \in Int /\ c <= y /\ step[y] \in Int
      BY <1>1
    <3>2. QED
      BY <3>1
  <2>3. T \in SUBSET Positive
    OBVIOUS
  <2>4. x \in T
    <3> HIDE DEF T
    <3>1. QED
      BY <2>1, <2>2, <2>3 DEF Reached
  <2>5. QED
    BY <2>4
<1>4. Reached(step, c) \subseteq {c} \cup Reached(step, step[c])
  <2> DEFINE T == {c} \cup Reached(step, step[c])
  <2>1. T \in SUBSET Positive
    BY DEF Reached
  <2>2. c \in T
    OBVIOUS
  <2>3. \A x \in T : step[x] \in T
    BY <1>1, <1>2
  <2> HIDE DEF T
  <2>4. Reached(step, c) \subseteq T
    BY <2>1, <2>2, <2>3 DEF Reached
  <2>5. QED
    BY <2>4 DEF T
<1>5. Reached(step, step[c]) \subseteq Reached(step, c)
  BY <1>1 DEF Reached
<1>6. QED
  BY <1>2, <1>3, <1>4, <1>5 DEF Reached

\* Between a day and its next there is none.
LEMMA ReachedInSteps ==
  ASSUME NEW step \in Steps, NEW c \in Positive
  PROVE  \A x, y \in Reached(step, c) : x < y => step[x] <= y
<1> DEFINE R == Reached(step, c)
<1>1. R \in SUBSET Positive /\ c \in R /\ \A x \in R : step[x] \in R /\ c <= x
  BY ReachedIs
<1>2. \A x \in Positive : step[x] \in Positive /\ x < step[x] /\ x \in Int
  BY DEF Steps, Positive
<1>3. \A x \in Positive : /\ Reached(step, x) = {x} \cup Reached(step, step[x])
                          /\ \A y \in Reached(step, x) : x <= y
                          /\ \A y \in Reached(step, step[x]) : step[x] <= y
  BY <1>2, ReachedIs
<1> DEFINE U == {x \in R : \A y \in R : x <= y => y \in Reached(step, x)}
<1>4. c \in U
  BY <1>1
<1>5. ASSUME NEW x \in U PROVE step[x] \in U
  <2>1. x \in R /\ x \in Positive /\ step[x] \in R /\ x < step[x] /\ x \in Int /\ step[x] \in Int
    BY <1>1, <1>2
  <2>2. ASSUME NEW y \in R, step[x] <= y PROVE y \in Reached(step, step[x])
    <3>1. y \in Int /\ x <= y /\ y # x
      <4>1. y \in Int
        BY <1>1, <1>2
      <4>2. QED
        BY <2>1, <2>2, <4>1
    <3>2. y \in Reached(step, x)
      BY <3>1
    <3>3. QED
      BY <1>3, <2>1, <3>1, <3>2
  <2>3. QED
    BY <2>1, <2>2
<1>6. U \in SUBSET Positive
  BY <1>1
<1>7. R \subseteq U
  <2> HIDE DEF U
  <2>1. QED
    BY <1>4, <1>5, <1>6 DEF Reached
<1>8. ASSUME NEW x \in R, NEW y \in R, x < y
      PROVE  step[x] <= y
  <2>1. x \in Positive /\ y \in Positive /\ x \in Int /\ y \in Int
    BY <1>1, <1>2
  <2>2. y \in Reached(step, x) /\ y # x
    BY <1>7, <1>8, <2>1
  <2>3. QED
    BY <1>3, <2>1, <2>2
<1>9. QED
  BY <1>8

\* Downwards from a limit: what is true of the days from the limit on, and of a day if it is of its
\* next, is true of all days; the property as the set of the days that have it.
LEMMA DaysDown ==
  ASSUME NEW step \in Steps, NEW limit \in Nat, NEW T,
         \A c \in Positive : c > limit => c \in T,
         \A c \in Positive : c <= limit /\ step[c] \in T => c \in T
  PROVE  \A c \in Positive : c \in T
<1> DEFINE U == {n \in Nat : \A c \in Positive : c + n > limit => c \in T}
<1>1. 0 \in U
  BY DEF Positive
<1>2. ASSUME NEW n \in Nat, n \in U PROVE n + 1 \in U
  <2>1. ASSUME NEW c \in Positive, c + (n + 1) > limit PROVE c \in T
    <3>1. CASE c > limit
      BY <3>1
    <3>2. CASE ~(c > limit)
      <4>1. step[c] \in Positive /\ c < step[c] /\ step[c] \in Int /\ c \in Int
        BY DEF Steps, Positive
      <4>2. step[c] + n > limit
        BY <2>1, <4>1
      <4>3. step[c] \in T
        BY <1>2, <4>1, <4>2
      <4>4. c <= limit
        BY <3>2, <4>1
      <4>5. QED
        BY <4>3, <4>4
    <3>3. QED
      BY <3>1, <3>2
  <2>2. QED
    BY <2>1
<1>3. \A n \in Nat : n \in U
  <2> HIDE DEF U
  <2>1. QED
    BY <1>1, <1>2, NatUp
<1>4. ASSUME NEW c \in Positive PROVE c \in T
  <2>1. limit \in U /\ c + limit > limit
    BY <1>3 DEF Positive
  <2>2. QED
    BY <2>1
<1>5. QED
  BY <1>4

StepBy(cadence) == [x \in Positive |-> StepForward(x, cadence)]

LEMMA StepByIs ==
  ASSUME NEW cadence \in Cadence
  PROVE  StepBy(cadence) \in Steps /\ \A x \in Positive : StepBy(cadence)[x] = StepForward(x, cadence)
BY StepForwardIs DEF StepBy, Steps

\* The first day landed on that is not before another.
FirstFrom(step, c, day) ==
    CHOOSE d \in Reached(step, c) : d >= day /\ \A e \in Reached(step, c) : e >= day => d <= e

IsFirst(step, c, day, d) ==
    /\ d \in Reached(step, c) /\ d \in Positive /\ d >= day
    /\ \A e \in Reached(step, c) : e >= day => d <= e

LEMMA WalkIs ==
  ASSUME NEW cadence \in Cadence, NEW day \in Positive, NEW walk,
         walk = CHOOSE w : w = [cursor \in Positive |->
                                  IF cursor >= day THEN cursor ELSE w[StepForward(cursor, cadence)]]
  PROVE  \A c \in Positive : IsFirst(StepBy(cadence), c, day, walk[c])
<1> DEFINE step == StepBy(cadence)
           v == [c \in Positive |-> FirstFrom(step, c, day)]
           Next1(w) == [cursor \in Positive |-> IF cursor >= day THEN cursor ELSE w[StepForward(cursor, cadence)]]
<1>1. step \in Steps /\ \A x \in Positive : step[x] = StepForward(x, cadence)
  BY StepByIs
<1> HIDE DEF step
<1>2. \A x \in Positive : step[x] \in Positive /\ x < step[x] /\ x \in Int
  BY <1>1 DEF Steps, Positive
<1>3. \A c \in Positive : /\ c \in Reached(step, c)
                          /\ Reached(step, c) \in SUBSET Positive
                          /\ \A x \in Reached(step, c) : c <= x
                          /\ Reached(step, c) = {c} \cup Reached(step, step[c])
  BY <1>1, ReachedIs
<1>4. ASSUME NEW c \in Positive
      PROVE  v[c] = IF c >= day THEN c ELSE v[StepForward(c, cadence)]
  <2>1. CASE c >= day
    <3>1. \A d \in Reached(step, c) : c <= d /\ d \in Int /\ c \in Int /\ (d <= c => d = c)
      BY <1>2, <1>3
    <3>2. FirstFrom(step, c, day) = c
      BY <1>3, <2>1, <3>1 DEF FirstFrom
    <3>3. QED
      BY <2>1, <3>2
  <2>2. CASE ~(c >= day)
    <3>1. {d \in Reached(step, c) : d >= day} = {d \in Reached(step, step[c]) : d >= day}
      BY <1>3, <2>2
    <3>2. \A d : (d \in Reached(step, c) /\ d >= day /\ \A e \in Reached(step, c) : e >= day => d <= e)
                 <=> (d \in Reached(step, step[c]) /\ d >= day /\ \A e \in Reached(step, step[c]) : e >= day => d <= e)
      BY <3>1
    <3>3. FirstFrom(step, c, day) = FirstFrom(step, step[c], day)
      BY <3>2 DEF FirstFrom
    <3>4. QED
      BY <1>1, <1>2, <2>2, <3>3
  <2>3. QED
    BY <2>1, <2>2
<1>5. v = Next1(v)
  BY <1>4
<1>6. walk = Next1(walk)
  <2>1. walk = CHOOSE w : w = Next1(w)
    OBVIOUS
  <2> HIDE DEF v, Next1
  <2>2. QED
    BY <1>5, <2>1
<1> DEFINE T == {c \in Positive : IsFirst(step, c, day, walk[c])}
<1>7. \A c \in Positive : walk[c] = IF c >= day THEN c ELSE walk[step[c]]
  BY <1>1, <1>6
<1>8. ASSUME NEW c \in Positive, c > day - 1 PROVE c \in T
  <2>1. c >= day
    BY <1>8 DEF Positive
  <2>2. walk[c] = c
    BY <1>7, <2>1
  <2>3. IsFirst(step, c, day, c)
    BY <1>3, <2>1 DEF IsFirst
  <2>4. QED
    BY <2>2, <2>3
<1>9. ASSUME NEW c \in Positive, c <= day - 1, step[c] \in T PROVE c \in T
  <2>1. ~(c >= day)
    BY <1>9 DEF Positive
  <2>2. walk[c] = walk[step[c]]
    BY <1>7, <2>1
  <2>3. IsFirst(step, step[c], day, walk[step[c]])
    BY <1>9
  <2>4. {d \in Reached(step, c) : d >= day} = {d \in Reached(step, step[c]) : d >= day}
    BY <1>3, <2>1
  <2>5. IsFirst(step, c, day, walk[c])
    BY <2>2, <2>3, <2>4 DEF IsFirst
  <2>6. QED
    BY <2>5
<1>10. \A c \in Positive : c \in T
  <2>1. day - 1 \in Nat
    BY DEF Positive
  <2> HIDE DEF T
  <2>2. QED
    BY <1>1, <1>8, <1>9, <2>1, DaysDown
<1>11. QED
  BY <1>10 DEF step

\* The days landed on up to a last one: the recursive function of Occurrences.
LandingsOf(cadence, end) ==
  CHOOSE f : f = [cursor \in Positive |->
                    IF cursor > end THEN {} ELSE {cursor} \cup f[StepForward(cursor, cadence)]]

LEMMA LandingsFrom ==
  ASSUME NEW cadence \in Cadence, NEW end \in Nat, NEW from, from = LandingsOf(cadence, end)
  PROVE  \A c \in Positive : from[c] = {d \in Reached(StepBy(cadence), c) : d <= end}
<1> DEFINE step == StepBy(cadence)
           v == [c \in Positive |-> {d \in Reached(step, c) : d <= end}]
           Next1(f) == [cursor \in Positive |->
                          IF cursor > end THEN {} ELSE {cursor} \cup f[StepForward(cursor, cadence)]]
<1>1. step \in Steps /\ \A x \in Positive : step[x] = StepForward(x, cadence)
  BY StepByIs
<1> HIDE DEF step
<1>2. \A x \in Positive : step[x] \in Positive /\ x < step[x] /\ x \in Int
  BY <1>1 DEF Steps, Positive
<1>3. \A c \in Positive : /\ Reached(step, c) \in SUBSET Positive
                          /\ \A x \in Reached(step, c) : c <= x
                          /\ Reached(step, c) = {c} \cup Reached(step, step[c])
  BY <1>1, ReachedIs
<1>4. ASSUME NEW c \in Positive
      PROVE  v[c] = IF c > end THEN {} ELSE {c} \cup v[step[c]]
  <2>1. CASE c > end
    <3>1. \A d \in Reached(step, c) : c <= d /\ d \in Int /\ c \in Int
      BY <1>2, <1>3
    <3>2. \A d \in Reached(step, c) : ~(d <= end)
      BY <2>1, <3>1
    <3>3. QED
      BY <2>1, <3>2
  <2>2. CASE ~(c > end)
    <3>1. c <= end
      BY <2>2 DEF Positive
    <3>2. QED
      BY <1>2, <1>3, <2>2, <3>1
  <2>3. QED
    BY <2>1, <2>2
<1>5. v = Next1(v)
  BY <1>1, <1>4
<1>6. from = Next1(from)
  <2>1. from = CHOOSE f : f = Next1(f)
    BY DEF LandingsOf
  <2> HIDE DEF v, Next1
  <2>2. QED
    BY <1>5, <2>1
<1>7. \A c \in Positive : from[c] = IF c > end THEN {} ELSE {c} \cup from[step[c]]
  BY <1>1, <1>6
<1> HIDE DEF v
<1>8. \A c \in Positive : v[c] = IF c > end THEN {} ELSE {c} \cup v[step[c]]
  BY <1>4
<1> DEFINE T == {c \in Positive : from[c] = v[c]}
<1>9. \A c \in Positive : c > end => c \in T
  BY <1>7, <1>8
<1>10. ASSUME NEW c \in Positive, c <= end, step[c] \in T PROVE c \in T
  <2>1. ~(c > end)
    BY <1>10 DEF Positive
  <2>2. QED
    BY <1>7, <1>8, <1>10, <2>1
<1>11. \A c \in Positive : c \in T
  <2> HIDE DEF T
  <2>1. QED
    BY <1>1, <1>9, <1>10, DaysDown
<1>12. QED
  BY <1>11 DEF v, step
-------------------------------------------------------------------------------
(* The forecast *)

LEMMA ActiveIs ==
  ASSUME PlanInvariant, NEW m \in Active
  PROVE  /\ m \in Merchants /\ series[m].cadence \in Cadence /\ series[m].direction \in {1, -1}
         /\ series[m].next \in Positive /\ series[m].twiceTypical \in Nat
         /\ today \in Positive /\ StepBy(series[m].cadence) \in Steps
<1>1. m \in Rows /\ series[m] \in SeriesRow
  BY DEF Active, Rows, PlanInvariant, SeriesSound
<1>2. series[m].cadence \in Cadence
  BY <1>1 DEF SeriesRow
<1>3. QED
  BY <1>1, <1>2, StepByIs DEF SeriesRow, PlanInvariant, SeriesSound, RowSound, TxnsSound, Rows

LEMMA FirstIs ==
  ASSUME PlanInvariant, NEW m \in Active
  PROVE  IsFirst(StepBy(series[m].cadence), series[m].next, today, FirstOnOrAfter(m, today))
<1> DEFINE cadence == series[m].cadence
           walk == CHOOSE w : w = [cursor \in Positive |->
                                     IF cursor >= today THEN cursor ELSE w[StepForward(cursor, cadence)]]
<1>1. FirstOnOrAfter(m, today) = walk[series[m].next]
  BY DEF FirstOnOrAfter, Positive
<1>2. cadence \in Cadence /\ today \in Positive /\ series[m].next \in Positive
  BY ActiveIs
<1> HIDE DEF cadence
<1>3. \A c \in Positive : IsFirst(StepBy(cadence), c, today, walk[c])
  BY <1>2, WalkIs
<1> HIDE DEF walk
<1>4. QED
  BY <1>1, <1>2, <1>3 DEF cadence

LEMMA OccurrencesAre ==
  ASSUME PlanInvariant, NEW m \in Active, NEW end \in Nat
  PROVE  /\ Occurrences(m, end) =
              {d \in Reached(StepBy(series[m].cadence), FirstOnOrAfter(m, today)) : d <= end}
         /\ Occurrences(m, end) \subseteq today .. end
<1> DEFINE cadence == series[m].cadence
           from == CHOOSE f : f = [cursor \in Positive |->
                                     IF cursor > end THEN {} ELSE {cursor} \cup f[StepForward(cursor, cadence)]]
           first == FirstOnOrAfter(m, today)
<1>1. Occurrences(m, end) = from[first]
  BY DEF Occurrences, Positive
<1>2. cadence \in Cadence /\ today \in Positive /\ StepBy(cadence) \in Steps
  BY ActiveIs
<1>3. first \in Positive /\ first >= today
  BY FirstIs DEF IsFirst
<1> HIDE DEF cadence, first
<1>4. \A c \in Positive : from[c] = {d \in Reached(StepBy(cadence), c) : d <= end}
  <2>1. from = LandingsOf(cadence, end)
    BY DEF LandingsOf
  <2> HIDE DEF from
  <2>2. QED
    BY <1>2, <2>1, LandingsFrom
<1> HIDE DEF from
<1>5. Occurrences(m, end) = {d \in Reached(StepBy(cadence), first) : d <= end}
  BY <1>1, <1>3, <1>4
<1>6. \A d \in Reached(StepBy(cadence), first) : d \in Positive /\ first <= d
  BY <1>2, <1>3, ReachedIs
<1>7. \A d \in Occurrences(m, end) : d \in today .. end
  BY <1>2, <1>3, <1>5, <1>6 DEF Positive
<1>8. QED
  BY <1>5, <1>7 DEF cadence, first

LEMMA LandingsAre ==
  ASSUME PlanInvariant, NEW end \in Nat
  PROVE  /\ IsFiniteSet(Landings(end))
         /\ \A l \in Landings(end) : Signed(l[1]) \in Int /\ l[2] \in today .. end
<1>1. \A l \in Landings(end) : l \in Active \X (today .. end)
  BY OccurrencesAre DEF Landings
<1>2. IsFiniteSet(Active \X (today .. end))
  <2>1. Active \in SUBSET Merchants
    BY DEF Active
  <2>2. IsFiniteSet(Active)
    BY <2>1, FiniteAssumption, FS_Subset
  <2>3. today \in Int
    BY DEF PlanInvariant, TxnsSound, Positive
  <2>4. IsFiniteSet(today .. end)
    BY <2>3, FS_Interval
  <2>5. QED
    BY <2>2, <2>4, FS_Product
<1>3. Landings(end) \in SUBSET (Active \X (today .. end))
  BY <1>1
<1>4. IsFiniteSet(Landings(end))
  BY <1>2, <1>3, FS_Subset
<1>5. \A m \in Active : Signed(m) \in Int
  <2> SUFFICES ASSUME NEW m \in Active PROVE Signed(m) \in Int
    OBVIOUS
  <2>1. series[m].twiceTypical \in Nat /\ series[m].direction \in {1, -1}
    BY ActiveIs
  <2> DEFINE twice == series[m].twiceTypical * series[m].direction
  <2>2. twice \in Int /\ Signed(m) = twice \div 2
    BY <2>1 DEF Signed
  <2> HIDE DEF twice
  <2>3. QED
    BY <2>2
<1>6. QED
  BY <1>1, <1>4, <1>5

LEMMA CashTyped == ASSUME PlanInvariant PROVE CashBalance \in Int
<1> DEFINE held == CashAccounts \cap DOMAIN balance
           f == [a \in held |-> balance[a]]
<1>1. held \in SUBSET Accounts
  BY AccountsAssumption
<1>2. IsFiniteSet(held)
  BY <1>1, AccountsAssumption, FS_Subset
<1>3. \A a \in held : balance[a] \in Int
  BY MoneyAssumption DEF PlanInvariant, HoldingsSound
<1> HIDE DEF held
<1>4. f \in [held -> Int]
  BY <1>3
<1>5. CashBalance = SumFunction(f)
  BY DEF CashBalance, held
<1> HIDE DEF f
<1>6. QED
  BY <1>2, <1>4, <1>5, SumType

LEMMA DailyTyped == ASSUME PlanInvariant PROVE DailyDiscretionary \in Int
<1> DEFINE month == MonthOf(today)
           free == (LeafCategories \ Covered) \cap Budgeted(month)
           f == [c \in free |-> Status(c, month).budgeted]
<1>1. month \in Month /\ month \in Positive
  BY DEF PlanInvariant, TxnsSound, Month, Positive
<1>2. DailyDiscretionary = RoundDiv(SumFunction(f), DaysIn(month))
  BY DEF DailyDiscretionary
<1> HIDE DEF month
<1>3. free \in SUBSET Category
  BY DEF LeafCategories
<1>4. IsFiniteSet(free)
  BY <1>3, FiniteAssumption, FS_Subset
<1>5. ASSUME NEW c \in free
      PROVE  Status(c, month).budgeted \in Int
  <2>1. c \in Category /\ budget[<<c, month>>] # None
    BY <1>3 DEF Budgeted
  <2>2. Status(c, month).budgeted = budget[<<c, month>>].amount
    BY <2>1 DEF Status
  <2>3. budget[<<c, month>>] \in BudgetRow
    BY <1>1, <2>1 DEF PlanInvariant, BudgetSound
  <2>4. QED
    BY <2>2, <2>3, AmountsAssumption DEF BudgetRow
<1> HIDE DEF free
<1>6. f \in [free -> Int]
  BY <1>5
<1> HIDE DEF f
<1>7. SumFunction(f) \in Int
  BY <1>4, <1>6, SumType
<1>8. DaysIn(month) \in Positive
  BY <1>1, DaysInType
<1>9. QED
  BY <1>2, <1>7, <1>8, RoundDivIs

\* The walk without what the user adds.
Paid(end, d) == SumFunction([l \in {k \in Landings(end) : k[2] <= d} |-> Signed(l[1])])
Base(end, d) == CashBalance + Paid(end, d) - (d - today + 1) * DailyDiscretionary

LEMMA BaseTyped ==
  ASSUME PlanInvariant, NEW end \in Nat, NEW d \in today .. end
  PROVE  Base(end, d) \in Int
<1> DEFINE part == {k \in Landings(end) : k[2] <= d}
           f == [l \in part |-> Signed(l[1])]
<1>1. part \in SUBSET Landings(end) /\ IsFiniteSet(Landings(end))
  BY LandingsAre
<1>2. IsFiniteSet(part)
  BY <1>1, FS_Subset
<1>3. \A l \in part : Signed(l[1]) \in Int
  BY LandingsAre
<1>4. Paid(end, d) = SumFunction(f)
  BY DEF Paid
<1> HIDE DEF part
<1>5. f \in [part -> Int]
  BY <1>3
<1> HIDE DEF f
<1>6. Paid(end, d) \in Int
  BY <1>2, <1>4, <1>5, SumType
<1>7. d - today + 1 \in Int
  BY DEF PlanInvariant, TxnsSound, Positive
<1>8. \A a, b \in Int : a * b \in Int
  OBVIOUS
<1>9. (d - today + 1) * DailyDiscretionary \in Int
  BY <1>7, <1>8, DailyTyped
<1>10. QED
  BY <1>6, <1>9, CashTyped DEF Base

LEMMA ProjectIs ==
  ASSUME NEW end, NEW extra
  PROVE  Project(end, extra) =
           [d \in today .. end |-> Base(end, d) + Total({h \in extra : today <= h.day /\ h.day <= d})]
BY DEF Project, Base, Paid

LEMMA TotalOfNone == Total({}) = 0
<1> DEFINE f == [t \in {} |-> t.amount]
<1>1. DOMAIN f = {} /\ f = [x \in {} |-> f[x]]
  OBVIOUS
<1>2. Total({}) = SumFunction(f)
  BY DEF Total
<1> HIDE DEF f
<1>3. QED
  BY <1>1, <1>2, SumOfNone

LEMMA TotalOfOne ==
  ASSUME NEW h, h.amount \in Int
  PROVE  Total({h}) = h.amount
<1> DEFINE f == [t \in {h} |-> t.amount]
           g == [y \in {h} \ {h} |-> f[y]]
<1>1. f \in [{h} -> Int] /\ f[h] = h.amount /\ IsFiniteSet({h}) /\ h \in {h}
  BY FS_Singleton
<1>2. Total({h}) = SumFunction(f)
  BY DEF Total
<1> HIDE DEF f
<1>3. SumFunction(f) = f[h] + SumFunction(g)
  BY <1>1, SumAdds
<1>4. DOMAIN g = {} /\ g = [x \in {} |-> g[x]]
  OBVIOUS
<1> HIDE DEF g
<1>5. SumFunction(g) = 0
  BY <1>4, SumOfNone
<1>6. QED
  BY <1>1, <1>2, <1>3, <1>5

\* The balances with nothing added, and with a purchase.
LEMMA WalkWithout ==
  ASSUME PlanInvariant, NEW end \in Nat
  PROVE  Project(end, {}) = [d \in today .. end |-> Base(end, d)]
<1>1. \A d \in today .. end :
         Base(end, d) + Total({h \in {} : today <= h.day /\ h.day <= d}) = Base(end, d)
  <2> SUFFICES ASSUME NEW d \in today .. end
               PROVE  Base(end, d) + Total({h \in {} : today <= h.day /\ h.day <= d}) = Base(end, d)
    OBVIOUS
  <2>1. {h \in {} : today <= h.day /\ h.day <= d} = {}
    OBVIOUS
  <2>2. Base(end, d) \in Int
    BY BaseTyped
  <2>3. QED
    BY <2>1, <2>2, TotalOfNone
<1>2. QED
  BY <1>1, ProjectIs

LEMMA WalkWith ==
  ASSUME PlanInvariant, NEW end \in Nat, NEW amount \in Int, NEW day \in Int, today <= day
  PROVE  WithPurchase(amount, day, end) =
           [d \in today .. end |-> Base(end, d) - (IF day <= d THEN Abs(amount) ELSE 0)]
<1> DEFINE p == [amount |-> -Abs(amount), day |-> day]
           felt(d) == {h \in {p} : today <= h.day /\ h.day <= d}
<1>1. WithPurchase(amount, day, end) = [d \in today .. end |-> Base(end, d) + Total(felt(d))]
  BY ProjectIs DEF WithPurchase, Purchase
<1>2. p.amount = -Abs(amount) /\ p.day = day /\ Abs(amount) \in Nat
  BY AbsIs
<1> HIDE DEF p
<1>3. p.amount \in Int
  BY <1>2
<1>4. ASSUME NEW d \in today .. end
      PROVE  Base(end, d) + Total(felt(d)) = Base(end, d) - (IF day <= d THEN Abs(amount) ELSE 0)
  <2>1. Base(end, d) \in Int
    BY BaseTyped
  <2>2. CASE day <= d
    <3>1. felt(d) = {p}
      BY <1>2, <2>2
    <3>2. Total(felt(d)) = -Abs(amount)
      BY <1>2, <1>3, <3>1, TotalOfOne
    <3> HIDE DEF felt
    <3>3. QED
      BY <1>2, <2>1, <2>2, <3>2
  <2>3. CASE ~(day <= d)
    <3>1. felt(d) = {}
      BY <1>2, <2>3
    <3>2. Total(felt(d)) = 0
      BY <3>1, TotalOfNone
    <3> HIDE DEF felt
    <3>3. QED
      BY <2>1, <2>3, <3>2
  <2>4. QED
    BY <2>2, <2>3
<1> HIDE DEF felt
<1>5. QED
  BY <1>1, <1>4

\* The next payday is ahead.
LEMMA WindowIs == ASSUME PlanInvariant PROVE WindowEnd - 1 \in Nat /\ today <= WindowEnd - 1
<1> DEFINE payday == [m \in {n \in Active : series[n].direction = 1} |->
                        IF FirstOnOrAfter(m, today) = today THEN StepForward(today, series[m].cadence)
                        ELSE FirstOnOrAfter(m, today)]
           earners == {n \in Active : series[n].direction = 1}
<1>1. Paydays = {payday[m] : m \in earners}
  BY DEF Paydays
<1>2. today \in Positive
  BY DEF PlanInvariant, TxnsSound
<1>3. ASSUME NEW m \in earners
      PROVE  payday[m] \in Int /\ today < payday[m]
  <2>1. m \in Active /\ series[m].cadence \in Cadence
    BY ActiveIs
  <2>2. FirstOnOrAfter(m, today) \in Positive /\ FirstOnOrAfter(m, today) >= today
    BY <2>1, FirstIs DEF IsFirst
  <2>3. StepForward(today, series[m].cadence) \in Positive /\ today < StepForward(today, series[m].cadence)
    BY <1>2, <2>1, StepForwardIs
  <2>4. QED
    BY <1>2, <2>2, <2>3 DEF Positive
<1>4. IsFiniteSet(earners)
  <2>1. earners \in SUBSET Merchants
    BY DEF Active
  <2> HIDE DEF earners
  <2>2. QED
    BY <2>1, FiniteAssumption, FS_Subset
<1> HIDE DEF payday, earners
<1>5. Paydays \in SUBSET Int /\ \A d \in Paydays : today < d
  BY <1>1, <1>3
<1>6. IsFiniteSet(Paydays)
  BY <1>1, <1>4, FiniteImage
<1>7. CASE Paydays = {}
  BY <1>2, <1>7 DEF WindowEnd, Positive
<1>8. CASE Paydays # {}
  <2>1. WindowEnd = Min(Paydays) /\ Min(Paydays) \in Paydays
    BY <1>5, <1>6, <1>8, MinOf DEF WindowEnd
  <2>2. WindowEnd \in Int /\ today < WindowEnd
    BY <1>5, <2>1
  <2>3. QED
    BY <1>2, <2>2 DEF Positive
<1>9. QED
  BY <1>7, <1>8

\* The lowest of the balances of a walk.
LEMMA LowestIs ==
  ASSUME NEW first \in Int, NEW end \in Int, first <= end, NEW walk \in [first .. end -> Int]
  PROVE  /\ Lowest(walk) \in Int
         /\ \A d \in first .. end : Lowest(walk) <= walk[d]
         /\ \E d \in first .. end : Lowest(walk) = walk[d]
<1> DEFINE S == {walk[d] : d \in first .. end}
<1>1. Lowest(walk) = Min(S)
  BY DEF Lowest, Range
<1>2. IsFiniteSet(S)
  <2>1. IsFiniteSet(first .. end)
    BY FS_Interval
  <2>2. QED
    BY <2>1, FiniteImage
<1>3. S \in SUBSET Int /\ S # {} /\ \A d \in first .. end : walk[d] \in S
  <2>1. first \in first .. end
    OBVIOUS
  <2>2. QED
    BY <2>1
<1>4. Min(S) \in S /\ \A x \in S : Min(S) <= x
  <2> HIDE DEF S
  <2>1. QED
    BY <1>2, <1>3, MinOf
<1>5. \E d \in first .. end : Min(S) = walk[d]
  BY <1>4
<1> HIDE DEF S
<1>6. QED
  BY <1>1, <1>3, <1>4, <1>5

LEMMA MostIsSafe == ASSUME PlanInvariant PROVE SafeToSpendIsTheMost
<1> DEFINE end == WindowEnd - 1
           without == Project(end, {})
           least == Lowest(without)
           with(amount) == WithPurchase(amount, today, end)
<1>1. end \in Nat /\ end \in Int /\ today \in Int /\ today <= end
  BY WindowIs DEF PlanInvariant, TxnsSound, Positive
<1> HIDE DEF end
<1>2. \A d \in today .. end : Base(end, d) \in Int
  BY <1>1, BaseTyped
<1>3. without = [d \in today .. end |-> Base(end, d)]
  BY <1>1, WalkWithout
<1>4. without \in [today .. end -> Int] /\ \A d \in today .. end : without[d] = Base(end, d)
  BY <1>2, <1>3
<1> HIDE DEF without
<1>5. /\ least \in Int
      /\ \A d \in today .. end : least <= without[d]
      /\ \E d \in today .. end : least = without[d]
  BY <1>1, <1>4, LowestIs
<1>6. ASSUME NEW amount \in Nat
      PROVE  Lowest(with(amount)) \in Int /\ Lowest(with(amount)) = least - amount
  <2>1. with(amount) = [d \in today .. end |-> Base(end, d) - (IF today <= d THEN Abs(amount) ELSE 0)]
    <3>1. amount \in Int /\ today \in Int /\ today <= today
      BY <1>1
    <3>2. QED
      BY <1>1, <3>1, WalkWith
  <2>2. Abs(amount) = amount /\ amount \in Int
    BY DEF Abs
  <2> DEFINE w == with(amount)
  <2>3. w \in [today .. end -> Int] /\ \A d \in today .. end : w[d] = without[d] - amount
    <3>1. \A d \in today .. end : today <= d /\ Base(end, d) - amount \in Int
      BY <1>1, <1>2, <2>2
    <3>2. w = [d \in today .. end |-> Base(end, d) - amount]
      BY <2>1, <2>2, <3>1
    <3> HIDE DEF w
    <3>3. QED
      BY <1>4, <3>1, <3>2
  <2> HIDE DEF w
  <2>4. /\ Lowest(w) \in Int
        /\ \A d \in today .. end : Lowest(w) <= w[d]
        /\ \E d \in today .. end : Lowest(w) = w[d]
    BY <1>1, <2>3, LowestIs
  <2> DEFINE low == Lowest(w)
  <2> HIDE DEF low, least
  <2>5. /\ low \in Int /\ (\A d \in today .. end : low <= w[d]) /\ (\E d \in today .. end : low = w[d])
    BY <2>4 DEF low
  <2>6. low >= least - amount
    <3>1. PICK d \in today .. end : low = w[d]
      BY <2>5
    <3>2. w[d] = without[d] - amount /\ without[d] \in Int /\ least <= without[d]
      BY <1>4, <1>5, <2>3
    <3>3. QED
      BY <1>5, <2>2, <3>1, <3>2
  <2>7. low <= least - amount
    <3>1. PICK d \in today .. end : least = without[d]
      BY <1>5
    <3>2. w[d] = without[d] - amount /\ low <= w[d]
      BY <2>3, <2>5
    <3>3. QED
      BY <3>1, <3>2
  <2>8. low = least - amount
    BY <1>5, <2>2, <2>5, <2>6, <2>7
  <2>9. QED
    BY <2>5, <2>8 DEF low, w
<1>7. SafeToSpend = IF 0 >= least THEN 0 ELSE least
  BY <1>5, MaxOfTwo DEF SafeToSpend, without, end
<1> HIDE DEF least, with
<1>8. SafeToSpend \in Nat /\ SafeToSpend >= least
  BY <1>5, <1>7
<1>9. SafeToSpend > 0 => Lowest(with(SafeToSpend)) >= 0
  BY <1>5, <1>6, <1>7, <1>8
<1>10. ~(Lowest(with(SafeToSpend + 1)) >= 0)
  <2>1. SafeToSpend + 1 \in Nat /\ SafeToSpend + 1 > least
    BY <1>5, <1>8
  <2>2. QED
    BY <1>5, <1>6, <2>1
<1>11. QED
  BY <1>9, <1>10 DEF SafeToSpendIsTheMost, with, end

\* What is safe to spend is the most that is: spent today, it leaves no day before the next payday
\* below zero, and a cent more does, for any balances, series, budgets and calendar.
THEOREM SafeIsTheMost == Spec => []SafeToSpendIsTheMost
<1>1. PlanInvariant => SafeToSpendIsTheMost
  BY MostIsSafe
<1>2. QED
  BY <1>1, PlanSound, PTL

(* When a goal is reached *)

\* The runs of n steps from a.
Runs(P, step, a, n) ==
    {f \in [Nat -> P] : f[0] = a /\ \A k \in Nat : k < n => f[k + 1] = step[f[k]]}

LEMMA RunsAgree ==
  ASSUME NEW P, NEW step, NEW a, NEW n \in Nat, NEW m \in Nat,
         NEW f \in Runs(P, step, a, n), NEW g \in Runs(P, step, a, m)
  PROVE  \A k \in Nat : k <= n /\ k <= m => f[k] = g[k]
<1> DEFINE T == {k \in Nat : k <= n /\ k <= m => f[k] = g[k]}
<1>1. 0 \in T
  BY DEF Runs
<1>2. ASSUME NEW k \in Nat, k \in T PROVE k + 1 \in T
  <2>1. SUFFICES ASSUME k + 1 <= n, k + 1 <= m PROVE f[k + 1] = g[k + 1]
    OBVIOUS
  <2>2. k < n /\ k < m
    BY <2>1
  <2>3. f[k + 1] = step[f[k]] /\ g[k + 1] = step[g[k]]
    BY <2>2 DEF Runs
  <2>4. f[k] = g[k]
    BY <1>2, <2>2
  <2>5. QED
    BY <2>3, <2>4
<1>3. \A k \in Nat : k \in T
  <2> HIDE DEF T
  <2>1. QED
    BY <1>1, <1>2, NatUp
<1>4. QED
  BY <1>3

LEMMA RunsExist ==
  ASSUME NEW P, NEW step \in [P -> P], NEW a \in P
  PROVE  \A n \in Nat : Runs(P, step, a, n) # {}
<1> DEFINE T == {n \in Nat : Runs(P, step, a, n) # {}}
<1>1. 0 \in T
  <2> DEFINE f == [n \in Nat |-> a]
  <2>1. f \in Runs(P, step, a, 0)
    BY DEF Runs
  <2>2. QED
    BY <2>1
<1>2. ASSUME NEW n \in Nat, n \in T PROVE n + 1 \in T
  <2>1. PICK f \in [Nat -> P] : f[0] = a /\ \A k \in Nat : k < n => f[k + 1] = step[f[k]]
    BY <1>2 DEF Runs
  <2> DEFINE h == [f EXCEPT ![n + 1] = step[f[n]]]
  <2>2. h \in [Nat -> P] /\ \A k \in Nat : h[k] = IF k = n + 1 THEN step[f[n]] ELSE f[k]
    BY <2>1
  <2> HIDE DEF h
  <2>3. h[0] = a
    BY <2>1, <2>2
  <2>4. ASSUME NEW k \in Nat, k < n + 1 PROVE h[k + 1] = step[h[k]]
    <3>1. h[k] = f[k]
      BY <2>2, <2>4
    <3>2. CASE k = n
      BY <2>2, <3>1, <3>2
    <3>3. CASE k # n
      <4>1. k < n /\ k + 1 # n + 1
        BY <2>4, <3>3
      <4>2. QED
        BY <2>1, <2>2, <3>1, <4>1
    <3>4. QED
      BY <3>2, <3>3
  <2>5. h \in Runs(P, step, a, n + 1)
    BY <2>2, <2>3, <2>4 DEF Runs
  <2>6. QED
    BY <2>5
<1>3. \A n \in Nat : n \in T
  <2> HIDE DEF T
  <2>1. QED
    BY <1>1, <1>2, NatUp
<1>4. QED
  BY <1>3

\* A step taken again and again is a function of how often.
Follows(P, step, a, f) == f \in [Nat -> P] /\ f[0] = a /\ \A n \in Nat : f[n + 1] = step[f[n]]

LEMMA IterIs ==
  ASSUME NEW P, NEW step \in [P -> P], NEW a \in P
  PROVE  \E f : Follows(P, step, a, f)
<1> DEFINE some(n) == CHOOSE f \in Runs(P, step, a, n) : TRUE
           h == [n \in Nat |-> some(n)[n]]
<1>1. \A n \in Nat : some(n) \in Runs(P, step, a, n)
  BY RunsExist
<1> HIDE DEF some
<1>2. \A n \in Nat : some(n) \in [Nat -> P] /\ some(n)[0] = a
  BY <1>1 DEF Runs
<1>3. h \in [Nat -> P] /\ \A n \in Nat : h[n] = some(n)[n]
  BY <1>2
<1> HIDE DEF h
<1>4. h[0] = a
  BY <1>2, <1>3
<1>5. ASSUME NEW n \in Nat PROVE h[n + 1] = step[h[n]]
  <2>1. some(n + 1) \in Runs(P, step, a, n + 1) /\ some(n) \in Runs(P, step, a, n)
    BY <1>1
  <2>2. some(n + 1)[n + 1] = step[some(n + 1)[n]]
    BY <2>1 DEF Runs
  <2>3. some(n + 1)[n] = some(n)[n]
    BY <2>1, RunsAgree
  <2>4. QED
    BY <1>3, <2>2, <2>3
<1>6. QED
  BY <1>3, <1>4, <1>5 DEF Follows

Left(g) == goals[g].target - Progress(g)

\* The day the goal's own funding reaches it.
FundedDate(g) ==
    LET funded[n \in Nat] == IF n = 0 THEN today ELSE AddMonths(funded[n - 1], 1)
        months == CeilDiv(Left(g), goals[g].funding)
    IN  IF months > MaxFundedMonths THEN None ELSE funded[months]

LEMMA FundedDateIs ==
  ASSUME PlanInvariant, NEW g \in Goals, Left(g) \in Positive, goals[g].funding \in Positive,
         FundedDate(g) # None
  PROVE  FundedDate(g) \in Int
<1> DEFINE Next1(f) == [n \in Nat |-> IF n = 0 THEN today ELSE AddMonths(f[n - 1], 1)]
           funded == CHOOSE f : f = Next1(f)
           step == [x \in Positive |-> AddMonths(x, 1)]
           months == CeilDiv(Left(g), goals[g].funding)
<1>1. FundedDate(g) = IF months > MaxFundedMonths THEN None ELSE funded[months]
  BY DEF FundedDate
<1>2. today \in Positive /\ 1 \in Positive
  BY DEF PlanInvariant, TxnsSound, Positive
<1>3. step \in [Positive -> Positive]
  BY <1>2, AddMonthsIs
<1>4. PICK h \in [Nat -> Positive] : h[0] = today /\ \A n \in Nat : h[n + 1] = step[h[n]]
  <2>1. today \in Positive /\ step \in [Positive -> Positive]
    BY <1>2, <1>3
  <2> HIDE DEF step
  <2>2. \E f : Follows(Positive, step, today, f)
    BY <2>1, IterIs
  <2>3. QED
    BY <2>2 DEF Follows
<1>5. h = Next1(h)
  <2>1. ASSUME NEW n \in Nat PROVE h[n] = IF n = 0 THEN today ELSE AddMonths(h[n - 1], 1)
    <3>1. CASE n = 0
      BY <1>4, <3>1
    <3>2. CASE n # 0
      <4>1. n - 1 \in Nat /\ (n - 1) + 1 = n
        BY <3>2
      <4>2. h[n] = step[h[n - 1]] /\ h[n - 1] \in Positive
        BY <1>4, <4>1
      <4>3. QED
        BY <3>2, <4>2
    <3>3. QED
      BY <3>1, <3>2
  <2>2. QED
    BY <2>1
<1>6. funded = Next1(funded)
  <2> HIDE DEF Next1
  <2>1. QED
    BY <1>5
<1>7. funded[0] = today /\ \A n \in Nat : funded[n + 1] = AddMonths(funded[n], 1)
  <2>1. \A n \in Nat : funded[n] = IF n = 0 THEN today ELSE AddMonths(funded[n - 1], 1)
    BY <1>6
  <2> HIDE DEF funded
  <2>2. QED
    BY <2>1
<1> HIDE DEF funded
<1> DEFINE T == {n \in Nat : funded[n] \in Positive}
<1>8. \A n \in Nat : n \in T
  <2>1. 0 \in T
    BY <1>2, <1>7
  <2>2. \A n \in Nat : n \in T => n + 1 \in T
    BY <1>2, <1>7, AddMonthsIs
  <2> HIDE DEF T
  <2>3. QED
    BY <2>1, <2>2, NatUp
<1>9. months \in Nat
  <2> DEFINE a == Left(g)
             b == goals[g].funding
  <2>1. a \in Positive /\ b \in Positive /\ months = -((-a) \div b)
    BY DEF CeilDiv
  <2> HIDE DEF a, b
  <2>2. (-a) \div b <= 0 /\ (-a) \div b \in Int
    BY <2>1 DEF Positive
  <2>3. QED
    BY <2>1, <2>2
<1> HIDE DEF months
<1>10. QED
  BY <1>1, <1>8, <1>9 DEF Positive

LEMMA ProgressTyped ==
  ASSUME PlanInvariant, NEW g \in Goals, goals[g] # None
  PROVE  Progress(g) \in Int /\ goals[g].target \in Int /\ goals[g].funding \in Nat \cup {None}
<1> DEFINE row == goals[g]
           linked == row.accounts
           held == [a \in linked |-> balance[a]]
           owed == [a \in linked |-> Abs(balance[a])]
<1>1. row \in GoalRow /\ linked \subseteq DOMAIN balance
  BY DEF PlanInvariant, HoldingsSound
<1>2. row.target \in Int /\ row.funding \in Nat \cup {None}
  BY <1>1, MoneyAssumption DEF GoalRow
<1>3. linked \in SUBSET Accounts /\ \A a \in linked : balance[a] \in Int
  BY <1>1, MoneyAssumption DEF PlanInvariant, HoldingsSound
<1>4. Progress(g) = CASE linked = {} -> 0
                      [] linked # {} /\ row.kind = "savings" -> SumFunction(held)
                      [] OTHER -> row.target - SumFunction(owed)
  BY DEF Progress
<1> HIDE DEF linked
<1>5. IsFiniteSet(linked)
  BY <1>3, AccountsAssumption, FS_Subset
<1>6. held \in [linked -> Int] /\ owed \in [linked -> Int]
  BY <1>3, AbsIs
<1> HIDE DEF held, owed
<1>7. SumFunction(held) \in Int /\ SumFunction(owed) \in Int
  BY <1>5, <1>6, SumType
<1>8. Progress(g) \in Int
  <2>1. row.target - SumFunction(owed) \in Int
    BY <1>2, <1>7
  <2>2. QED
    BY <1>4, <1>7, <2>1
<1>9. QED
  BY <1>2, <1>8

\* Of more surplus the same is saved no later.
LEMMA CeilDivFalls ==
  ASSUME NEW a \in Nat, NEW b \in Positive, NEW c \in Positive, b <= c
  PROVE  CeilDiv(a, b) \in Int /\ CeilDiv(a, c) \in Int /\ CeilDiv(a, c) <= CeilDiv(a, b)
<1> DEFINE q == (-a) \div b
           r == (-a) \div c
<1>1. q \in Int /\ r \in Int /\ b \in Int /\ c \in Int
  BY DEF Positive
<1>2. b * q <= -a /\ -a < c * (r + 1)
  <2>1. b * q <= -a
    BY DEF Positive
  <2>2. -a < c * (r + 1)
    BY DEF Positive
  <2>3. QED
    BY <2>1, <2>2
<1>3. CeilDiv(a, b) = -q /\ CeilDiv(a, c) = -r
  BY DEF CeilDiv
<1> HIDE DEF q, r
<1>4. q <= 0
  BY <1>1, <1>2 DEF Positive
<1>5. c * q <= b * q
  BY <1>1, <1>4
<1>6. c * q < c * (r + 1)
  <2>1. c * q \in Int /\ b * q \in Int /\ c * (r + 1) \in Int
    BY <1>1
  <2>2. QED
    BY <1>2, <1>5, <2>1
<1>7. q < r + 1
  BY <1>1, <1>6 DEF Positive
<1>8. QED
  BY <1>1, <1>3, <1>7

\* The date of a goal from a walk of the balances to the last day.
LEMMA GoalDateIs ==
  ASSUME NEW g \in Goals, NEW first \in Int, NEW end \in Int, first <= end,
         NEW walk \in [first .. end -> Int], first = today
  PROVE  GoalDate(g, walk) =
           IF Left(g) <= 0 THEN today
           ELSE IF goals[g].funding \notin {None, 0} THEN FundedDate(g)
           ELSE IF walk[end] - walk[today] <= 0 THEN None
           ELSE today + CeilDiv(Left(g) * (end - today), walk[end] - walk[today])
<1>1. Max(DOMAIN walk) = end
  <2>1. DOMAIN walk = first .. end /\ end \in first .. end
    OBVIOUS
  <2>2. IsFiniteSet(first .. end)
    BY FS_Interval
  <2>3. first .. end \in SUBSET Int /\ first .. end # {}
    BY <2>1
  <2>4. Max(first .. end) \in first .. end /\ \A d \in first .. end : d <= Max(first .. end)
    BY <2>2, <2>3, MaxOf
  <2>5. QED
    BY <2>1, <2>4
<1>2. QED
  BY <1>1 DEF GoalDate, FundedDate, Left

LEMMA PurchaseShows == ASSUME PlanInvariant PROVE PurchaseIsFelt
<1>1. today \in Positive /\ today \in Int /\ Horizon \in Positive /\ Horizon \in Nat /\ Horizon \in Int
      /\ today < Horizon
  <2>1. today \in Positive /\ 2 \in Positive
    BY DEF PlanInvariant, TxnsSound, Positive
  <2>2. QED
    BY <2>1, AddMonthsIs DEF Horizon, Positive
<1> DEFINE baseline == Project(Horizon, {})
<1>2. /\ baseline \in [today .. Horizon -> Int]
      /\ \A d \in today .. Horizon : baseline[d] = Base(Horizon, d) /\ Base(Horizon, d) \in Int
  <2>1. \A d \in today .. Horizon : Base(Horizon, d) \in Int
    BY <1>1, BaseTyped
  <2>2. baseline = [d \in today .. Horizon |-> Base(Horizon, d)]
    BY <1>1, WalkWithout
  <2> HIDE DEF baseline
  <2>3. QED
    BY <2>1, <2>2
<1> HIDE DEF baseline
<1> SUFFICES ASSUME NEW amount \in BudgetAmounts, NEW day \in {today, today + 1, Horizon}
             PROVE  /\ \A d \in today .. Horizon :
                         baseline[d] - WithPurchase(amount, day, Horizon)[d] = IF d < day THEN 0 ELSE Abs(amount)
                    /\ \A g \in {h \in Goals : goals[h] # None /\ goals[h].status = "active"} :
                         GoalDate(g, WithPurchase(amount, day, Horizon)) # None =>
                           /\ GoalDate(g, baseline) # None
                           /\ GoalDate(g, baseline) <= GoalDate(g, WithPurchase(amount, day, Horizon))
  BY DEF PurchaseIsFelt, GoalProjection, baseline
<1> DEFINE with == WithPurchase(amount, day, Horizon)
           cost == Abs(amount)
<1>3. amount \in Int /\ cost \in Nat /\ day \in Int /\ today <= day /\ day <= Horizon
  BY <1>1, AmountsAssumption, AbsIs
<1>4. with = [d \in today .. Horizon |-> Base(Horizon, d) - (IF day <= d THEN cost ELSE 0)]
  BY <1>1, <1>3, WalkWith
<1> HIDE DEF with, cost
<1>5. /\ with \in [today .. Horizon -> Int]
      /\ \A d \in today .. Horizon : with[d] = baseline[d] - (IF day <= d THEN cost ELSE 0)
  BY <1>2, <1>3, <1>4
<1>6. ASSUME NEW d \in today .. Horizon
      PROVE  baseline[d] - with[d] = IF d < day THEN 0 ELSE cost
  <2>1. baseline[d] \in Int /\ with[d] = baseline[d] - (IF day <= d THEN cost ELSE 0)
    BY <1>2, <1>5
  <2>2. d < day <=> ~(day <= d)
    BY <1>1, <1>3
  <2>3. QED
    BY <1>3, <2>1, <2>2
<1>7. ASSUME NEW g \in Goals, goals[g] # None, GoalDate(g, with) # None
      PROVE  GoalDate(g, baseline) # None /\ GoalDate(g, baseline) <= GoalDate(g, with)
  <2> DEFINE left == Left(g)
             surplus(w) == w[Horizon] - w[today]
             far == Horizon - today
  <2>1. left \in Int /\ goals[g].funding \in Nat \cup {None}
    BY <1>7, ProgressTyped DEF Left
  <2>2. /\ GoalDate(g, with) =
             IF left <= 0 THEN today
             ELSE IF goals[g].funding \notin {None, 0} THEN FundedDate(g)
             ELSE IF surplus(with) <= 0 THEN None
             ELSE today + CeilDiv(left * far, surplus(with))
        /\ GoalDate(g, baseline) =
             IF left <= 0 THEN today
             ELSE IF goals[g].funding \notin {None, 0} THEN FundedDate(g)
             ELSE IF surplus(baseline) <= 0 THEN None
             ELSE today + CeilDiv(left * far, surplus(baseline))
    BY <1>1, <1>2, <1>5, GoalDateIs
  <2> HIDE DEF left
  <2>3. CASE left <= 0
    BY <1>1, <2>2, <2>3, NoneAssumption
  <2>4. CASE ~(left <= 0) /\ goals[g].funding \notin {None, 0}
    <3>1. left \in Positive /\ goals[g].funding \in Positive
      BY <2>1, <2>4 DEF Positive
    <3>2. GoalDate(g, with) = FundedDate(g) /\ GoalDate(g, baseline) = FundedDate(g)
      BY <2>2, <2>4
    <3>3. FundedDate(g) \in Int
      BY <1>7, <3>1, <3>2, FundedDateIs DEF left
    <3>4. QED
      BY <1>7, <3>2, <3>3
  <2>5. CASE ~(left <= 0) /\ goals[g].funding \in {None, 0}
    <3> DEFINE b == surplus(with)
               c == surplus(baseline)
    <3>1. today \in today .. Horizon /\ Horizon \in today .. Horizon
      BY <1>1
    <3>2. b \in Int /\ c \in Int /\ b <= c
      <4>1. /\ baseline[today] \in Int /\ baseline[Horizon] \in Int
            /\ with[today] = baseline[today] - (IF day <= today THEN cost ELSE 0)
            /\ with[Horizon] = baseline[Horizon] - cost
        BY <1>2, <1>3, <1>5, <3>1
      <4>2. (IF day <= today THEN cost ELSE 0) \in Nat /\ (IF day <= today THEN cost ELSE 0) <= cost
        BY <1>3
      <4>3. QED
        BY <1>3, <4>1, <4>2
    <3>3. /\ GoalDate(g, with) = IF b <= 0 THEN None ELSE today + CeilDiv(left * far, b)
          /\ GoalDate(g, baseline) = IF c <= 0 THEN None ELSE today + CeilDiv(left * far, c)
      BY <2>2, <2>5
    <3>4. left * far \in Nat
      <4>1. left \in Nat /\ far \in Nat
        BY <1>1, <2>1, <2>5
      <4> HIDE DEF far
      <4>2. QED
        BY <4>1
    <3> HIDE DEF b, c, far
    <3>5. ~(b <= 0) /\ b \in Positive /\ c \in Positive /\ ~(c <= 0)
      BY <1>7, <3>2, <3>3 DEF Positive
    <3> DEFINE a == left * far
    <3>6. a \in Nat
      BY <3>4
    <3>7. GoalDate(g, with) = today + CeilDiv(a, b) /\ GoalDate(g, baseline) = today + CeilDiv(a, c)
      BY <3>3, <3>5
    <3> HIDE DEF a
    <3>8. CeilDiv(a, b) \in Int /\ CeilDiv(a, c) \in Int /\ CeilDiv(a, c) <= CeilDiv(a, b)
      BY <3>2, <3>5, <3>6, CeilDivFalls
    <3>9. QED
      BY <1>1, <3>7, <3>8, NoneAssumption
  <2>6. QED
    BY <2>3, <2>4, <2>5
<1>8. QED
  BY <1>6, <1>7 DEF with, cost

\* A purchase takes its amount off every day from its own on and off none before, and brings no goal
\* nearer: the numbers of the forecast all come from one walk.
THEOREM PurchasesAreFelt == Spec => []PurchaseIsFelt
<1>1. PlanInvariant => PurchaseIsFelt
  BY PurchaseShows
<1>2. QED
  BY <1>1, PlanSound, PTL
-------------------------------------------------------------------------------
(* Budgets *)

LEMMA ActualTyped ==
  ASSUME PlanInvariant, NEW c, NEW month
  PROVE  Actual(c, month) \in Int
<1> DEFINE rows == SpentIn(c, month)
           f == [t \in rows |-> t.amount]
<1>1. rows \in SUBSET txns
  BY DEF SpentIn
<1>2. IsFiniteSet(rows) /\ \A t \in rows : t.amount \in Int
  BY <1>1, PartTyped DEF PlanInvariant, TxnsTyped
<1>3. Actual(c, month) = -SumFunction(f)
  BY DEF Actual, Total
<1> HIDE DEF rows
<1>4. f \in [rows -> Int]
  BY <1>2
<1> HIDE DEF f
<1>5. SumFunction(f) \in Int
  BY <1>2, <1>4, SumType
<1>6. QED
  BY <1>3, <1>5

\* The months a carry adds up when it may go back no more than some.
ChainTo(c, month, most) ==
    {m \in Month : m < month /\ month - m <= most /\ \A k \in m + 1 .. month : Carries(c, k)}

Unspent(c, m) == budget[<<c, m>>].amount - Actual(c, m)
Carried(c, month, most) == SumFunction([m \in ChainTo(c, month, most) |-> Unspent(c, m)])

LEMMA ChainIs ==
  ASSUME PlanInvariant, NEW c \in Category, NEW month \in 0 .. LastMonth, NEW most \in Nat
  PROVE  /\ IsFiniteSet(ChainTo(c, month, most))
         /\ [m \in ChainTo(c, month, most) |-> Unspent(c, m)] \in [ChainTo(c, month, most) -> Int]
<1>1. LastMonth \in Nat
  BY BoundsAssumption
<1>2. IsFiniteSet(ChainTo(c, month, most))
  <2>1. ChainTo(c, month, most) \in SUBSET (1 .. LastMonth)
    BY DEF ChainTo, Month
  <2>2. IsFiniteSet(1 .. LastMonth)
    BY <1>1, FS_Interval
  <2>3. QED
    BY <2>1, <2>2, FS_Subset
<1>3. ASSUME NEW m \in ChainTo(c, month, most) PROVE Unspent(c, m) \in Int
  <2>1. m \in Month /\ m + 1 \in m + 1 .. month /\ Carries(c, m + 1) /\ (m + 1) - 1 = m
    BY <1>1 DEF ChainTo, Month
  <2>2. budget[<<c, m>>] # None
    BY <2>1 DEF Carries
  <2>3. budget[<<c, m>>] \in BudgetRow
    BY <2>1, <2>2 DEF PlanInvariant, BudgetSound
  <2>4. budget[<<c, m>>].amount \in Int /\ Actual(c, m) \in Int
    BY <2>3, ActualTyped, AmountsAssumption DEF BudgetRow
  <2>5. QED
    BY <2>4 DEF Unspent
<1>4. QED
  BY <1>2, <1>3

LEMMA CarriedType ==
  ASSUME PlanInvariant, NEW c \in Category, NEW month \in 0 .. LastMonth, NEW most \in Nat
  PROVE  Carried(c, month, most) \in Int
<1> DEFINE S == ChainTo(c, month, most)
           f == [m \in S |-> Unspent(c, m)]
<1>1. IsFiniteSet(S) /\ f \in [S -> Int]
  BY ChainIs
<1>2. Carried(c, month, most) = SumFunction(f)
  BY DEF Carried
<1> HIDE DEF S, f
<1>3. QED
  BY <1>1, <1>2, SumType

LEMMA CarriedNone ==
  ASSUME NEW c, NEW month \in Nat, NEW most \in Nat, most = 0 \/ ~Carries(c, month)
  PROVE  Carried(c, month, most) = 0
<1>1. ChainTo(c, month, most) = {}
  <2>1. SUFFICES ASSUME NEW m \in ChainTo(c, month, most) PROVE FALSE
    OBVIOUS
  <2>2. m \in Nat /\ m < month /\ month - m <= most /\ \A k \in m + 1 .. month : Carries(c, k)
    BY DEF ChainTo, Month
  <2>3. month \in m + 1 .. month
    BY <2>2
  <2>4. QED
    BY <2>2, <2>3
<1> DEFINE f == [m \in {} |-> Unspent(c, m)]
<1>2. Carried(c, month, most) = SumFunction(f)
  BY <1>1 DEF Carried
<1>3. DOMAIN f = {} /\ f = [m \in {} |-> f[m]]
  OBVIOUS
<1> HIDE DEF f
<1>4. QED
  BY <1>2, <1>3, SumOfNone

LEMMA CarriedOn ==
  ASSUME PlanInvariant, NEW c \in Category, NEW month \in 0 .. LastMonth, NEW most \in Positive, Carries(c, month)
  PROVE  Carried(c, month, most) = Unspent(c, month - 1) + Carried(c, month - 1, most - 1)
<1>1. month \in Nat /\ month > 1 /\ LastMonth \in Nat /\ most \in Nat /\ most - 1 \in Nat
  BY BoundsAssumption DEF Carries, Positive
<1> DEFINE S == ChainTo(c, month, most)
           R == ChainTo(c, month - 1, most - 1)
           f == [m \in S |-> Unspent(c, m)]
<1>2. month - 1 \in S
  BY <1>1 DEF ChainTo, Month, Positive
<1>3. S \ {month - 1} = R
  <2>1. ASSUME NEW m \in Month
        PROVE  (m < month /\ month - m <= most /\ m # month - 1 /\ \A k \in m + 1 .. month : Carries(c, k))
               <=> (m < month - 1 /\ (month - 1) - m <= most - 1 /\ \A k \in m + 1 .. month - 1 : Carries(c, k))
    <3>1. m \in Nat
      BY DEF Month
    <3>2. CASE m < month - 1
      <4>1. m + 1 .. month = (m + 1 .. month - 1) \cup {month}
        BY <1>1, <3>1, <3>2
      <4>2. QED
        BY <1>1, <3>1, <3>2, <4>1
    <3>3. CASE ~(m < month - 1)
      BY <1>1, <3>1, <3>3
    <3>4. QED
      BY <3>2, <3>3
  <2>2. QED
    BY <2>1 DEF ChainTo
<1>4. IsFiniteSet(S) /\ f \in [S -> Int]
  BY <1>1, ChainIs
<1> HIDE DEF S, R
<1>5. [y \in S \ {month - 1} |-> f[y]] = [m \in R |-> Unspent(c, m)] /\ f[month - 1] = Unspent(c, month - 1)
  BY <1>2, <1>3
<1> HIDE DEF f
<1>6. SumFunction(f) = f[month - 1] + SumFunction([y \in S \ {month - 1} |-> f[y]])
  BY <1>2, <1>4, SumAdds
<1>7. QED
  BY <1>5, <1>6 DEF Carried, f, S, R

\* What is carried in is what the months before did not spend.
LEMMA CarryIntoIs ==
  ASSUME PlanInvariant, NEW c \in Category, NEW month \in Month
  PROVE  CarryInto(c, month) = Carried(c, month, Lookback)
<1> DEFINE D == (0 .. month) \X (0 .. Lookback)
           at(g, m, depth) ==
             IF depth = Lookback \/ ~Carries(c, m) THEN 0
             ELSE budget[<<c, m - 1>>].amount + g[<<m - 1, depth + 1>>] - Actual(c, m - 1)
           Next1(g) == [p \in D |-> at(g, p[1], p[2])]
           carry == CHOOSE g : g = Next1(g)
           v == [p \in D |-> Carried(c, p[1], Lookback - p[2])]
<1>1. month \in Nat /\ month <= LastMonth /\ LastMonth \in Nat /\ Lookback \in Nat
  BY BoundsAssumption, LookbackAssumption DEF Month
<1>2. CarryInto(c, month) = carry[<<month, 0>>]
  BY DEF CarryInto
<1>3. \A m \in 0 .. month, depth \in 0 .. Lookback : v[<<m, depth>>] = Carried(c, m, Lookback - depth)
  OBVIOUS
<1>4. ASSUME NEW m \in 0 .. month, NEW depth \in 0 .. Lookback,
             ~(depth = Lookback \/ ~Carries(c, m))
      PROVE  /\ m - 1 \in 0 .. month /\ depth + 1 \in 0 .. Lookback
             /\ Carried(c, m, Lookback - depth) =
                  budget[<<c, m - 1>>].amount + Carried(c, m - 1, Lookback - (depth + 1)) - Actual(c, m - 1)
  <2>1. m > 1 /\ m \in 0 .. LastMonth /\ m - 1 \in 0 .. LastMonth /\ Lookback - depth \in Positive
        /\ (Lookback - depth) - 1 = Lookback - (depth + 1) /\ Lookback - (depth + 1) \in Nat
    BY <1>1, <1>4 DEF Carries, Positive
  <2>2. Carried(c, m, Lookback - depth) = Unspent(c, m - 1) + Carried(c, m - 1, (Lookback - depth) - 1)
    BY <1>4, <2>1, CarriedOn
  <2>3. Carried(c, m - 1, Lookback - (depth + 1)) \in Int
    BY <2>1, CarriedType
  <2>4. budget[<<c, m - 1>>].amount \in Int /\ Actual(c, m - 1) \in Int
    <3>1. budget[<<c, m - 1>>] # None /\ m - 1 \in Month
      BY <1>1, <1>4, <2>1 DEF Carries, Month
    <3>2. budget[<<c, m - 1>>] \in BudgetRow
      BY <3>1 DEF PlanInvariant, BudgetSound
    <3>3. QED
      BY <3>2, ActualTyped, AmountsAssumption DEF BudgetRow
  <2>5. QED
    BY <1>1, <2>1, <2>2, <2>3, <2>4 DEF Unspent
<1>5. ASSUME NEW m \in 0 .. month, NEW depth \in 0 .. Lookback
      PROVE  v[<<m, depth>>] = at(v, m, depth)
  <2>1. CASE depth = Lookback \/ ~Carries(c, m)
    <3>1. Carried(c, m, Lookback - depth) = 0
      <4>1. Lookback - depth \in Nat /\ m \in Nat /\ (Lookback - depth = 0 \/ ~Carries(c, m))
        BY <1>1, <2>1
      <4>2. QED
        BY <4>1, CarriedNone
    <3>2. QED
      BY <1>3, <2>1, <3>1
  <2>2. CASE ~(depth = Lookback \/ ~Carries(c, m))
    <3>1. v[<<m - 1, depth + 1>>] = Carried(c, m - 1, Lookback - (depth + 1))
      BY <1>3, <1>4, <2>2
    <3> HIDE DEF v
    <3>2. QED
      BY <1>3, <1>4, <2>2, <3>1
  <2>3. QED
    BY <2>1, <2>2
<1>6. v = Next1(v)
  <2>1. ASSUME NEW p \in D PROVE v[p] = at(v, p[1], p[2])
    <3>1. p[1] \in 0 .. month /\ p[2] \in 0 .. Lookback /\ p = <<p[1], p[2]>>
      OBVIOUS
    <3> HIDE DEF v, at
    <3>2. v[<<p[1], p[2]>>] = at(v, p[1], p[2])
      BY <1>5, <3>1
    <3>3. QED
      BY <3>1, <3>2
  <2> HIDE DEF at
  <2>2. QED
    BY <2>1
<1>7. carry = Next1(carry)
  <2> HIDE DEF v, Next1
  <2>1. QED
    BY <1>6
<1> HIDE DEF carry
<1>8. \A m \in 0 .. month, depth \in 0 .. Lookback : carry[<<m, depth>>] = at(carry, m, depth)
  <2> HIDE DEF at
  <2>1. QED
    BY <1>7
<1> DEFINE T == {m \in Nat : m <= month =>
                    \A depth \in 0 .. Lookback : carry[<<m, depth>>] = Carried(c, m, Lookback - depth)}
<1> HIDE DEF v
<1>9. 0 \in T
  <2>1. ASSUME NEW depth \in 0 .. Lookback PROVE carry[<<0, depth>>] = Carried(c, 0, Lookback - depth)
    <3>1. ~Carries(c, 0) /\ 0 \in 0 .. month /\ Lookback - depth \in Nat
      BY <1>1 DEF Carries
    <3>2. carry[<<0, depth>>] = 0
      BY <1>8, <3>1
    <3>3. Carried(c, 0, Lookback - depth) = 0
      BY <3>1, CarriedNone
    <3>4. QED
      BY <3>2, <3>3
  <2>2. QED
    BY <2>1
<1>10. ASSUME NEW n \in Nat, n \in T PROVE n + 1 \in T
  <2> DEFINE m == n + 1
  <2>1. ASSUME m <= month, NEW depth \in 0 .. Lookback PROVE carry[<<m, depth>>] = Carried(c, m, Lookback - depth)
    <3>1. m \in 0 .. month /\ m - 1 = n /\ n <= month /\ Lookback - depth \in Nat /\ m \in Nat
      BY <1>1, <2>1
    <3>2. carry[<<m, depth>>] = at(carry, m, depth)
      BY <1>8, <3>1
    <3>3. CASE depth = Lookback \/ ~Carries(c, m)
      <4>1. Lookback - depth = 0 \/ ~Carries(c, m)
        BY <1>1, <3>3
      <4>2. Carried(c, m, Lookback - depth) = 0
        BY <3>1, <4>1, CarriedNone
      <4>3. QED
        BY <3>2, <3>3, <4>2
    <3>4. CASE ~(depth = Lookback \/ ~Carries(c, m))
      <4>1. depth + 1 \in 0 .. Lookback
        BY <1>4, <3>1, <3>4
      <4>2. carry[<<n, depth + 1>>] = Carried(c, n, Lookback - (depth + 1))
        BY <1>10, <3>1, <4>1
      <4>3. Carried(c, m, Lookback - depth) =
               budget[<<c, m - 1>>].amount + Carried(c, m - 1, Lookback - (depth + 1)) - Actual(c, m - 1)
        BY <1>4, <3>1, <3>4
      <4> HIDE DEF m
      <4>4. QED
        BY <3>1, <3>2, <3>4, <4>2, <4>3
    <3>5. QED
      BY <3>3, <3>4
  <2>2. QED
    BY <2>1
<1>11. month \in T
  <2> HIDE DEF T
  <2>1. \A n \in Nat : n \in T
    BY <1>9, <1>10, NatUp
  <2>2. QED
    BY <1>1, <2>1
<1>12. carry[<<month, 0>>] = Carried(c, month, Lookback - 0)
  BY <1>1, <1>11
<1>13. QED
  BY <1>1, <1>2, <1>12

\* What a month shows as carried in, with no regard to the row's opting in: a row that does not
\* has no chain.
LEMMA CarryInIs ==
  ASSUME PlanInvariant, NEW c \in Category, NEW month \in Month
  PROVE  Status(c, month).carryIn = Carried(c, month, Lookback)
<1> DEFINE row == budget[<<c, month>>]
<1>1. Status(c, month).carryIn = IF row # None /\ row.rollover THEN CarryInto(c, month) ELSE 0
  BY DEF Status
<1>2. CASE row # None /\ row.rollover
  BY <1>1, <1>2, CarryIntoIs
<1>3. CASE ~(row # None /\ row.rollover)
  <2>1. ~Carries(c, month)
    BY <1>3 DEF Carries
  <2>2. month \in Nat /\ Lookback \in Nat
    BY LookbackAssumption DEF Month
  <2>3. Carried(c, month, Lookback) = 0
    BY <2>1, <2>2, CarriedNone
  <2>4. QED
    BY <1>1, <1>3, <2>3
<1>4. QED
  BY <1>2, <1>3

\* A chain that the limit does not cut is the same for the month before with a limit of one less.
LEMMA ChainUncut ==
  ASSUME NEW c, NEW month \in Month, Carries(c, month), Cardinality(ChainTo(c, month, Lookback)) < Lookback
  PROVE  ChainTo(c, month - 1, Lookback) = ChainTo(c, month - 1, Lookback - 1)
<1>1. month \in Nat /\ month > 1 /\ month - 1 \in Nat /\ LastMonth \in Nat /\ Lookback \in Nat
      /\ month <= LastMonth
  BY BoundsAssumption, LookbackAssumption DEF Month, Carries
<1>2. ASSUME NEW m \in ChainTo(c, month - 1, Lookback) PROVE (month - 1) - m <= Lookback - 1
  <2>1. m \in Nat /\ m >= 1 /\ m < month - 1 /\ (month - 1) - m <= Lookback
        /\ \A k \in m + 1 .. month - 1 : Carries(c, k)
    BY DEF ChainTo, Month
  <2>2. SUFFICES ASSUME (month - 1) - m = Lookback PROVE FALSE
    BY <1>1, <2>1
  <2> DEFINE S == ChainTo(c, month, Lookback)
             R == m + 1 .. month - 1
  <2>3. ASSUME NEW k \in R PROVE k \in S
    <3>1. k \in Nat /\ k \in Month /\ k < month /\ month - k <= Lookback
      BY <1>1, <2>1, <2>2 DEF Month
    <3>2. ASSUME NEW j \in k + 1 .. month PROVE Carries(c, j)
      <4>1. j = month \/ j \in m + 1 .. month - 1
        BY <1>1, <2>1, <3>1
      <4>2. QED
        BY <2>1, <4>1
    <3>3. QED
      BY <3>1, <3>2 DEF ChainTo
  <2>4. IsFiniteSet(S)
    <3>1. S \in SUBSET (1 .. LastMonth)
      BY DEF ChainTo, Month
    <3>2. IsFiniteSet(1 .. LastMonth)
      BY <1>1, FS_Interval
    <3>3. QED
      BY <3>1, <3>2, FS_Subset
  <2>5. Cardinality(R) = Lookback
    <3>1. m + 1 \in Int /\ month - 1 \in Int /\ ~(m + 1 > month - 1) /\ (month - 1) - (m + 1) + 1 = Lookback
      BY <1>1, <2>1, <2>2
    <3>2. Cardinality(R) = (month - 1) - (m + 1) + 1
      BY <3>1, FS_Interval
    <3>3. QED
      BY <3>1, <3>2
  <2> HIDE DEF R
  <2>6. R \subseteq S
    BY <2>3
  <2>7. Cardinality(S) \in Nat /\ Cardinality(S) < Lookback
    BY <2>4, FS_CardinalityType
  <2> HIDE DEF S
  <2>8. Cardinality(R) <= Cardinality(S)
    BY <2>4, <2>6, FS_Subset
  <2>9. QED
    BY <1>1, <2>5, <2>7, <2>8
<1>3. ASSUME NEW m \in Month
      PROVE  (m < month - 1 /\ (month - 1) - m <= Lookback /\ \A k \in m + 1 .. month - 1 : Carries(c, k))
             <=> (m < month - 1 /\ (month - 1) - m <= Lookback - 1 /\ \A k \in m + 1 .. month - 1 : Carries(c, k))
  <2>1. m \in Nat
    BY DEF Month
  <2>2. m \in ChainTo(c, month - 1, Lookback) <=>
           (m < month - 1 /\ (month - 1) - m <= Lookback /\ \A k \in m + 1 .. month - 1 : Carries(c, k))
    BY DEF ChainTo
  <2>3. (month - 1) - m <= Lookback - 1 => (month - 1) - m <= Lookback
    BY <1>1, <2>1
  <2>4. QED
    BY <1>2, <2>2, <2>3
<1>4. QED
  BY <1>3 DEF ChainTo

\* Whatever was budgeted, copied, spent, refiled or ignored since, in whatever order, a month carries
\* in what its chain budgeted and did not spend, and, as long as the limit does not cut the chain, what
\* the month before shows as remaining (rollover_carry against status).
THEOREM CarriesAreHistory == Spec => []CarryIsHistory
<1>1. PlanInvariant => CarryIsHistory
  <2> SUFFICES ASSUME PlanInvariant, NEW c \in LeafCategories, NEW month \in Month
               PROVE  LET carryIn == Status(c, month).carryIn
                      IN  /\ carryIn = SumFunction([m \in Chain(c, month) |->
                                                      budget[<<c, m>>].amount - Actual(c, m)])
                          /\ Carries(c, month) /\ Cardinality(Chain(c, month)) < Lookback =>
                                carryIn = Status(c, month - 1).remaining
    BY DEF CarryIsHistory
  <2>1. c \in Category /\ month \in Nat /\ Lookback \in Nat /\ LastMonth \in Nat /\ month <= LastMonth
    BY BoundsAssumption, LookbackAssumption DEF LeafCategories, Month
  <2>2. Chain(c, month) = ChainTo(c, month, Lookback)
    BY DEF Chain, ChainTo
  <2>3. Status(c, month).carryIn = Carried(c, month, Lookback)
    BY <2>1, CarryInIs
  <2>4. Status(c, month).carryIn =
           SumFunction([m \in Chain(c, month) |-> budget[<<c, m>>].amount - Actual(c, m)])
    BY <2>2, <2>3 DEF Carried, Unspent
  <2>5. ASSUME Carries(c, month), Cardinality(Chain(c, month)) < Lookback
        PROVE  Status(c, month).carryIn = Status(c, month - 1).remaining
    <3>1. month - 1 \in Month /\ month - 1 \in Nat /\ month \in 0 .. LastMonth /\ month - 1 \in 0 .. LastMonth
      BY <2>1, <2>5 DEF Carries, Month
    <3>2. Lookback \in Positive /\ Lookback - 1 \in Nat
      <4>1. IsFiniteSet(ChainTo(c, month, Lookback))
        BY <2>1, <3>1, ChainIs
      <4>2. Cardinality(ChainTo(c, month, Lookback)) \in Nat
        BY <4>1, FS_CardinalityType
      <4>3. QED
        BY <2>1, <2>2, <2>5, <4>2 DEF Positive
    <3>3. Carried(c, month, Lookback) = Unspent(c, month - 1) + Carried(c, month - 1, Lookback - 1)
      BY <2>1, <2>5, <3>1, <3>2, CarriedOn
    <3>4. Carried(c, month - 1, Lookback - 1) = Carried(c, month - 1, Lookback)
      BY <2>2, <2>5, ChainUncut DEF Carried
    <3> DEFINE row == budget[<<c, month - 1>>]
               carryIn == IF row # None /\ row.rollover THEN CarryInto(c, month - 1) ELSE 0
    <3>5. row # None
      BY <2>5 DEF Carries
    <3>6. /\ Status(c, month - 1).remaining = (row.amount + carryIn) - Actual(c, month - 1)
          /\ Status(c, month - 1).carryIn = carryIn
      BY <3>5 DEF Status
    <3>7. Status(c, month - 1).carryIn = Carried(c, month - 1, Lookback)
      BY <2>1, <3>1, CarryInIs
    <3>8. row.amount \in Int /\ Actual(c, month - 1) \in Int
      <4>1. row \in BudgetRow
        BY <2>1, <3>1, <3>5 DEF PlanInvariant, BudgetSound
      <4>2. QED
        BY <2>1, <4>1, ActualTyped, AmountsAssumption DEF BudgetRow
    <3>9. Carried(c, month - 1, Lookback) \in Int
      BY <2>1, <3>1, CarriedType
    <3>10. Unspent(c, month - 1) = row.amount - Actual(c, month - 1)
      BY DEF Unspent
    <3> HIDE DEF carryIn, row
    <3>11. QED
      BY <2>3, <3>3, <3>4, <3>6, <3>7, <3>8, <3>9, <3>10
  <2>6. QED
    BY <2>4, <2>5
<1>2. QED
  BY <1>1, PlanSound, PTL
-------------------------------------------------------------------------------
(* A series pays once per period *)

LEMMA MonthOfRises ==
  ASSUME NEW x \in Positive, NEW y \in Positive, x <= y
  PROVE  MonthOf(x) \in Positive /\ MonthOf(y) \in Positive /\ MonthOf(x) <= MonthOf(y)
<1> DEFINE m == MonthOf(x)
           n == MonthOf(y)
<1>1. InMonth(x, m) /\ InMonth(y, n)
  BY MonthOfIs
<1> HIDE DEF m, n
<1>2. m \in Positive /\ n \in Positive /\ FirstOf[m] <= x /\ y < FirstOf[n + 1] /\ n + 1 \in Positive
  BY <1>1 DEF InMonth, Positive
<1>3. SUFFICES ASSUME n < m PROVE FALSE
  BY <1>2 DEF Positive, m, n
<1>4. FirstOf[n + 1] <= FirstOf[m]
  <2>1. CASE n + 1 = m
    <3>1. FirstOf[m] \in Positive
      BY <1>2, FirstOfIs
    <3>2. QED
      BY <2>1, <3>1 DEF Positive
  <2>2. CASE n + 1 # m
    <3>1. n + 1 < m
      BY <1>2, <1>3, <2>2 DEF Positive
    <3>2. FirstOf[n + 1] + DaysIn(n + 1) <= FirstOf[m]
      BY <1>2, <3>1, FirstOfRises
    <3>3. FirstOf[n + 1] \in Positive /\ FirstOf[m] \in Positive /\ DaysIn(n + 1) \in Positive
      BY <1>2, FirstOfIs, DaysInType
    <3>4. QED
      BY <3>2, <3>3 DEF Positive
  <2>3. QED
    BY <2>1, <2>2
<1>5. FirstOf[n + 1] \in Positive /\ FirstOf[m] \in Positive
  BY <1>2, FirstOfIs
<1>6. QED
  BY <1>2, <1>4, <1>5 DEF Positive

\* The days of a month are those from its first to the last before the next one's.
LEMMA DaysOfMonth ==
  ASSUME NEW month \in Positive, NEW day \in Positive
  PROVE  FirstOf[month] <= day /\ day <= FirstOf[month + 1] - 1 <=> MonthOf(day) = month
<1>1. FirstOf[month] \in Positive /\ FirstOf[month + 1] \in Positive
  BY FirstOfIs DEF Positive
<1>2. ASSUME FirstOf[month] <= day, day <= FirstOf[month + 1] - 1 PROVE MonthOf(day) = month
  <2>1. InMonth(day, month)
    BY <1>1, <1>2 DEF InMonth, Positive
  <2>2. QED
    BY <2>1, OneMonth
<1>3. ASSUME MonthOf(day) = month PROVE FirstOf[month] <= day /\ day <= FirstOf[month + 1] - 1
  <2>1. InMonth(day, month)
    BY <1>3, MonthOfIs
  <2>2. QED
    BY <1>1, <2>1 DEF InMonth, Positive
<1>4. QED
  BY <1>2, <1>3

\* The cursor passes no day: some landing is before it and the next one on it or after.
LEMMA LandingAcross ==
  ASSUME NEW cadence \in Cadence, StepBy(cadence) \in Steps, NEW c \in Positive, NEW day \in Positive, c < day
  PROVE  \E x \in Reached(StepBy(cadence), c) : x < day /\ day <= StepBy(cadence)[x]
<1> DEFINE step == StepBy(cadence)
           R == Reached(step, c)
           T == {x \in R : x < day}
<1> SUFFICES ASSUME \A x \in R : x < day => ~(day <= step[x]) PROVE FALSE
  OBVIOUS
<1>1. c \in R /\ R \in SUBSET Positive /\ \A x \in R : step[x] \in R
  BY ReachedIs
<1>2. step \in Steps
  OBVIOUS
<1>3. \E e \in R : e >= day
  <2> DEFINE walk == CHOOSE w : w = [cursor \in Positive |->
                                       IF cursor >= day THEN cursor ELSE w[StepForward(cursor, cadence)]]
  <2>1. \A a \in Positive : IsFirst(StepBy(cadence), a, day, walk[a])
    BY WalkIs
  <2> HIDE DEF walk
  <2>2. IsFirst(step, c, day, walk[c])
    BY <2>1
  <2> HIDE DEF step, R
  <2>3. QED
    BY <2>2 DEF IsFirst, R
<1> HIDE DEF step
<1>4. ASSUME NEW x \in T PROVE step[x] \in T
  <2>1. x \in Positive /\ step[x] \in R /\ step[x] \in Positive /\ ~(day <= step[x])
    BY <1>1
  <2>2. QED
    BY <2>1 DEF Positive
<1>5. T \in SUBSET Positive /\ c \in T
  BY <1>1
<1> HIDE DEF T
<1>6. \A d \in R : d \in T
  BY <1>4, <1>5 DEF Reached
<1>7. PICK e \in R : e >= day
  BY <1>3
<1>8. e < day /\ e \in Positive
  BY <1>1, <1>6 DEF T
<1>9. QED
  BY <1>7, <1>8 DEF Positive

\* The first payment is on `start`, or the landing before it is earlier than today.
LEMMA FirstNear ==
  ASSUME PlanInvariant, NEW m \in Active
  PROVE  LET cadence == series[m].cadence
             step == StepBy(cadence)
             first == FirstOnOrAfter(m, today)
             start == Max({today, series[m].next})
         IN  /\ start \in Positive /\ first \in Positive /\ start <= first
             /\ \/ first = start
                \/ \E x \in Positive : x < start /\ first <= step[x]
<1> DEFINE cadence == series[m].cadence
           step == StepBy(cadence)
           next == series[m].next
           first == FirstOnOrAfter(m, today)
           start == Max({today, next})
<1>1. cadence \in Cadence /\ next \in Positive /\ today \in Positive /\ step \in Steps
  BY ActiveIs
<1>2. IsFirst(step, next, today, first)
  BY FirstIs
<1>3. next \in Reached(step, next) /\ \A x \in Reached(step, next) : x \in Positive /\ next <= x /\ step[x] \in Reached(step, next)
  <2> HIDE DEF step, next
  <2>1. QED
    BY <1>1, ReachedIs
<1>4. start = IF today >= next THEN today ELSE next
  <2>1. today \in Int /\ next \in Int
    BY <1>1 DEF Positive
  <2> HIDE DEF next
  <2>2. QED
    BY <2>1, MaxOfTwo
<1>5. first \in Positive /\ first >= today /\ first \in Reached(step, next)
  BY <1>2 DEF IsFirst
<1> HIDE DEF step, next, first, start
<1>6. start \in Positive /\ start <= first
  BY <1>1, <1>3, <1>4, <1>5 DEF Positive
<1>7. CASE today <= next
  <2>1. first <= next
    BY <1>1, <1>2, <1>3, <1>7 DEF IsFirst, Positive
  <2>2. first = start
    BY <1>1, <1>3, <1>4, <1>5, <1>7, <2>1 DEF Positive
  <2>3. QED
    BY <1>5, <1>6, <2>2 DEF first, start, next, step
<1>8. CASE ~(today <= next)
  <2>1. start = today /\ next < today
    BY <1>1, <1>4, <1>8 DEF Positive
  <2>2. PICK x \in Reached(step, next) : x < today /\ today <= step[x]
    BY <1>1, <2>1, LandingAcross DEF step
  <2>3. x \in Positive /\ step[x] \in Reached(step, next) /\ step[x] >= today
    BY <1>1, <1>3, <2>2 DEF Positive
  <2>4. first <= step[x]
    BY <1>2, <2>3 DEF IsFirst
  <2>5. x \in Positive /\ x < start /\ first <= step[x]
    BY <2>1, <2>2, <2>3, <2>4
  <2>6. QED
    BY <1>5, <1>6, <2>5 DEF first, start, next, step
<1>9. QED
  BY <1>7, <1>8

\* A landing in a period that no two landings share is the only one of them.
LEMMA OneOf ==
  ASSUME NEW S, NEW e \in S, \A x, y \in S : x = y
  PROVE  Cardinality(S) = 1
<1>1. S = {e}
  OBVIOUS
<1>2. QED
  BY <1>1, FS_Singleton

LEMMA PaidEveryMonth ==
  ASSUME PlanInvariant, NEW m \in Active, series[m].cadence = "monthly",
         NEW month \in MonthOf(Max({today, series[m].next})) + 1 .. MonthOf(Horizon) - 1
  PROVE  Cardinality({d \in Occurrences(m, Horizon) : FirstOf[month] <= d /\ d <= FirstOf[month + 1] - 1}) = 1
<1> DEFINE step == StepBy("monthly")
           first == FirstOnOrAfter(m, today)
           start == Max({today, series[m].next})
           R == Reached(step, first)
           S == {d \in Occurrences(m, Horizon) : FirstOf[month] <= d /\ d <= FirstOf[month + 1] - 1}
<1>1. "monthly" \in Cadence /\ step \in Steps /\ today \in Positive
  BY ActiveIs
<1>2. Horizon \in Positive /\ Horizon \in Nat
  BY <1>1, AddMonthsIs DEF Horizon, Positive
<1>3. /\ start \in Positive /\ first \in Positive /\ start <= first
      /\ (first = start \/ \E x \in Positive : x < start /\ first <= step[x])
  BY FirstNear
<1>4. Occurrences(m, Horizon) = {d \in R : d <= Horizon}
  BY <1>2, OccurrencesAre
<1>5. \A x \in Positive : step[x] = AddMonths(x, 1)
  BY DEF StepBy, StepForward, StepDays, StepMonths
<1>6. \A x \in Positive : MonthOf(step[x]) = MonthOf(x) + 1
  <2>1. 1 \in Positive
    BY DEF Positive
  <2>2. QED
    BY <1>5, <2>1, AddMonthsIs
<1>7. /\ first \in R /\ R \in SUBSET Positive
      /\ \A x \in R : step[x] \in R
      /\ \A x, y \in R : x < y => step[x] <= y
  <2> HIDE DEF step, first
  <2>1. QED
    BY <1>1, <1>3, ReachedIs, ReachedInSteps
<1> HIDE DEF start
<1>8. /\ month \in Positive /\ MonthOf(start) \in Positive /\ MonthOf(Horizon) \in Positive
      /\ MonthOf(start) + 1 <= month /\ month + 1 <= MonthOf(Horizon)
  <2>1. MonthOf(start) \in Positive /\ MonthOf(Horizon) \in Positive
    BY <1>2, <1>3, MonthOfRises DEF Positive
  <2>2. QED
    BY <2>1 DEF start, Positive
<1>9. \A d \in Positive : FirstOf[month] <= d /\ d <= FirstOf[month + 1] - 1 <=> MonthOf(d) = month
  BY <1>8, DaysOfMonth
<1>10. ASSUME NEW d \in Positive, MonthOf(d) = month PROVE d <= Horizon
  <2>1. SUFFICES ASSUME Horizon <= d PROVE FALSE
    BY <1>2 DEF Positive
  <2>2. MonthOf(Horizon) <= MonthOf(d)
    BY <1>2, <2>1, MonthOfRises
  <2>3. QED
    BY <1>8, <1>10, <2>2 DEF Positive
<1>11. S = {d \in R : MonthOf(d) = month}
  <2> HIDE DEF R
  <2>1. QED
    BY <1>4, <1>7, <1>9, <1>10
<1> HIDE DEF S, R, step, first
<1>12. ASSUME NEW x \in S, NEW y \in S PROVE ~(x < y)
  <2>1. SUFFICES ASSUME x < y PROVE FALSE
    OBVIOUS
  <2>2. x \in Positive /\ y \in Positive /\ step[x] \in Positive /\ step[x] <= y
    BY <1>7, <1>11, <2>1
  <2>3. MonthOf(step[x]) <= MonthOf(y)
    BY <2>2, MonthOfRises
  <2>4. QED
    BY <1>6, <1>8, <1>11, <2>2, <2>3 DEF Positive
<1>13. \A x, y \in S : x = y
  <2>1. \A x \in S : x \in Positive
    BY <1>7, <1>11
  <2>2. QED
    BY <1>12, <2>1 DEF Positive
<1>14. \E e \in S : TRUE
  <2>1. MonthOf(first) \in Positive /\ MonthOf(first) <= MonthOf(start) + 1
    <3>1. CASE first = start
      BY <1>8, <3>1 DEF Positive
    <3>2. CASE \E x \in Positive : x < start /\ first <= step[x]
      <4>1. PICK x \in Positive : x < start /\ first <= step[x]
        BY <3>2
      <4>2. step[x] \in Positive
        BY <1>1 DEF Steps
      <4>3. MonthOf(first) \in Positive /\ MonthOf(first) <= MonthOf(step[x])
        BY <1>3, <4>1, <4>2, MonthOfRises
      <4>4. MonthOf(x) \in Positive /\ MonthOf(x) <= MonthOf(start)
        <5>1. x <= start
          BY <1>3, <4>1 DEF Positive
        <5>2. QED
          BY <1>3, <5>1, MonthOfRises
      <4>5. MonthOf(step[x]) = MonthOf(x) + 1
        BY <1>6
      <4>6. QED
        BY <1>8, <4>3, <4>4, <4>5 DEF Positive
    <3>3. QED
      BY <1>3, <3>1, <3>2
  <2> DEFINE day == FirstOf[month]
  <2>2. day \in Positive
    BY <1>8, FirstOfIs
  <2>3. MonthOf(day) = month
    <3>1. FirstOf[month + 1] = FirstOf[month] + DaysIn(month) /\ DaysIn(month) \in Positive
      BY <1>8, FirstOfIs, DaysInType
    <3>2. FirstOf[month] <= day /\ day <= FirstOf[month + 1] - 1
      BY <2>2, <3>1 DEF Positive
    <3>3. QED
      BY <1>9, <2>2, <3>2
  <2> HIDE DEF day
  <2>4. CASE day <= first
    <3>1. MonthOf(day) <= MonthOf(first)
      BY <1>3, <2>2, <2>4, MonthOfRises
    <3>2. MonthOf(first) = month
      BY <1>8, <2>1, <2>3, <3>1 DEF Positive
    <3>3. QED
      BY <1>7, <1>11, <3>2
  <2>5. CASE first < day
    <3>1. PICK x \in R : x < day /\ day <= step[x]
      BY <1>1, <1>3, <2>2, <2>5, LandingAcross DEF R, step
    <3>2. x \in Positive /\ step[x] \in R /\ step[x] \in Positive
      BY <1>7
    <3>3. MonthOf(day) <= MonthOf(step[x])
      BY <2>2, <3>1, <3>2, MonthOfRises
    <3>4. MonthOf(x) \in Positive /\ MonthOf(x) <= MonthOf(day)
      <4>1. x <= day
        BY <2>2, <3>1, <3>2 DEF Positive
      <4>2. QED
        BY <2>2, <3>2, <4>1, MonthOfRises
    <3>5. MonthOf(x) # month
      <4>1. MonthOf(x) = month => FirstOf[month] <= x
        BY <1>9, <3>2
      <4>2. QED
        BY <2>2, <3>1, <3>2, <4>1 DEF day, Positive
    <3>6. MonthOf(step[x]) = month
      BY <1>6, <1>8, <2>3, <3>2, <3>3, <3>4, <3>5 DEF Positive
    <3>7. QED
      BY <1>11, <3>2, <3>6
  <2>6. QED
    BY <1>3, <2>2, <2>4, <2>5 DEF Positive
<1>15. Cardinality(S) = 1
  <2>1. PICK e \in S : TRUE
    BY <1>14
  <2>2. QED
    BY <1>13, <2>1, OneOf
<1>16. QED
  BY <1>15 DEF S

LEMMA PaidEveryWeek ==
  ASSUME PlanInvariant, NEW m \in Active, series[m].cadence = "weekly",
         NEW day \in Max({today, series[m].next}) .. Horizon - 6
  PROVE  Cardinality({d \in Occurrences(m, Horizon) : day <= d /\ d <= day + 6}) = 1
<1> DEFINE step == StepBy("weekly")
           first == FirstOnOrAfter(m, today)
           start == Max({today, series[m].next})
           R == Reached(step, first)
           S == {d \in Occurrences(m, Horizon) : day <= d /\ d <= day + 6}
<1>1. "weekly" \in Cadence /\ step \in Steps /\ today \in Positive
  BY ActiveIs
<1>2. Horizon \in Positive /\ Horizon \in Nat
  BY <1>1, AddMonthsIs DEF Horizon, Positive
<1>3. /\ start \in Positive /\ first \in Positive /\ start <= first
      /\ (first = start \/ \E x \in Positive : x < start /\ first <= step[x])
  BY FirstNear
<1>4. Occurrences(m, Horizon) = {d \in R : d <= Horizon}
  BY <1>2, OccurrencesAre
<1>5. \A x \in Positive : step[x] = x + 7
  BY DEF StepBy, StepForward, StepDays
<1>6. /\ first \in R /\ R \in SUBSET Positive
      /\ \A x \in R : step[x] \in R
      /\ \A x, y \in R : x < y => step[x] <= y
  <2> HIDE DEF step, first
  <2>1. QED
    BY <1>1, <1>3, ReachedIs, ReachedInSteps
<1>7. day \in Positive /\ start <= day /\ day + 6 <= Horizon
  <2>1. day \in start .. Horizon - 6
    OBVIOUS
  <2> HIDE DEF start
  <2>2. QED
    BY <1>2, <1>3, <2>1 DEF Positive
<1>8. \A d \in S : d \in R /\ d \in Positive /\ day <= d /\ d <= day + 6
  BY <1>4, <1>6
<1>9. \A d \in R : day <= d /\ d <= day + 6 => d \in S
  <2>1. \A d \in R : d <= day + 6 => d <= Horizon
    BY <1>2, <1>6, <1>7 DEF Positive
  <2>2. QED
    BY <1>4, <2>1
<1> HIDE DEF S, R, step, first, start
<1>10. \A x, y \in S : x = y
  <2>1. ASSUME NEW x \in S, NEW y \in S, x < y PROVE FALSE
    <3>1. x + 7 <= y /\ x \in Positive /\ y \in Positive /\ day <= x /\ y <= day + 6
      BY <1>5, <1>6, <1>8, <2>1
    <3>2. QED
      BY <1>7, <3>1 DEF Positive
  <2>2. QED
    BY <1>8, <2>1 DEF Positive
<1>11. \E e \in S : TRUE
  <2>1. first <= start + 6
    BY <1>3, <1>5 DEF Positive
  <2>2. CASE day <= first
    <3>1. first <= day + 6
      BY <1>3, <1>7, <2>1 DEF Positive
    <3>2. QED
      BY <1>6, <1>9, <2>2, <3>1
  <2>3. CASE first < day
    <3>1. PICK x \in R : x < day /\ day <= step[x]
      BY <1>1, <1>3, <1>7, <2>3, LandingAcross DEF R, step
    <3>2. step[x] = x + 7 /\ x \in Positive /\ step[x] \in R
      BY <1>5, <1>6
    <3>3. step[x] <= day + 6
      BY <1>7, <3>1, <3>2 DEF Positive
    <3>4. QED
      BY <1>9, <3>1, <3>2, <3>3
  <2>4. QED
    BY <1>3, <1>7, <2>2, <2>3 DEF Positive
<1>12. Cardinality(S) = 1
  <2>1. PICK e \in S : TRUE
    BY <1>11
  <2>2. QED
    BY <1>10, <2>1, OneOf
<1>13. QED
  BY <1>12 DEF S

\* However the cursor is clamped to the end of a month, and however old the date detection left, the
\* walk pays a monthly series once in every month, and a weekly one once in any seven days, from the
\* first payment to the end of the horizon (_first_occurrence_on_or_after, _step_forward).
THEOREM SeriesPayOnce == Spec => []PaysOncePerPeriod
<1>1. PlanInvariant => PaysOncePerPeriod
  <2> SUFFICES ASSUME PlanInvariant, NEW m \in Active
               PROVE  LET days == Occurrences(m, Horizon)
                          during(first, last) == Cardinality({d \in days : first <= d /\ d <= last})
                          start == Max({today, series[m].next})
                      IN  CASE series[m].cadence = "monthly" ->
                                 \A month \in MonthOf(start) + 1 .. MonthOf(Horizon) - 1 :
                                     during(FirstOf[month], FirstOf[month + 1] - 1) = 1
                            [] series[m].cadence = "weekly" ->
                                 \A d \in start .. Horizon - 6 : during(d, d + 6) = 1
                            [] OTHER -> TRUE
    BY DEF PaysOncePerPeriod
  <2>1. CASE series[m].cadence = "monthly"
    BY <2>1, PaidEveryMonth
  <2>2. CASE series[m].cadence = "weekly"
    BY <2>2, PaidEveryWeek
  <2>3. CASE series[m].cadence \notin {"monthly", "weekly"}
    BY <2>3
  <2>4. QED
    BY <2>1, <2>2, <2>3
<1>2. QED
  BY <1>1, PlanSound, PTL
-------------------------------------------------------------------------------
(* Suggestions *)

\* Places in a sequence are told apart by the index.
LEMMA PlacesCount ==
  ASSUME NEW n \in Nat, NEW s \in [1 .. n -> Int], NEW Q \in SUBSET Places(s), NEW A \in SUBSET (1 .. n),
         \A p \in Q : p[2] \in A
  PROVE  IsFiniteSet(A) /\ Cardinality(A) \in Nat /\ Cardinality(Q) <= Cardinality(A)
<1>1. \A p \in Places(s) : p[2] \in 1 .. n /\ p[1] = s[p[2]] /\ p = <<p[1], p[2]>>
  BY PlacesIs
<1>2. IsFiniteSet(A)
  <2>1. IsFiniteSet(1 .. n)
    BY FS_Interval
  <2>2. QED
    BY <2>1, FS_Subset
<1> DEFINE f == [p \in Q |-> p[2]]
<1>3. f \in [Q -> A]
  OBVIOUS
<1>4. ASSUME NEW p \in Q, NEW q \in Q, f[p] = f[q] PROVE p = q
  <2>1. p[2] = q[2]
    BY <1>4
  <2>2. p = <<s[p[2]], p[2]>> /\ q = <<s[q[2]], q[2]>>
    BY <1>1
  <2>3. QED
    BY <2>1, <2>2
<1> HIDE DEF f
<1>5. f \in Injection(Q, A)
  BY <1>3, <1>4 DEF Injection, IsInjective
<1>6. QED
  BY <1>2, <1>5, FS_Injection, FS_CardinalityType

LEMMA MoreThanHalf ==
  ASSUME NEW n \in Nat, NEW A, NEW B \in SUBSET (1 .. n), A \subseteq B, 2 * Cardinality(A) >= n
  PROVE  2 * Cardinality(B) >= n
<1>1. IsFiniteSet(1 .. n)
  BY FS_Interval
<1>2. IsFiniteSet(B)
  BY <1>1, FS_Subset
<1>3. IsFiniteSet(A) /\ Cardinality(A) <= Cardinality(B)
  BY <1>2, FS_Subset
<1>4. Cardinality(A) \in Nat /\ Cardinality(B) \in Nat
  BY <1>2, <1>3, FS_CardinalityType
<1>5. QED
  BY <1>3, <1>4

\* Half of the numbers are not above the lower of the middle two, half not below the upper.
LEMMA MedianHalves ==
  ASSUME NEW n \in Positive, NEW s \in [1 .. n -> Int]
  PROVE  \E low, high \in Int :
            /\ low <= high /\ TwiceMedian(s) = low + high
            /\ 2 * Cardinality({i \in 1 .. n : s[i] <= low}) >= n
            /\ 2 * Cardinality({i \in 1 .. n : s[i] >= high}) >= n
<1> DEFINE P == Places(s)
           R == PlacedBefore(s)
           i1 == (n + 1) \div 2
           i2 == n \div 2 + 1
           low == Ascending(s)[i1]
           high == Ascending(s)[i2]
           A == {i \in 1 .. n : s[i] <= low}
           B == {i \in 1 .. n : s[i] >= high}
<1>1. n \in Nat /\ Len(s) = n
  BY LenIs DEF Positive
<1>2. /\ i1 \in 1 .. n /\ i2 \in 1 .. n /\ i1 \in Nat /\ i2 \in Nat
      /\ i1 <= i2 /\ (i1 < i2 => i2 = i1 + 1)
      /\ 2 * i1 >= n /\ 2 * (n - (i2 - 1)) >= n
  BY DEF Positive
<1>3. TwiceMedian(s) = low + high
  BY <1>1 DEF TwiceMedian
<1> HIDE DEF i1, i2
<1>4. PICK p \in P : Cardinality(UpTo(P, R, p)) = i1 /\ low = p[1]
  BY <1>1, <1>2, AscendingIs
<1>5. PICK q \in P : Cardinality(UpTo(P, R, q)) = i2 /\ high = q[1]
  BY <1>1, <1>2, AscendingIs
<1>6. /\ IsFiniteSet(P) /\ Cardinality(P) = n /\ StrictOrder(P, R)
      /\ \A x \in P : x[1] \in Int /\ x[2] \in 1 .. n /\ x[1] = s[x[2]]
  BY <1>1, PlacesIs
<1>7. low \in Int /\ high \in Int
  BY <1>4, <1>5, <1>6
<1>8. \A x, y \in P : <<x, y>> \in R <=> x[1] < y[1] \/ (x[1] = y[1] /\ x[2] < y[2])
  BY DEF PlacedBefore
<1> HIDE DEF P, R
<1>9. low <= high
  <2>1. SUFFICES ASSUME q[1] < p[1] PROVE FALSE
    BY <1>4, <1>5, <1>7
  <2>2. <<q, p>> \in R
    BY <1>8, <2>1
  <2>3. UpTo(P, R, q) \subseteq UpTo(P, R, p)
    BY <1>6, <2>2 DEF UpTo, StrictOrder
  <2>4. UpTo(P, R, p) \in SUBSET P
    BY DEF UpTo
  <2>5. i2 <= i1
    BY <1>4, <1>5, <1>6, <2>3, <2>4, FS_Subset
  <2>6. i1 = i2
    BY <1>2, <2>5
  <2>7. low = high
    BY <2>6
  <2>8. QED
    BY <1>4, <1>5, <1>7, <2>1, <2>7
<1> HIDE DEF low, high
<1>10. 2 * Cardinality(A) >= n
  <2> DEFINE Q == UpTo(P, R, p)
  <2>1. Q \in SUBSET P
    BY DEF UpTo
  <2>2. ASSUME NEW x \in Q PROVE x[2] \in A
    <3>1. x \in P /\ (x = p \/ <<x, p>> \in R)
      BY DEF UpTo
    <3>2. x[1] <= low
      BY <1>4, <1>6, <1>8, <3>1
    <3>3. QED
      BY <1>6, <3>1, <3>2
  <2>3. A \in SUBSET (1 .. n)
    OBVIOUS
  <2> HIDE DEF Q, A
  <2>4. Cardinality(A) \in Nat /\ Cardinality(Q) <= Cardinality(A)
    BY <1>1, <2>1, <2>2, <2>3, PlacesCount DEF P
  <2>5. Cardinality(Q) = i1
    BY <1>4 DEF Q
  <2>6. QED
    BY <1>1, <1>2, <2>4, <2>5
<1>11. 2 * Cardinality(B) >= n
  <2> DEFINE U == UpTo(P, R, q) \ {q}
             Q == P \ U
  <2>1. Q \in SUBSET P
    OBVIOUS
  <2>2. ASSUME NEW x \in Q PROVE x[2] \in B
    <3>1. x \in P /\ (x = q \/ <<x, q>> \notin R)
      BY DEF UpTo
    <3>2. x = q \/ <<q, x>> \in R
      BY <1>6, <3>1 DEF StrictOrder
    <3>3. x[1] >= high
      BY <1>5, <1>6, <1>8, <3>1, <3>2
    <3>4. QED
      BY <1>6, <3>1, <3>3
  <2>3. B \in SUBSET (1 .. n)
    OBVIOUS
  <2>4. Cardinality(Q) = n - (i2 - 1)
    <3>1. UpTo(P, R, q) \in SUBSET P /\ q \in UpTo(P, R, q)
      BY DEF UpTo
    <3> DEFINE V == UpTo(P, R, q)
    <3>2. V \in SUBSET P /\ q \in V /\ Cardinality(V) = i2
      BY <1>5, <3>1
    <3> HIDE DEF V
    <3>3. IsFiniteSet(V)
      BY <1>6, <3>2, FS_Subset
    <3>4. Cardinality(V \ {q}) = i2 - 1
      BY <3>2, <3>3, FS_RemoveElement
    <3>5. P \cap (V \ {q}) = V \ {q}
      BY <3>2
    <3>6. Cardinality(P \ (V \ {q})) = Cardinality(P) - Cardinality(P \cap (V \ {q}))
      BY <1>6, FS_Difference
    <3>7. QED
      BY <1>6, <3>4, <3>5, <3>6 DEF V
  <2> HIDE DEF Q, B
  <2>5. Cardinality(B) \in Nat /\ Cardinality(Q) <= Cardinality(B)
    BY <1>1, <2>1, <2>2, <2>3, PlacesCount DEF P
  <2>6. QED
    BY <1>1, <1>2, <2>4, <2>5
<1>12. QED
  BY <1>3, <1>7, <1>9, <1>10, <1>11

\* Halves away from zero: within half of the five that is rounded to.
LEMMA FivesNear ==
  ASSUME NEW twice \in Int, NEW amount,
         amount = 500 * (IF twice < 0 THEN -((Abs(twice) + 500) \div 1000) ELSE (Abs(twice) + 500) \div 1000)
  PROVE  amount \in Int /\ amount % 500 = 0 /\ twice <= 2 * amount + 500 /\ 2 * amount - 500 <= twice
<1> DEFINE a == Abs(twice)
           f == (a + 500) \div 1000
           k == IF twice < 0 THEN -f ELSE f
<1>1. a \in Nat /\ (twice >= 0 => a = twice) /\ (twice < 0 => a = -twice)
  BY AbsIs
<1> HIDE DEF a
<1>2. f \in Nat /\ 1000 * f <= a + 500 /\ a + 500 < 1000 * f + 1000
  BY <1>1
<1>3. amount = 500 * k
  BY DEF a
<1> HIDE DEF f
<1>4. k \in Int
  BY <1>2
<1>5. twice <= 1000 * k + 500 /\ 1000 * k - 500 <= twice
  BY <1>1, <1>2
<1> HIDE DEF k
<1>6. amount \in Int /\ amount % 500 = 0
  BY <1>3, <1>4
<1>7. QED
  BY <1>3, <1>4, <1>5, <1>6

LEMMA SamplesAre ==
  ASSUME PlanInvariant, NEW c, NEW month \in Month
  PROVE  \E n \in Nat :
            /\ Samples(c, month) \in [1 .. n -> Int] /\ Len(Samples(c, month)) = n
            /\ n = 0 <=> Samples(c, month) = <<>>
            /\ n = 0 <=> \A m \in Month : m < month /\ month - m <= 3 => SpentIn(c, m) = {}
<1> DEFINE months == {m \in Month : month - 3 <= m /\ m < month /\ SpentIn(c, m) # {}}
           n == Cardinality(months)
           s == Samples(c, month)
<1>1. LastMonth \in Nat /\ month \in Nat /\ Month = 1 .. LastMonth
  BY BoundsAssumption DEF Month
<1>2. IsFiniteSet(months) /\ n \in Nat /\ (n = 0 <=> months = {}) /\ months \in SUBSET Int
  <2>1. months \in SUBSET (1 .. LastMonth) /\ months \in SUBSET Int
    BY <1>1
  <2>2. IsFiniteSet(1 .. LastMonth)
    BY <1>1, FS_Interval
  <2> HIDE DEF months
  <2>3. IsFiniteSet(months)
    BY <2>1, <2>2, FS_Subset
  <2>4. QED
    BY <2>1, <2>3, FS_CardinalityType, FS_EmptySet
<1>3. s = [i \in 1 .. n |-> Actual(c, InOrder(months)[i])]
  BY DEF Samples
<1>4. months = {} <=> \A m \in Month : m < month /\ month - m <= 3 => SpentIn(c, m) = {}
  <2>1. \A m \in Month : month - 3 <= m <=> month - m <= 3
    BY <1>1
  <2>2. QED
    BY <2>1
<1> HIDE DEF months
<1>5. \A i \in 1 .. n : Actual(c, InOrder(months)[i]) \in Int
  BY ActualTyped
<1> HIDE DEF n, s
<1>6. s \in [1 .. n -> Int]
  BY <1>3, <1>5
<1>7. Len(s) = n
  BY <1>2, <1>6, LenIs
<1>8. n = 0 <=> s = <<>>
  <2>1. s = <<>> => Len(s) = 0
    OBVIOUS
  <2>2. ASSUME n = 0 PROVE s = <<>>
    <3>1. s \in Seq(Int) /\ Len(s) = 0
      BY <1>2, <1>6, <1>7, <2>2, LenIs
    <3>2. QED
      BY <3>1
  <2>3. QED
    BY <1>7, <2>1, <2>2
<1>9. QED
  BY <1>2, <1>4, <1>6, <1>7, <1>8 DEF s

\* What is suggested is a multiple of five that half of the last months' spending does not exceed and
\* half does not fall below, to within the rounding, and something is exactly if one of them had any
\* (suggest, _round_to_5).
THEOREM SuggestionsAreTypical == Spec => []SuggestionIsTypical
<1>1. PlanInvariant => SuggestionIsTypical
  <2> SUFFICES ASSUME PlanInvariant, NEW c \in LeafCategories, NEW month \in Month
               PROVE  LET amount == Suggestion(c, month)
                          samples == Samples(c, month)
                          half(test) == 2 * Cardinality(test) >= Len(samples)
                      IN  /\ amount = None <=> \A m \in Month : m < month /\ month - m <= 3 => SpentIn(c, m) = {}
                          /\ amount # None =>
                               /\ amount % 500 = 0
                               /\ half({i \in DOMAIN samples : samples[i] <= amount + 250})
                               /\ half({i \in DOMAIN samples : samples[i] >= amount - 250})
    BY DEF SuggestionIsTypical
  <2> DEFINE amount == Suggestion(c, month)
             s == Samples(c, month)
             twice == TwiceMedian(s)
             none == \A m \in Month : m < month /\ month - m <= 3 => SpentIn(c, m) = {}
             A == {i \in DOMAIN s : s[i] <= amount + 250}
             B == {i \in DOMAIN s : s[i] >= amount - 250}
  <2>1. PICK n \in Nat : s \in [1 .. n -> Int] /\ Len(s) = n /\ (n = 0 <=> s = <<>>) /\ (n = 0 <=> none)
    BY SamplesAre
  <2>2. amount = IF s = <<>> THEN None
                 ELSE 500 * (IF twice < 0 THEN -((Abs(twice) + 500) \div 1000)
                             ELSE (Abs(twice) + 500) \div 1000)
    BY DEF Suggestion
  <2> HIDE DEF none, s, amount
  <2>3. CASE n = 0
    <3>1. amount = None /\ none
      BY <2>1, <2>2, <2>3
    <3>2. QED
      BY <3>1 DEF amount, s, none
  <2>4. CASE n # 0
    <3>1. n \in Positive
      BY <2>4 DEF Positive
    <3>2. PICK low \in Int, high \in Int :
             /\ low <= high /\ twice = low + high
             /\ 2 * Cardinality({i \in 1 .. n : s[i] <= low}) >= n
             /\ 2 * Cardinality({i \in 1 .. n : s[i] >= high}) >= n
      BY <2>1, <3>1, MedianHalves
    <3> HIDE DEF twice
    <3>3. twice \in Int
      BY <3>2
    <3>4. amount = 500 * (IF twice < 0 THEN -((Abs(twice) + 500) \div 1000)
                          ELSE (Abs(twice) + 500) \div 1000)
      BY <2>1, <2>2, <2>4
    <3>5. amount \in Int /\ amount % 500 = 0 /\ twice <= 2 * amount + 500 /\ 2 * amount - 500 <= twice
      BY <3>3, <3>4, FivesNear
    <3>6. low <= amount + 250 /\ high >= amount - 250
      BY <3>2, <3>5
    <3>7. amount # None /\ ~none
      BY <2>1, <2>4, <3>5, NoneAssumption
    <3>8. 2 * Cardinality(A) >= Len(s)
      <4> DEFINE A0 == {i \in 1 .. n : s[i] <= low}
      <4>1. A0 \subseteq A /\ A \in SUBSET (1 .. n)
        BY <2>1, <3>2, <3>5, <3>6
      <4>2. 2 * Cardinality(A0) >= n
        BY <3>2
      <4> HIDE DEF A0, A
      <4>3. QED
        BY <2>1, <4>1, <4>2, MoreThanHalf
    <3>9. 2 * Cardinality(B) >= Len(s)
      <4> DEFINE B0 == {i \in 1 .. n : s[i] >= high}
      <4>1. B0 \subseteq B /\ B \in SUBSET (1 .. n)
        BY <2>1, <3>2, <3>5, <3>6
      <4>2. 2 * Cardinality(B0) >= n
        BY <3>2
      <4> HIDE DEF B0, B
      <4>3. QED
        BY <2>1, <4>1, <4>2, MoreThanHalf
    <3>10. QED
      BY <3>5, <3>7, <3>8, <3>9 DEF amount, s, none
  <2>5. QED
    BY <2>3, <2>4
<1>2. QED
  BY <1>1, PlanSound, PTL
===============================================================================
