----------------------------- MODULE FiniteSums -----------------------------
(***************************************************************************)
(* What SumFunction of the module Functions computes, for every integer     *)
(* function with a finite domain.  The sum takes the elements of the domain *)
(* in an order nobody knows; the lemmas at the end say that it does not     *)
(* matter.                                                                  *)
(*                                                                          *)
(* Induction is over sets of numbers (NumbersAll), from the well-founded    *)
(* order of Nat: a predicate P becomes the set {n \in Nat : P(n)}.          *)
(***************************************************************************)
EXTENDS Integers, FiniteSets, Functions, FiniteSetTheorems, WellFoundedInduction, TLAPS

LEMMA NumbersAll ==
  ASSUME NEW N, 0 \in N, \A n \in Nat : n \in N => n + 1 \in N
  PROVE  Nat \subseteq N
<1> DEFINE R == {ss \in Nat \X Nat : ss[1] < ss[2]}
           T == Nat \ N
<1>1. IsWellFoundedOn(R, Nat)
  BY NatLessThanWellFounded DEF OpToRel
<1>2. \A x, y \in Nat : x < y => <<x, y>> \in R
  OBVIOUS
<1> HIDE DEF R
<1> SUFFICES ASSUME T # {} PROVE FALSE
  OBVIOUS
<1>3. PICK x \in T : \A y \in T : ~(<<y, x>> \in R)
  BY <1>1, WFMin, Zenon
<1>4. x \in Nat /\ x # 0 /\ x - 1 \in Nat /\ x - 1 < x /\ (x - 1) + 1 = x
  OBVIOUS
<1>5. x - 1 \in T
  BY <1>4
<1> QED
  BY <1>2, <1>3, <1>4, <1>5
-----------------------------------------------------------------------------
(* The recursion behind a sum.                                              *)

First(s) == CHOOSE x \in s : TRUE

AddsUp(sum, f, D) ==
  \A s \in SUBSET D :
    sum[s] = IF s = {} THEN 0 ELSE f[First(s)] + sum[s \ {First(s)}]

Recursion(sum, f, D) ==
  sum = [s \in SUBSET D |-> IF s = {} THEN 0 ELSE f[First(s)] + sum[s \ {First(s)}]]

LEMMA FirstOfSet == \A s : s # {} => First(s) \in s
BY DEF First

LEMMA Smaller ==
  ASSUME NEW D, IsFiniteSet(D), NEW s \in SUBSET D, NEW x \in s
  PROVE  /\ s \ {x} \in SUBSET D
         /\ Cardinality(s) \in Nat /\ Cardinality(s \ {x}) = Cardinality(s) - 1
         /\ Cardinality(s) # 0
<1>1. IsFiniteSet(s)
  BY FS_Subset
<1>2. Cardinality(s) \in Nat /\ Cardinality(s \ {x}) = Cardinality(s) - 1
  BY <1>1, FS_CardinalityType, FS_RemoveElement
<1>3. Cardinality(s) # 0
  BY <1>1, FS_EmptySet
<1> QED
  BY <1>2, <1>3

LEMMA Empty ==
  ASSUME NEW D, IsFiniteSet(D), NEW s \in SUBSET D, Cardinality(s) <= 0
  PROVE  s = {}
<1>1. IsFiniteSet(s) /\ Cardinality(s) \in Nat
  BY FS_Subset, FS_CardinalityType
<1> QED
  BY <1>1, FS_EmptySet

LEMMA SumExists ==
  ASSUME NEW f, NEW D, IsFiniteSet(D)
  PROVE  \E sum : Recursion(sum, f, D)
<1> DEFINE Up(sum, n) ==
             \A s \in SUBSET D :
               Cardinality(s) <= n =>
                 sum[s] = IF s = {} THEN 0 ELSE f[First(s)] + sum[s \ {First(s)}]
           N == {n \in Nat : \E sum : Up(sum, n)}
<1>1. 0 \in N
  <2> DEFINE sum == [s \in SUBSET D |-> 0]
  <2>1. \A s \in SUBSET D : Cardinality(s) <= 0 => s = {}
    BY Empty
  <2>2. Up(sum, 0)
    BY <2>1
  <2> HIDE DEF Up, sum
  <2> QED
    BY <2>2
<1>2. ASSUME NEW n \in Nat, n \in N PROVE n + 1 \in N
  <2>1. PICK sum : Up(sum, n)
    BY <1>2
  <2> DEFINE more == [s \in SUBSET D |->
                        IF Cardinality(s) <= n THEN sum[s]
                        ELSE f[First(s)] + sum[s \ {First(s)}]]
  <2>2. ASSUME NEW s \in SUBSET D, Cardinality(s) <= n + 1
        PROVE  more[s] = IF s = {} THEN 0 ELSE f[First(s)] + more[s \ {First(s)}]
    <3>1. CASE s = {}
      <4>1. Cardinality(s) <= n
        BY <3>1, FS_EmptySet
      <4> QED
        BY <2>1, <3>1, <4>1
    <3>2. CASE s # {}
      <4>1. /\ First(s) \in s /\ s \ {First(s)} \in SUBSET D
            /\ Cardinality(s) \in Nat /\ Cardinality(s \ {First(s)}) = Cardinality(s) - 1
        BY <3>2, FirstOfSet, Smaller
      <4>2. more[s \ {First(s)}] = sum[s \ {First(s)}]
        BY <2>2, <4>1
      <4>3. CASE Cardinality(s) <= n
        BY <2>1, <3>2, <4>2, <4>3
      <4>4. CASE ~(Cardinality(s) <= n)
        BY <3>2, <4>2, <4>4
      <4> QED
        BY <4>3, <4>4
    <3> QED
      BY <3>1, <3>2
  <2>3. Up(more, n + 1)
    BY <2>2
  <2> HIDE DEF Up, more
  <2> QED
    BY <2>3
<1>3. Cardinality(D) \in N
  <2>1. Nat \subseteq N
    <3> HIDE DEF N
    <3> QED
      BY <1>1, <1>2, NumbersAll
  <2> QED
    BY <2>1, FS_CardinalityType
<1>4. PICK sum : Up(sum, Cardinality(D))
  BY <1>3
<1> DEFINE all == [s \in SUBSET D |-> sum[s]]
<1>5. ASSUME NEW s \in SUBSET D
      PROVE  sum[s] = IF s = {} THEN 0 ELSE f[First(s)] + all[s \ {First(s)}]
  <2>1. Cardinality(s) <= Cardinality(D)
    BY FS_Subset
  <2> QED
    BY <1>4, <2>1
<1>6. Recursion(all, f, D)
  BY <1>5 DEF Recursion
<1> HIDE DEF all
<1> QED
  BY <1>6

LEMMA SumIsSum ==
  ASSUME NEW f, IsFiniteSet(DOMAIN f)
  PROVE  \E sum : AddsUp(sum, f, DOMAIN f) /\ SumFunction(f) = sum[DOMAIN f]
<1> DEFINE it == CHOOSE sum : Recursion(sum, f, DOMAIN f)
<1>1. \E sum : Recursion(sum, f, DOMAIN f)
  BY SumExists
<1>2. Recursion(it, f, DOMAIN f)
  BY <1>1
<1>3. AddsUp(it, f, DOMAIN f)
  <2> HIDE DEF it
  <2> QED
    BY <1>2 DEF AddsUp, Recursion
<1>4. SumFunction(f) = it[DOMAIN f]
  BY DEF Recursion, SumFunction, SumFunctionOnSet, FoldFunctionOnSet, MapThenFoldSet, First
<1> QED
  BY <1>3, <1>4

LEMMA AddedUp ==
  ASSUME NEW sum, NEW f, NEW D, AddsUp(sum, f, D), NEW s \in SUBSET D
  PROVE  IF s = {} THEN sum[s] = 0
                   ELSE sum[s] = f[First(s)] + sum[s \ {First(s)}]
BY DEF AddsUp

(* The sum of a set is an integer, and any element may be taken out first.  *)
Splits(sum, f, s) == sum[s] \in Int /\ \A x \in s : sum[s] = f[x] + sum[s \ {x}]

LEMMA SumSplits ==
  ASSUME NEW sum, NEW f, NEW D, IsFiniteSet(D), AddsUp(sum, f, D),
         \A x \in D : f[x] \in Int
  PROVE  \A s \in SUBSET D : Splits(sum, f, s)
<1> DEFINE N == {n \in Nat : \A s \in SUBSET D :
                               Cardinality(s) <= n => Splits(sum, f, s)}
<1>1. 0 \in N
  <2>1. ASSUME NEW s \in SUBSET D, Cardinality(s) <= 0 PROVE Splits(sum, f, s)
    <3>1. s = {}
      BY <2>1, Empty
    <3>2. sum[s] = 0
      BY <3>1, AddedUp
    <3> QED
      BY <3>1, <3>2 DEF Splits
  <2> QED
    BY <2>1
<1>2. ASSUME NEW n \in Nat, n \in N PROVE n + 1 \in N
  <2>1. ASSUME NEW s \in SUBSET D, Cardinality(s) = n + 1 PROVE Splits(sum, f, s)
    <3>1. s # {}
      BY <2>1, FS_EmptySet
    <3>2. PICK p \in s : p = First(s)
      BY <3>1, FirstOfSet
    <3>3. ASSUME NEW x \in s
          PROVE  /\ s \ {x} \in SUBSET D /\ Splits(sum, f, s \ {x}) /\ f[x] \in Int
                 /\ sum[s \ {x}] \in Int
      <4>1. s \ {x} \in SUBSET D /\ Cardinality(s \ {x}) = n
        BY <2>1, Smaller
      <4>2. Splits(sum, f, s \ {x})
        BY <1>2, <4>1
      <4> QED
        BY <4>1, <4>2 DEF Splits
    <3>4. sum[s] = f[p] + sum[s \ {p}]
      BY <3>1, <3>2, AddedUp
    <3>5. sum[s \ {p}] \in Int /\ f[p] \in Int
      BY <3>3
    <3>6. ASSUME NEW x \in s, x # p PROVE sum[s] = f[x] + sum[s \ {x}]
      <4>1. PICK r : r = (s \ {p}) \ {x} /\ r = (s \ {x}) \ {p}
        OBVIOUS
      <4>2. x \in s \ {p} /\ p \in s \ {x}
        BY <3>6
      <4>3. sum[s \ {p}] = f[x] + sum[r]
        BY <3>3, <4>1, <4>2 DEF Splits
      <4>4. sum[s \ {x}] = f[p] + sum[r]
        BY <3>3, <4>1, <4>2 DEF Splits
      <4>5. f[x] \in Int
        BY <3>3
      <4>6. sum[r] \in Int
        <5>1. s \ {p} \in SUBSET D /\ Cardinality(s \ {p}) = n
          BY <2>1, Smaller
        <5>2. r \in SUBSET D /\ Cardinality(r) <= n
          BY <4>1, <4>2, <5>1, Smaller
        <5> QED
          BY <1>2, <5>2 DEF Splits
      <4> QED
        BY <3>4, <3>5, <4>3, <4>4, <4>5, <4>6
    <3>7. sum[s] \in Int
      BY <3>4, <3>5
    <3>8. \A x \in s : sum[s] = f[x] + sum[s \ {x}]
      BY <3>4, <3>6
    <3> QED
      BY <3>7, <3>8 DEF Splits
  <2>2. ASSUME NEW s \in SUBSET D, Cardinality(s) <= n + 1
        PROVE  Cardinality(s) <= n \/ Cardinality(s) = n + 1
    BY <2>2, FS_Subset, FS_CardinalityType
  <2> QED
    BY <1>2, <2>1, <2>2
<1>3. Nat \subseteq N
  <2> HIDE DEF N
  <2> QED
    BY <1>1, <1>2, NumbersAll
<1>4. ASSUME NEW s \in SUBSET D PROVE Splits(sum, f, s)
  <2>1. Cardinality(s) \in Nat
    BY FS_Subset, FS_CardinalityType
  <2> QED
    BY <1>3, <2>1
<1> QED
  BY <1>4

(* Two sums of functions that agree are the same.                           *)
LEMMA SumsAgree ==
  ASSUME NEW a, NEW f, NEW D, IsFiniteSet(D), AddsUp(a, f, D),
         NEW b, NEW g, NEW E, IsFiniteSet(E), AddsUp(b, g, E),
         NEW S \in SUBSET (D \cap E), \A x \in S : f[x] = g[x]
  PROVE  \A s \in SUBSET S : a[s] = b[s]
<1> DEFINE N == {n \in Nat : \A s \in SUBSET S : Cardinality(s) = n => a[s] = b[s]}
<1>1. 0 \in N
  <2>1. ASSUME NEW s \in SUBSET S, Cardinality(s) = 0 PROVE a[s] = b[s]
    <3>1. s = {}
      BY <2>1, FS_Subset, FS_EmptySet
    <3> QED
      BY <3>1 DEF AddsUp
  <2> QED
    BY <2>1
<1>2. ASSUME NEW n \in Nat, n \in N PROVE n + 1 \in N
  <2>1. ASSUME NEW s \in SUBSET S, Cardinality(s) = n + 1 PROVE a[s] = b[s]
    <3> DEFINE p == First(s)
    <3>1. s # {} /\ p \in s
      <4>1. s # {}
        BY <2>1, FS_EmptySet
      <4> QED
        BY <4>1, FirstOfSet
    <3>2. a[s] = f[p] + a[s \ {p}] /\ b[s] = g[p] + b[s \ {p}]
      BY <3>1 DEF AddsUp
    <3> HIDE DEF p
    <3>3. s \ {p} \in SUBSET S /\ Cardinality(s \ {p}) = n
      BY <2>1, <3>1, Smaller
    <3> QED
      BY <1>2, <3>1, <3>2, <3>3
  <2> QED
    BY <2>1
<1>3. Nat \subseteq N
  <2> HIDE DEF N
  <2> QED
    BY <1>1, <1>2, NumbersAll
<1>4. ASSUME NEW s \in SUBSET S PROVE a[s] = b[s]
  <2>1. Cardinality(s) \in Nat
    BY FS_Subset, FS_CardinalityType
  <2> QED
    BY <1>3, <2>1
<1> QED
  BY <1>4
-----------------------------------------------------------------------------
(* What the rest of the project uses.                                       *)

LEMMA SumOfNothing == ASSUME NEW f, DOMAIN f = {} PROVE SumFunction(f) = 0
<1>1. IsFiniteSet(DOMAIN f)
  BY FS_EmptySet
<1> QED
  BY <1>1, SumIsSum DEF AddsUp

LEMMA SumIsInt ==
  ASSUME NEW f, IsFiniteSet(DOMAIN f), \A x \in DOMAIN f : f[x] \in Int
  PROVE  SumFunction(f) \in Int
BY SumIsSum, SumSplits DEF Splits

LEMMA SumIsSame ==
  ASSUME NEW f, IsFiniteSet(DOMAIN f), NEW g, DOMAIN g = DOMAIN f,
         \A x \in DOMAIN f : g[x] = f[x]
  PROVE  SumFunction(g) = SumFunction(f)
<1>1. PICK a : AddsUp(a, f, DOMAIN f) /\ SumFunction(f) = a[DOMAIN f]
  BY SumIsSum
<1>2. PICK b : AddsUp(b, g, DOMAIN f) /\ SumFunction(g) = b[DOMAIN f]
  BY SumIsSum
<1>3. DOMAIN f \in SUBSET (DOMAIN f \cap DOMAIN f) /\ DOMAIN f \in SUBSET DOMAIN f
  OBVIOUS
<1>4. a[DOMAIN f] = b[DOMAIN f]
  BY <1>1, <1>2, <1>3, SumsAgree
<1> QED
  BY <1>1, <1>2, <1>4

(* One value more.                                                          *)
LEMMA SumExtends ==
  ASSUME NEW f, IsFiniteSet(DOMAIN f), \A x \in DOMAIN f : f[x] \in Int,
         NEW g, NEW x, x \notin DOMAIN f, DOMAIN g = DOMAIN f \cup {x},
         g[x] \in Int, \A y \in DOMAIN f : g[y] = f[y]
  PROVE  SumFunction(g) = SumFunction(f) + g[x]
<1>1. IsFiniteSet(DOMAIN g) /\ \A y \in DOMAIN g : g[y] \in Int
  BY FS_AddElement
<1>2. PICK a : AddsUp(a, f, DOMAIN f) /\ SumFunction(f) = a[DOMAIN f]
  BY SumIsSum
<1>3. PICK b : AddsUp(b, g, DOMAIN g) /\ SumFunction(g) = b[DOMAIN g]
  BY <1>1, SumIsSum
<1>4. b[DOMAIN g] = g[x] + b[DOMAIN g \ {x}] /\ b[DOMAIN g \ {x}] \in Int
  <2>1. DOMAIN g \in SUBSET DOMAIN g /\ DOMAIN g \ {x} \in SUBSET DOMAIN g /\ x \in DOMAIN g
    OBVIOUS
  <2>2. Splits(b, g, DOMAIN g) /\ Splits(b, g, DOMAIN g \ {x})
    BY <1>1, <1>3, <2>1, SumSplits
  <2> QED
    BY <2>1, <2>2 DEF Splits
<1>5. a[DOMAIN f] = b[DOMAIN f]
  <2>1. DOMAIN f \in SUBSET (DOMAIN f \cap DOMAIN g) /\ DOMAIN f \in SUBSET DOMAIN f
    OBVIOUS
  <2> QED
    BY <1>1, <1>2, <1>3, <2>1, SumsAgree
<1>6. DOMAIN g \ {x} = DOMAIN f
  OBVIOUS
<1> QED
  BY <1>2, <1>3, <1>4, <1>5, <1>6

(* One value changed.                                                       *)
LEMMA SumChanges ==
  ASSUME NEW f, IsFiniteSet(DOMAIN f), \A x \in DOMAIN f : f[x] \in Int,
         NEW g, DOMAIN g = DOMAIN f, NEW x \in DOMAIN f,
         g[x] \in Int, \A y \in DOMAIN f \ {x} : g[y] = f[y]
  PROVE  SumFunction(g) = SumFunction(f) - f[x] + g[x]
<1>1. \A y \in DOMAIN g : g[y] \in Int
  OBVIOUS
<1>2. PICK a : AddsUp(a, f, DOMAIN f) /\ SumFunction(f) = a[DOMAIN f]
  BY SumIsSum
<1>3. PICK b : AddsUp(b, g, DOMAIN f) /\ SumFunction(g) = b[DOMAIN f]
  BY SumIsSum
<1> DEFINE rest == DOMAIN f \ {x}
<1>4. DOMAIN f \in SUBSET DOMAIN f /\ rest \in SUBSET DOMAIN f
  OBVIOUS
<1>5. a[DOMAIN f] = f[x] + a[rest] /\ a[rest] \in Int
  <2>1. Splits(a, f, DOMAIN f) /\ Splits(a, f, rest)
    BY <1>2, <1>4, SumSplits
  <2> QED
    BY <2>1 DEF Splits
<1>6. b[DOMAIN f] = g[x] + b[rest] /\ b[rest] \in Int
  <2>1. Splits(b, g, DOMAIN f) /\ Splits(b, g, rest)
    BY <1>1, <1>3, <1>4, SumSplits
  <2> QED
    BY <2>1 DEF Splits
<1>7. a[rest] = b[rest]
  <2>1. rest \in SUBSET (DOMAIN f \cap DOMAIN f) /\ rest \in SUBSET rest
    OBVIOUS
  <2>2. \A y \in rest : f[y] = g[y]
    OBVIOUS
  <2> HIDE DEF rest
  <2> QED
    BY <1>2, <1>3, <2>1, <2>2, SumsAgree
<1> QED
  BY <1>2, <1>3, <1>5, <1>6, <1>7

(* A zero comes or goes.                                                    *)
LEMMA SumIgnoresZero ==
  ASSUME NEW f, IsFiniteSet(DOMAIN f), \A y \in DOMAIN f : f[y] \in Int,
         NEW g, NEW x, DOMAIN f \cup {x} = DOMAIN g \cup {x},
         \A y \in DOMAIN f \ {x} : g[y] = f[y],
         x \in DOMAIN f => f[x] = 0, x \in DOMAIN g => g[x] = 0
  PROVE  SumFunction(g) = SumFunction(f)
<1>1. CASE x \in DOMAIN f /\ x \in DOMAIN g
  BY <1>1, SumIsSame
<1>2. CASE x \notin DOMAIN f /\ x \notin DOMAIN g
  BY <1>2, SumIsSame
<1>3. CASE x \notin DOMAIN f /\ x \in DOMAIN g
  <2>1. SumFunction(g) = SumFunction(f) + g[x]
    BY <1>3, SumExtends
  <2> QED
    BY <1>3, <2>1, SumIsInt
<1>4. CASE x \in DOMAIN f /\ x \notin DOMAIN g
  <2>1. IsFiniteSet(DOMAIN g) /\ \A y \in DOMAIN g : g[y] \in Int
    <3>1. DOMAIN g = DOMAIN f \ {x}
      BY <1>4
    <3> QED
      BY <3>1, FS_RemoveElement
  <2>2. SumFunction(f) = SumFunction(g) + f[x]
    BY <1>4, <2>1, SumExtends
  <2> QED
    BY <1>4, <2>1, <2>2, SumIsInt
<1> QED
  BY <1>1, <1>2, <1>3, <1>4

(* Nothing but zeros.                                                       *)
LEMMA SumOfZeros ==
  ASSUME NEW f, IsFiniteSet(DOMAIN f), \A x \in DOMAIN f : f[x] = 0
  PROVE  SumFunction(f) = 0
<1>1. PICK a : AddsUp(a, f, DOMAIN f) /\ SumFunction(f) = a[DOMAIN f]
  BY SumIsSum
<1> DEFINE b == [s \in SUBSET DOMAIN f |-> 0]
<1>2. AddsUp(b, f, DOMAIN f)
  <2> SUFFICES ASSUME NEW s \in SUBSET DOMAIN f
               PROVE  b[s] = IF s = {} THEN 0 ELSE f[First(s)] + b[s \ {First(s)}]
    BY DEF AddsUp
  <2>1. CASE s = {}
    BY <2>1
  <2>2. CASE s # {}
    <3>1. First(s) \in s /\ s \ {First(s)} \in SUBSET DOMAIN f
      BY <2>2, FirstOfSet
    <3> QED
      BY <2>2, <3>1
  <2> QED
    BY <2>1, <2>2
<1>3. b[DOMAIN f] = 0
  OBVIOUS
<1> HIDE DEF b
<1>4. a[DOMAIN f] = b[DOMAIN f]
  <2>1. DOMAIN f \in SUBSET (DOMAIN f \cap DOMAIN f) /\ DOMAIN f \in SUBSET DOMAIN f
    OBVIOUS
  <2> QED
    BY <1>1, <1>2, <2>1, SumsAgree
<1> QED
  BY <1>1, <1>3, <1>4
=============================================================================
