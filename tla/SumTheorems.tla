---------------------------- MODULE SumTheorems ----------------------------
(* Sums over finite sets: what MapThenSumSet computes, whatever order its  *)
(* CHOOSE takes the elements in.  The weights are given as a function, so  *)
(* that no fact here has an operator for a parameter; induction is over a  *)
(* set of sets, for the same reason.  And what a place in an order is.     *)
EXTENDS Integers, FiniteSetsExt, FiniteSetTheorems, WellFoundedInduction, TLAPS

SumOver(f, S) == MapThenSumSet(LAMBDA x : f[x], S)

(* The recursion behind MapThenSumSet, and its solution on the subsets of  *)
(* a set.                                                                  *)
Chosen(s) == CHOOSE x \in s : TRUE

PartialSums(f, g, S) ==
  [s \in SUBSET S |->
     IF s = {} THEN 0 ELSE f[Chosen(s)] + g[s \ {Chosen(s)}]]

Solution(f, S) == CHOOSE g : g = PartialSums(f, g, S)

LEMMA SumIsSolution ==
  ASSUME NEW f, NEW S
  PROVE  SumOver(f, S) = Solution(f, S)[S]
  BY DEF SumOver, MapThenSumSet, MapThenFoldSet, Solution, PartialSums, Chosen

----------------------------------------------------------------------------
(* A set of subsets that contains each one whose proper parts it contains  *)
(* contains them all.                                                      *)
LEMMA SubsetInduction ==
  ASSUME NEW S, IsFiniteSet(S), NEW G,
         \A T \in SUBSET S : (\A U \in SUBSET T : U # T => U \in G) => T \in G
  PROVE  \A T \in SUBSET S : T \in G
<1> DEFINE B == (SUBSET S) \ G
<1> SUFFICES ASSUME B # {} PROVE FALSE
  OBVIOUS
<1>1. IsWellFoundedOn(StrictSubsetOrdering(S), SUBSET S)
  <2>1. FiniteSubsetsOf(S) = SUBSET S
    BY FS_FiniteSubsetsOfFinite
  <2>2. IsWellFoundedOn(StrictSubsetOrdering(S), FiniteSubsetsOf(S))
    BY FS_StrictSubsetOrderingWellFounded
  <2> QED BY <2>1, <2>2
<1>2. B \subseteq SUBSET S
  OBVIOUS
<1>3. \E T \in B : \A U \in B : ~(<<U, T>> \in StrictSubsetOrdering(S))
  <2> HIDE DEF B
  <2> QED BY <1>1, <1>2, WFMin
<1>4. PICK T \in B : \A U \in B : ~(<<U, T>> \in StrictSubsetOrdering(S))
  BY <1>3
<1>5. \A U \in SUBSET T : U # T => U \in G
  BY <1>4 DEF StrictSubsetOrdering
<1> QED BY <1>4, <1>5

LEMMA ChosenIn ==
  ASSUME NEW s, s # {}
  PROVE  Chosen(s) \in s /\ s \ {Chosen(s)} # s
  BY DEF Chosen

(* The recursion has one solution on the subsets of a finite set, and its  *)
(* solution on those of a larger one agrees with it.                       *)
LEMMA SolutionsAgree ==
  ASSUME NEW f, NEW S, IsFiniteSet(S), NEW T \in SUBSET S,
         NEW g, g = PartialSums(f, g, S), NEW h, h = PartialSums(f, h, T)
  PROVE  \A U \in SUBSET T : g[U] = h[U]
<1> DEFINE G == {U \in SUBSET T : g[U] = h[U]}
<1>1. IsFiniteSet(T)
  BY FS_Subset
<1>2. ASSUME NEW U \in SUBSET T, \A W \in SUBSET U : W # U => W \in G
      PROVE  U \in G
  <2>1. CASE U = {}
    <3>1. g[U] = 0 /\ h[U] = 0
      BY <2>1 DEF PartialSums
    <3> QED BY <3>1
  <2>2. CASE U # {}
    <3> DEFINE W == U \ {Chosen(U)}
    <3>1. g[W] = h[W]
      BY <1>2, <2>2, ChosenIn
    <3>2. g[U] = f[Chosen(U)] + g[W] /\ h[U] = f[Chosen(U)] + h[W]
      BY <2>2 DEF PartialSums
    <3> QED BY <3>1, <3>2
  <2> QED BY <2>1, <2>2
<1>3. \A U \in SUBSET T : U \in G
  <2> HIDE DEF G
  <2> QED BY <1>1, <1>2, SubsetInduction
<1> QED BY <1>3

LEMMA SolutionExists ==
  ASSUME NEW f, NEW S, IsFiniteSet(S)
  PROVE  \E g : g = PartialSums(f, g, S)
<1> DEFINE G == {T \in SUBSET S : \E g : g = PartialSums(f, g, T)}
<1>1. ASSUME NEW T \in SUBSET S, \A U \in SUBSET T : U # T => U \in G
      PROVE  T \in G
  <2> DEFINE part == [s \in SUBSET T |->
               IF s = {} THEN 0
               ELSE f[Chosen(s)] + Solution(f, s \ {Chosen(s)})[s \ {Chosen(s)}]]
  <2>1. ASSUME NEW U \in SUBSET T, U # T
        PROVE  Solution(f, U) = PartialSums(f, Solution(f, U), U)
    <3>1. \E g : g = PartialSums(f, g, U)
      BY <1>1, <2>1
    <3> QED BY <3>1, Zenon DEF Solution
  <2>2. ASSUME NEW s \in SUBSET T, s # T
        PROVE  part[s] = Solution(f, s)[s]
    <3>1. CASE s = {}
      <4>1. Solution(f, s)[s] = 0
        BY <2>1, <2>2, <3>1 DEF PartialSums
      <4> QED BY <3>1, <4>1
    <3>2. CASE s # {}
      <4> DEFINE w == s \ {Chosen(s)}
      <4>1. w \in SUBSET T /\ w # T /\ w \in SUBSET s
        BY <2>2
      <4>2. IsFiniteSet(s)
        BY FS_Subset
      <4>3. Solution(f, s)[w] = Solution(f, w)[w]
        <5>1. Solution(f, s) = PartialSums(f, Solution(f, s), s)
          BY <2>1, <2>2
        <5>2. Solution(f, w) = PartialSums(f, Solution(f, w), w)
          BY <2>1, <4>1
        <5> HIDE DEF w
        <5> QED BY <4>1, <4>2, <5>1, <5>2, SolutionsAgree
      <4>4. Solution(f, s)[s] = f[Chosen(s)] + Solution(f, s)[w]
        <5>1. Solution(f, s) = PartialSums(f, Solution(f, s), s)
          BY <2>1, <2>2
        <5> QED BY <3>2, <5>1 DEF PartialSums
      <4>5. part[s] = f[Chosen(s)] + Solution(f, w)[w]
        BY <3>2
      <4> QED BY <4>3, <4>4, <4>5
    <3> QED BY <3>1, <3>2
  <2>3. part = PartialSums(f, part, T)
    <3>1. ASSUME NEW s \in SUBSET T, s # {}
          PROVE  part[s] = f[Chosen(s)] + part[s \ {Chosen(s)}]
      <4>1. s \ {Chosen(s)} \in SUBSET T /\ s \ {Chosen(s)} # T
        BY <3>1, ChosenIn
      <4>2. part[s \ {Chosen(s)}] = Solution(f, s \ {Chosen(s)})[s \ {Chosen(s)}]
        <5> HIDE DEF part
        <5> QED BY <2>2, <4>1
      <4> QED BY <3>1, <4>2
    <3>2. \A s \in SUBSET T :
            part[s] = PartialSums(f, part, T)[s]
      BY <3>1 DEF PartialSums
    <3> QED BY <3>2 DEF PartialSums
  <2> HIDE DEF part
  <2> QED BY <2>3
<1>2. \A T \in SUBSET S : T \in G
  <2> HIDE DEF G
  <2> QED BY <1>1, SubsetInduction
<1> QED BY <1>2

LEMMA SolutionSolves ==
  ASSUME NEW f, NEW S, IsFiniteSet(S)
  PROVE  Solution(f, S) = PartialSums(f, Solution(f, S), S)
<1>1. \E g : g = PartialSums(f, g, S)
  BY SolutionExists
<1> QED BY <1>1, Zenon DEF Solution

----------------------------------------------------------------------------
(* Finite sets of numbers.                                                 *)
LEMMA LargestNumber ==
  ASSUME NEW S \in SUBSET Nat, IsFiniteSet(S), S # {}
  PROVE  Max(S) \in S
<1> DEFINE Has(T) == \E x \in T : \A y \in T : x >= y
           G == {T \in SUBSET S : T = {} \/ Has(T)}
<1>1. ASSUME NEW T \in SUBSET S, \A U \in SUBSET T : U # T => U \in G
      PROVE  T \in G
  <2> SUFFICES ASSUME T # {} PROVE Has(T)
    OBVIOUS
  <2>1. PICK e \in T : TRUE
    OBVIOUS
  <2>2. T \ {e} \in G
    BY <1>1, <2>1
  <2>3. CASE T \ {e} = {}
    <3>1. \A y \in T : y = e
      BY <2>3
    <3>2. e \in Nat
      OBVIOUS
    <3> QED BY <3>1, <3>2
  <2>4. CASE Has(T \ {e})
    <3>1. PICK x \in T \ {e} : \A y \in T \ {e} : x >= y
      BY <2>4
    <3>2. x \in Nat /\ e \in Nat
      OBVIOUS
    <3>3. (\A y \in T : x >= y) \/ (\A y \in T : e >= y)
      <4>1. CASE x >= e
        BY <3>1, <4>1
      <4>2. CASE e >= x
        <5>1. \A y \in T \ {e} : y \in Nat /\ x >= y
          BY <3>1
        <5> QED BY <3>2, <4>2, <5>1
      <4> QED BY <3>2, <4>1, <4>2
    <3> QED BY <3>3
  <2> QED BY <2>2, <2>3, <2>4
<1>2. \A T \in SUBSET S : T \in G
  <2> HIDE DEF G
  <2> QED BY <1>1, SubsetInduction
<1>3. Has(S)
  BY <1>2
<1> QED BY <1>3 DEF Max

LEMMA FiniteImage ==
  ASSUME NEW S, IsFiniteSet(S), NEW f
  PROVE  IsFiniteSet({f[x] : x \in S})
<1> DEFINE T == {f[x] : x \in S}
           g == [x \in S |-> f[x]]
<1>1. g \in Surjection(S, T)
  BY DEF Surjection
<1> HIDE DEF g, T
<1>2. IsFiniteSet(T)
  BY <1>1, FS_Surjection
<1> QED BY <1>2 DEF T

LEMMA SmallestNumber ==
  ASSUME NEW S \in SUBSET Nat, S # {}
  PROVE  Min(S) \in S /\ \A y \in S : Min(S) <= y
<1>1. \E x \in S : \A y \in S : ~(<<y, x>> \in OpToRel(<, Nat))
  BY NatLessThanWellFounded, WFMin
<1>2. OpToRel(<, Nat) = {p \in Nat \X Nat : p[1] < p[2]}
  BY DEF OpToRel
<1>3. \E x \in S : \A y \in S : x <= y
  <2> DEFINE R == OpToRel(<, Nat)
  <2>1. PICK x \in S : \A y \in S : ~(<<y, x>> \in R)
    BY <1>1
  <2>2. R = {p \in Nat \X Nat : p[1] < p[2]}
    BY <1>2
  <2> HIDE DEF R
  <2>3. ASSUME NEW y \in S PROVE x <= y
    <3>1. x \in Nat /\ y \in Nat
      OBVIOUS
    <3>2. ~(<<y, x>> \in Nat \X Nat /\ <<y, x>>[1] < <<y, x>>[2])
      BY <2>1, <2>2
    <3>3. ~(y < x)
      BY <3>1, <3>2
    <3> QED BY <3>1, <3>3
  <2> QED BY <2>3
<1> QED BY <1>3 DEF Min

(* Where an element stands in an order of a finite set: the places are the *)
(* numbers up to its size, each taken once, and they are in that order.    *)
Placing(S, R) == [i \in S |-> Cardinality({j \in S : <<j, i>> \in R})]

LEMMA Places ==
  ASSUME NEW S, IsFiniteSet(S), NEW R,
         \A i, j \in S : <<i, j>> \in R \/ <<j, i>> \in R,
         \A i, j \in S : <<i, j>> \in R /\ <<j, i>> \in R => i = j,
         \A i, j, k \in S : <<i, j>> \in R /\ <<j, k>> \in R => <<i, k>> \in R
  PROVE  LET place == Placing(S, R)
         IN  /\ Cardinality(S) \in Nat /\ place \in [S -> 1 .. Cardinality(S)]
             /\ \A p \in 1 .. Cardinality(S) : \E i \in S : place[i] = p
             /\ \A i, j \in S : place[i] <= place[j] <=> <<i, j>> \in R
<1> DEFINE place == Placing(S, R)
           Upto(i) == {j \in S : <<j, i>> \in R}
           n == Cardinality(S)
<1>1. n \in Nat
  BY FS_CardinalityType
<1>2. ASSUME NEW i \in S
      PROVE  /\ IsFiniteSet(Upto(i)) /\ place[i] = Cardinality(Upto(i))
             /\ place[i] \in 1 .. n
  <2>1. i \in Upto(i) /\ Upto(i) \in SUBSET S /\ place[i] = Cardinality(Upto(i))
    BY DEF Placing
  <2> HIDE DEF Upto
  <2>2. IsFiniteSet(Upto(i)) /\ Cardinality(Upto(i)) <= n
    BY <2>1, FS_Subset
  <2>3. Cardinality(Upto(i)) \in Nat /\ Cardinality(Upto(i)) # 0
    BY <2>1, <2>2, FS_EmptySet, FS_CardinalityType
  <2> QED BY <1>1, <2>1, <2>2, <2>3
<1>3. ASSUME NEW i \in S, NEW j \in S, <<i, j>> \in R
      PROVE  place[i] <= place[j] /\ (i # j => place[i] # place[j])
  <2>1. Upto(i) \in SUBSET Upto(j) /\ (i # j => j \in Upto(j) /\ j \notin Upto(i))
    BY <1>3
  <2>2. IsFiniteSet(Upto(j)) /\ place[i] = Cardinality(Upto(i)) /\ place[j] = Cardinality(Upto(j))
    BY <1>2
  <2> HIDE DEF Upto
  <2>3. /\ Cardinality(Upto(i)) <= Cardinality(Upto(j))
        /\ Cardinality(Upto(j)) = Cardinality(Upto(i)) => Upto(j) = Upto(i)
    BY <2>1, <2>2, FS_Subset
  <2> QED BY <2>1, <2>2, <2>3
<1>4. \A i, j \in S : place[i] = place[j] => i = j
  BY <1>3
<1>5. \A i, j \in S : place[i] <= place[j] <=> <<i, j>> \in R
  <2> SUFFICES ASSUME NEW i \in S, NEW j \in S, place[i] <= place[j], <<j, i>> \in R
               PROVE  <<i, j>> \in R
    BY <1>3
  <2>1. place[j] <= place[i] /\ place[i] \in 1 .. n /\ place[j] \in 1 .. n
    BY <1>2, <1>3
  <2> HIDE DEF Upto, n
  <2>2. place[j] = place[i]
    BY <1>1, <2>1
  <2>3. i = j
    BY <1>4, <2>2
  <2> QED BY <2>3
<1>6. place \in [S -> 1 .. n]
  BY <1>2 DEF Placing
<1>7. \A p \in 1 .. n : \E i \in S : place[i] = p
  <2>1. place \in Injection(S, 1 .. n)
    BY <1>4, <1>6 DEF Injection, IsInjective
  <2>2. IsFiniteSet(1 .. n) /\ Cardinality(1 .. n) = n
    BY <1>1, FS_Interval
  <2> HIDE DEF n
  <2>3. Cardinality(S) = Cardinality(1 .. n) <=> place \in Surjection(S, 1 .. n)
    BY <2>1, <2>2, FS_Injection
  <2>4. place \in Surjection(S, 1 .. n)
    BY <2>2, <2>3 DEF n
  <2> QED BY <2>4 DEF Surjection
<1> QED BY <1>1, <1>5, <1>6, <1>7

----------------------------------------------------------------------------
LEMMA SumEmpty ==
  ASSUME NEW f
  PROVE  SumOver(f, {}) = 0
<1>1. Solution(f, {}) = PartialSums(f, Solution(f, {}), {})
  BY SolutionSolves, FS_EmptySet
<1> QED BY <1>1, SumIsSolution DEF PartialSums

LEMMA SumChosen ==
  ASSUME NEW f, NEW S, IsFiniteSet(S), S # {}
  PROVE  SumOver(f, S) = f[Chosen(S)] + SumOver(f, S \ {Chosen(S)})
<1> DEFINE T == S \ {Chosen(S)}
<1>1. Solution(f, S) = PartialSums(f, Solution(f, S), S)
  BY SolutionSolves
<1>2. IsFiniteSet(T) /\ T \in SUBSET S
  BY FS_Subset
<1>3. Solution(f, T) = PartialSums(f, Solution(f, T), T)
  <2> HIDE DEF T
  <2> QED BY <1>2, SolutionSolves
<1>4. Solution(f, S)[T] = Solution(f, T)[T]
  <2> HIDE DEF T
  <2> QED BY <1>1, <1>2, <1>3, SolutionsAgree
<1>5. Solution(f, S)[S] = f[Chosen(S)] + Solution(f, S)[T]
  BY <1>1 DEF PartialSums
<1> QED BY <1>4, <1>5, SumIsSolution

(* The weights may be given in any way that agrees on the set.             *)
LEMMA SumSame ==
  ASSUME NEW S, NEW f, NEW g, \A x \in S : f[x] = g[x]
  PROVE  SumOver(f, S) = SumOver(g, S)
<1>1. \A h : PartialSums(f, h, S) = PartialSums(g, h, S)
  BY ChosenIn DEF PartialSums
<1>2. Solution(f, S) = Solution(g, S)
  BY <1>1, Zenon DEF Solution
<1> QED BY <1>2, SumIsSolution

(* The sums of the ledgers.                                                *)
LEMMA SumOfQuantities ==
  ASSUME NEW D, NEW S \in SUBSET D
  PROVE  MapThenSumSet(LAMBDA t : t.qty, S) = SumOver([t \in D |-> t.qty], S)
<1> DEFINE f == [t \in D |-> t.qty]
           weighed(h) == [s \in SUBSET S |->
             IF s = {} THEN 0 ELSE Chosen(s).qty + h[s \ {Chosen(s)}]]
<1>1. MapThenSumSet(LAMBDA t : t.qty, S) = (CHOOSE h : h = weighed(h))[S]
  BY DEF MapThenSumSet, MapThenFoldSet, Chosen
<1>2. \A h : weighed(h) = PartialSums(f, h, S)
  BY ChosenIn DEF PartialSums
<1>3. (CHOOSE h : h = weighed(h)) = Solution(f, S)
  <2> HIDE DEF weighed, f
  <2> QED BY <1>2, Zenon DEF Solution
<1> QED BY <1>1, <1>3, SumIsSolution

LEMMA SumInt ==
  ASSUME NEW f, NEW S, IsFiniteSet(S), \A x \in S : f[x] \in Int
  PROVE  SumOver(f, S) \in Int
<1> DEFINE G == {T \in SUBSET S : SumOver(f, T) \in Int}
<1>1. ASSUME NEW T \in SUBSET S, \A U \in SUBSET T : U # T => U \in G
      PROVE  T \in G
  <2>1. CASE T = {}
    BY <2>1, SumEmpty
  <2>2. CASE T # {}
    <3>1. IsFiniteSet(T)
      BY FS_Subset
    <3>2. SumOver(f, T) = f[Chosen(T)] + SumOver(f, T \ {Chosen(T)})
      BY <2>2, <3>1, SumChosen
    <3>3. T \ {Chosen(T)} \in G /\ f[Chosen(T)] \in Int
      BY <1>1, <2>2, ChosenIn
    <3> QED BY <3>2, <3>3
  <2> QED BY <2>1, <2>2
<1>2. \A T \in SUBSET S : T \in G
  <2> HIDE DEF G
  <2> QED BY <1>1, SubsetInduction
<1> QED BY <1>2

(* Any element may be the one that is taken out first.                     *)
LEMMA SumRemove ==
  ASSUME NEW f, NEW S, IsFiniteSet(S), \A x \in S : f[x] \in Int, NEW x \in S
  PROVE  SumOver(f, S) = f[x] + SumOver(f, S \ {x})
<1> DEFINE G == {T \in SUBSET S :
                   \A y \in T : SumOver(f, T) = f[y] + SumOver(f, T \ {y})}
<1>1. ASSUME NEW T \in SUBSET S, \A U \in SUBSET T : U # T => U \in G, NEW y \in T
      PROVE  SumOver(f, T) = f[y] + SumOver(f, T \ {y})
  <2> DEFINE c == Chosen(T)
  <2>1. IsFiniteSet(T) /\ c \in T
    BY FS_Subset, ChosenIn
  <2>2. SumOver(f, T) = f[c] + SumOver(f, T \ {c})
    BY <2>1, SumChosen
  <2>3. CASE y = c
    BY <2>2, <2>3
  <2>4. CASE y # c
    <3>1. SumOver(f, T \ {c}) = f[y] + SumOver(f, (T \ {c}) \ {y})
      BY <1>1, <2>1, <2>4
    <3>2. SumOver(f, T \ {y}) = f[c] + SumOver(f, (T \ {y}) \ {c})
      BY <1>1, <2>1, <2>4
    <3>3. (T \ {c}) \ {y} = (T \ {y}) \ {c}
      OBVIOUS
    <3>4. SumOver(f, (T \ {c}) \ {y}) \in Int /\ f[y] \in Int /\ f[c] \in Int
      <4>1. IsFiniteSet((T \ {c}) \ {y})
        BY <2>1, FS_Subset
      <4> QED BY <2>1, <4>1, SumInt
    <3>5. SumOver(f, T \ {y}) = f[c] + SumOver(f, (T \ {c}) \ {y})
      BY <3>2, <3>3
    <3>6. SumOver(f, T) = f[c] + (f[y] + SumOver(f, (T \ {c}) \ {y}))
      BY <2>2, <3>1
    <3> HIDE DEF c
    <3> QED BY <3>4, <3>5, <3>6
  <2> QED BY <2>3, <2>4
<1>2. \A T \in SUBSET S : T \in G
  <2>1. ASSUME NEW T \in SUBSET S, \A U \in SUBSET T : U # T => U \in G
        PROVE  T \in G
    BY <1>1, <2>1
  <2> HIDE DEF G
  <2> QED BY <2>1, SubsetInduction
<1> QED BY <1>2

LEMMA SumAdd ==
  ASSUME NEW f, NEW S, IsFiniteSet(S), NEW x, x \notin S,
         \A y \in S \cup {x} : f[y] \in Int
  PROVE  SumOver(f, S \cup {x}) = SumOver(f, S) + f[x]
<1> DEFINE T == S \cup {x}
<1>1. IsFiniteSet(T) /\ T \ {x} = S
  BY FS_AddElement
<1>2. SumOver(f, T) = f[x] + SumOver(f, T \ {x})
  <2> HIDE DEF T
  <2>1. x \in T /\ \A y \in T : f[y] \in Int
    BY DEF T
  <2> QED BY <1>1, <2>1, SumRemove
<1>3. SumOver(f, S) \in Int
  BY SumInt
<1>4. SumOver(f, S \cup {x}) = f[x] + SumOver(f, S)
  BY <1>1, <1>2
<1>5. f[x] \in Int
  OBVIOUS
<1> QED BY <1>3, <1>4, <1>5

LEMMA SumAtMost ==
  ASSUME NEW f, NEW g, NEW S, IsFiniteSet(S),
         \A x \in S : f[x] \in Int /\ g[x] \in Int /\ f[x] <= g[x]
  PROVE  SumOver(f, S) <= SumOver(g, S)
<1> DEFINE G == {T \in SUBSET S : SumOver(f, T) <= SumOver(g, T)}
<1>1. ASSUME NEW T \in SUBSET S, \A U \in SUBSET T : U # T => U \in G
      PROVE  T \in G
  <2>1. CASE T = {}
    BY <2>1, SumEmpty
  <2>2. CASE T # {}
    <3> DEFINE c == Chosen(T)
               U == T \ {c}
    <3>1. IsFiniteSet(T) /\ IsFiniteSet(U) /\ U \in G /\ c \in S
      BY <1>1, <2>2, FS_Subset, ChosenIn
    <3>2. SumOver(f, T) = f[c] + SumOver(f, U) /\ SumOver(g, T) = g[c] + SumOver(g, U)
      BY <2>2, <3>1, SumChosen
    <3>3. SumOver(f, U) \in Int /\ SumOver(g, U) \in Int
      <4>1. \A x \in U : f[x] \in Int /\ g[x] \in Int
        OBVIOUS
      <4> HIDE DEF U
      <4> QED BY <3>1, <4>1, SumInt
    <3> HIDE DEF c, U
    <3> QED BY <3>1, <3>2, <3>3
  <2> QED BY <2>1, <2>2
<1>2. \A T \in SUBSET S : T \in G
  <2> HIDE DEF G
  <2> QED BY <1>1, SubsetInduction
<1> QED BY <1>2

LEMMA SumPlus ==
  ASSUME NEW f, NEW g, NEW S, IsFiniteSet(S),
         \A x \in S : f[x] \in Int /\ g[x] \in Int
  PROVE  SumOver([x \in S |-> f[x] + g[x]], S) = SumOver(f, S) + SumOver(g, S)
<1> DEFINE h == [x \in S |-> f[x] + g[x]]
           G == {T \in SUBSET S : SumOver(h, T) = SumOver(f, T) + SumOver(g, T)}
<1>1. ASSUME NEW T \in SUBSET S, \A U \in SUBSET T : U # T => U \in G
      PROVE  T \in G
  <2>1. CASE T = {}
    BY <2>1, SumEmpty
  <2>2. CASE T # {}
    <3> DEFINE c == Chosen(T)
               U == T \ {c}
    <3>1. IsFiniteSet(T) /\ IsFiniteSet(U) /\ U \in G /\ c \in S
      BY <1>1, <2>2, FS_Subset, ChosenIn
    <3>2. /\ SumOver(f, T) = f[c] + SumOver(f, U)
          /\ SumOver(g, T) = g[c] + SumOver(g, U)
          /\ SumOver(h, T) = h[c] + SumOver(h, U)
      <4> HIDE DEF h
      <4> QED BY <2>2, <3>1, SumChosen
    <3>3. SumOver(f, U) \in Int /\ SumOver(g, U) \in Int
      <4>1. \A x \in U : f[x] \in Int /\ g[x] \in Int
        OBVIOUS
      <4> HIDE DEF U
      <4> QED BY <3>1, <4>1, SumInt
    <3>4. h[c] = f[c] + g[c] /\ f[c] \in Int /\ g[c] \in Int
      BY <3>1
    <3>5. SumOver(h, U) = SumOver(f, U) + SumOver(g, U)
      BY <3>1
    <3> HIDE DEF c, U, h
    <3>6. SumOver(h, T) = SumOver(f, T) + SumOver(g, T)
      BY <3>2, <3>3, <3>4, <3>5
    <3> QED BY <3>6
  <2> QED BY <2>1, <2>2
<1>2. \A T \in SUBSET S : T \in G
  <2> HIDE DEF G
  <2> QED BY <1>1, SubsetInduction
<1> QED BY <1>2

(* A sum over a part is one over the whole, with weights of zero.          *)
LEMMA SumWhere ==
  ASSUME NEW f, NEW S, IsFiniteSet(S), \A x \in S : f[x] \in Int, NEW P \in SUBSET S
  PROVE  SumOver(f, P) = SumOver([x \in S |-> IF x \in P THEN f[x] ELSE 0], S)
<1> DEFINE h == [x \in S |-> IF x \in P THEN f[x] ELSE 0]
           G == {T \in SUBSET S : SumOver(f, T \cap P) = SumOver(h, T)}
<1>1. ASSUME NEW T \in SUBSET S, \A U \in SUBSET T : U # T => U \in G
      PROVE  T \in G
  <2>1. CASE T = {}
    <3>1. T \cap P = {}
      BY <2>1
    <3> QED BY <2>1, <3>1, SumEmpty
  <2>2. CASE T # {}
    <3> DEFINE c == Chosen(T)
               U == T \ {c}
    <3>1. IsFiniteSet(T) /\ IsFiniteSet(T \cap P) /\ U \in G /\ c \in S /\ c \in T
      BY <1>1, <2>2, FS_Subset, ChosenIn
    <3>2. SumOver(h, T) = h[c] + SumOver(h, U)
      <4> HIDE DEF h
      <4> QED BY <2>2, <3>1, SumChosen
    <3>3. SumOver(f, U \cap P) = SumOver(h, U)
      BY <3>1
    <3>4. SumOver(h, U) \in Int
      <4>1. \A x \in U : h[x] \in Int
        OBVIOUS
      <4>2. IsFiniteSet(U)
        BY <3>1, FS_Subset
      <4> HIDE DEF U, h
      <4> QED BY <4>1, <4>2, SumInt
    <3>5. CASE c \in P
      <4>1. (T \cap P) \ {c} = U \cap P /\ c \in T \cap P
        BY <3>1, <3>5
      <4>2. SumOver(f, T \cap P) = f[c] + SumOver(f, (T \cap P) \ {c})
        <5>1. \A x \in T \cap P : f[x] \in Int
          OBVIOUS
        <5> HIDE DEF c
        <5> QED BY <3>1, <4>1, <5>1, SumRemove
      <4>3. h[c] = f[c]
        BY <3>1, <3>5
      <4> HIDE DEF c, U, h
      <4>4. SumOver(f, T \cap P) = SumOver(h, T)
        BY <3>2, <3>3, <4>1, <4>2, <4>3
      <4> QED BY <4>4
    <3>6. CASE c \notin P
      <4>1. T \cap P = U \cap P
        BY <3>6
      <4>2. h[c] = 0
        BY <3>1, <3>6
      <4> HIDE DEF c, U, h
      <4>3. SumOver(f, T \cap P) = SumOver(h, T)
        BY <3>2, <3>3, <3>4, <4>1, <4>2
      <4> QED BY <4>3
    <3> QED BY <3>5, <3>6
  <2> QED BY <2>1, <2>2
<1>2. \A T \in SUBSET S : T \in G
  <2> HIDE DEF G
  <2> QED BY <1>1, SubsetInduction
<1>3. S \in G /\ S \cap P = P
  BY <1>2
<1> QED BY <1>3

(* One weight changes.                                                     *)
LEMMA SumChange ==
  ASSUME NEW f, NEW g, NEW S, IsFiniteSet(S), NEW x \in S,
         \A y \in S : f[y] \in Int /\ g[y] \in Int,
         \A y \in S : y # x => f[y] = g[y]
  PROVE  SumOver(g, S) = SumOver(f, S) + (g[x] - f[x])
<1> DEFINE T == S \ {x}
<1>1. SumOver(f, S) = f[x] + SumOver(f, T) /\ SumOver(g, S) = g[x] + SumOver(g, T)
  BY SumRemove
<1>2. SumOver(f, T) = SumOver(g, T)
  BY SumSame
<1>3. SumOver(f, T) \in Int
  <2>1. IsFiniteSet(T)
    BY FS_Subset
  <2> QED BY <2>1, SumInt
<1> HIDE DEF T
<1>4. f[x] \in Int /\ g[x] \in Int
  OBVIOUS
<1> QED BY <1>1, <1>2, <1>3, <1>4

LEMMA SumSingle ==
  ASSUME NEW f, NEW x, f[x] \in Int
  PROVE  SumOver(f, {x}) = f[x]
<1>1. SumOver(f, {x}) = f[x] + SumOver(f, {x} \ {x})
  <2>1. IsFiniteSet({x})
    BY FS_Singleton
  <2> QED BY <2>1, SumRemove
<1>2. {x} \ {x} = {}
  OBVIOUS
<1> QED BY <1>1, <1>2, SumEmpty

(* A part of a sum of naturals.                                            *)
LEMMA SumPart ==
  ASSUME NEW f, NEW S, IsFiniteSet(S), \A x \in S : f[x] \in Nat, NEW P \in SUBSET S
  PROVE  SumOver(f, P) \in Nat /\ SumOver(f, P) <= SumOver(f, S)
<1> DEFINE z == [x \in S |-> 0]
           p == [x \in S |-> IF x \in P THEN f[x] ELSE 0]
<1>1. SumOver(f, P) = SumOver(p, S)
  BY SumWhere
<1>3. SumOver(z, S) = 0
  <2> DEFINE none == {}
             e == [x \in S |-> IF x \in none THEN f[x] ELSE 0]
  <2>1. SumOver(f, none) = SumOver(e, S)
    <3>1. none \in SUBSET S /\ \A x \in S : f[x] \in Int
      OBVIOUS
    <3> HIDE DEF none
    <3> QED BY <3>1, SumWhere
  <2>2. \A x \in S : e[x] = z[x]
    OBVIOUS
  <2>3. SumOver(e, S) = SumOver(z, S)
    <3> HIDE DEF e, z
    <3> QED BY <2>2, SumSame
  <2> QED BY <2>1, <2>3, SumEmpty
<1>4. \A x \in S : p[x] \in Int /\ z[x] \in Int /\ f[x] \in Int /\ z[x] <= p[x] /\ p[x] <= f[x]
  OBVIOUS
<1> HIDE DEF z, p
<1>5. SumOver(z, S) <= SumOver(p, S) /\ SumOver(p, S) <= SumOver(f, S)
  BY <1>4, SumAtMost
<1>6. SumOver(p, S) \in Int
  BY <1>4, SumInt
<1> QED BY <1>1, <1>3, <1>5, <1>6

(* The elements may be named differently.                                  *)
LEMMA SumImage ==
  ASSUME NEW f, NEW g, NEW h, NEW S, IsFiniteSet(S),
         \A x \in S : f[x] \in Int /\ g[h[x]] = f[x],
         \A x, y \in S : h[x] = h[y] => x = y
  PROVE  SumOver(f, S) = SumOver(g, {h[x] : x \in S})
<1> DEFINE image(T) == {h[x] : x \in T}
           G == {T \in SUBSET S : SumOver(f, T) = SumOver(g, image(T)) /\ IsFiniteSet(image(T))}
<1>1. ASSUME NEW T \in SUBSET S, \A U \in SUBSET T : U # T => U \in G
      PROVE  T \in G
  <2>1. CASE T = {}
    <3>1. image(T) = {}
      BY <2>1
    <3> QED BY <2>1, <3>1, SumEmpty, FS_EmptySet
  <2>2. CASE T # {}
    <3> DEFINE c == Chosen(T)
               U == T \ {c}
    <3>1. IsFiniteSet(T) /\ U \in G /\ c \in T /\ c \in S
      BY <1>1, <2>2, FS_Subset, ChosenIn
    <3>2. SumOver(f, T) = f[c] + SumOver(f, U)
      BY <2>2, <3>1, SumChosen
    <3>3. image(T) = image(U) \cup {h[c]} /\ h[c] \notin image(U)
      BY <3>1
    <3>4. SumOver(f, U) = SumOver(g, image(U)) /\ IsFiniteSet(image(U))
      BY <3>1
    <3>5. IsFiniteSet(image(U) \cup {h[c]})
      BY <3>4, FS_AddElement
    <3>6. \A y \in image(U) \cup {h[c]} : g[y] \in Int
      BY <3>1
    <3>7. g[h[c]] = f[c] /\ f[c] \in Int
      BY <3>1
    <3>8. SumOver(f, U) \in Int
      <4>1. IsFiniteSet(U) /\ \A x \in U : f[x] \in Int
        BY <3>1, FS_Subset
      <4> HIDE DEF U
      <4> QED BY <4>1, SumInt
    <3> DEFINE V == image(U)
               d == h[c]
    <3>9. SumOver(g, V \cup {d}) = SumOver(g, V) + g[d]
      <4>1. IsFiniteSet(V) /\ d \notin V /\ \A y \in V \cup {d} : g[y] \in Int
        BY <3>3, <3>4, <3>6
      <4> HIDE DEF V, d
      <4> QED BY <4>1, SumAdd
    <3>10. SumOver(f, T) = SumOver(g, image(T))
      <4> HIDE DEF c, U, image
      <4> QED BY <3>2, <3>3, <3>4, <3>7, <3>8, <3>9
    <3>11. IsFiniteSet(image(T))
      <4> HIDE DEF c, U, image
      <4> QED BY <3>3, <3>5
    <3> QED BY <3>10, <3>11
  <2> QED BY <2>1, <2>2
<1>2. \A T \in SUBSET S : T \in G
  <2> HIDE DEF G
  <2> QED BY <1>1, SubsetInduction
<1> QED BY <1>2
=============================================================================
