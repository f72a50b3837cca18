--------------------------- MODULE DataInduction ---------------------------
(***************************************************************************)
(* Lemmas about the data of the models, which the proofs share: induction  *)
(* over the naturals, and what the recursive functions of the library and  *)
(* of the models compute.                                                   *)
(*                                                                         *)
(* A set of naturals stands for the property that is proved by induction:  *)
(* a set can be a bound variable of a lemma where the provers do not find  *)
(* the instance of an operator.                                             *)
(***************************************************************************)
EXTENDS Integers, Sequences, FiniteSets, FiniteSetsExt, FiniteSetTheorems, WellFoundedInduction, TLAPS

(* A set of naturals with an element has a smallest one.                   *)
LEMMA LeastNatural ==
    ASSUME NEW T, T \subseteq Nat, T # {}
    PROVE  \E x \in T : \A y \in T : x <= y
<1> DEFINE R == {ss \in Nat \X Nat : ss[1] < ss[2]}
<1>1. \A x, y \in Nat : <<y, x>> \in R <=> y < x OBVIOUS
<1>2. IsWellFoundedOn(R, Nat)
  <2>1. IsWellFoundedOn(OpToRel(<, Nat), Nat) BY NatLessThanWellFounded
  <2>2. OpToRel(<, Nat) = R BY DEF OpToRel
  <2> QED BY <2>1, <2>2
<1> HIDE DEF R
<1>3. PICK x \in T : \A y \in T : ~(<<y, x>> \in R) BY <1>2, WFMin
<1>4. \A y \in T : ~(y < x) BY <1>1, <1>3
<1>5. \A y \in T : x <= y BY <1>4
<1> QED BY <1>5

(* Induction: a set with 0 that has every successor has all naturals.      *)
LEMMA NaturalsGrow ==
    ASSUME NEW T, 0 \in T, \A n \in Nat : n \in T => n + 1 \in T
    PROVE  Nat \subseteq T
<1> SUFFICES ASSUME Nat \ T # {} PROVE FALSE OBVIOUS
<1>1. PICK x \in Nat \ T : \A y \in Nat \ T : x <= y BY LeastNatural
<1>2. x # 0 /\ x - 1 \in Nat OBVIOUS
<1>3. x - 1 \in T BY <1>1, <1>2
<1>4. (x - 1) + 1 \in T BY <1>2, <1>3
<1> QED BY <1>4
-----------------------------------------------------------------------------
(* Recursion over the naturals                                             *)

Recurses(base, step, n, f) ==
    /\ f[0] = base
    /\ \A i \in 1 .. n : f[i] = step[i][f[i - 1]]

(* Functions of one recursion agree where both are defined.                *)
LEMMA RecursionsAgree ==
    ASSUME NEW base, NEW step, NEW m \in Nat, NEW n \in Nat, m <= n,
           NEW f, Recurses(base, step, m, f), NEW g, Recurses(base, step, n, g)
    PROVE  \A i \in 0 .. m : f[i] = g[i]
<1> DEFINE T == {i \in Nat : i <= m => f[i] = g[i]}
<1>1. 0 \in T BY DEF Recurses
<1>2. \A i \in Nat : i \in T => i + 1 \in T
  <2> SUFFICES ASSUME NEW i \in Nat, i \in T, i + 1 <= m PROVE f[i + 1] = g[i + 1] OBVIOUS
  <2>1. f[i] = g[i] OBVIOUS
  <2>2. i + 1 \in 1 .. m /\ i + 1 \in 1 .. n /\ (i + 1) - 1 = i OBVIOUS
  <2>3. f[i + 1] = step[i + 1][f[(i + 1) - 1]] BY <2>2 DEF Recurses
  <2>4. g[i + 1] = step[i + 1][g[(i + 1) - 1]] BY <2>2 DEF Recurses
  <2> QED BY <2>1, <2>2, <2>3, <2>4
<1>3. Nat \subseteq T
  <2> HIDE DEF T
  <2> QED BY <1>1, <1>2, NaturalsGrow
<1> QED BY <1>3

(* A value for 0 and a step for each later number make a function.         *)
LEMMA RecursionExists ==
    ASSUME NEW D, NEW base \in D, NEW step \in [Nat -> [D -> D]]
    PROVE  \E f \in [Nat -> D] : \A n \in Nat : Recurses(base, step, n, f)
<1> DEFINE T == {n \in Nat : \E f \in [0 .. n -> D] : Recurses(base, step, n, f)}
<1>1. 0 \in T
  <2> DEFINE f == [i \in 0 .. 0 |-> base]
  <2>1. f \in [0 .. 0 -> D] OBVIOUS
  <2>2. Recurses(base, step, 0, f) BY DEF Recurses
  <2> HIDE DEF f
  <2> QED BY <2>1, <2>2
<1>2. \A n \in Nat : n \in T => n + 1 \in T
  <2> SUFFICES ASSUME NEW n \in Nat, n \in T PROVE n + 1 \in T OBVIOUS
  <2>1. PICK f \in [0 .. n -> D] : Recurses(base, step, n, f) OBVIOUS
  <2> DEFINE g == [i \in 0 .. n + 1 |-> IF i = n + 1 THEN step[n + 1][f[n]] ELSE f[i]]
  <2>2. g \in [0 .. n + 1 -> D]
    <3>1. f[n] \in D /\ step[n + 1] \in [D -> D] OBVIOUS
    <3>2. \A i \in 0 .. n + 1 : i # n + 1 => i \in 0 .. n OBVIOUS
    <3> QED BY <3>1, <3>2
  <2>3. Recurses(base, step, n + 1, g)
    <3>1. g[0] = base BY <2>1 DEF Recurses
    <3>2. ASSUME NEW i \in 1 .. n + 1 PROVE g[i] = step[i][g[i - 1]]
      <4>1. i - 1 \in 0 .. n /\ g[i - 1] = f[i - 1] OBVIOUS
      <4>2. CASE i = n + 1 BY <4>1, <4>2
      <4>3. CASE i # n + 1
        <5>1. i \in 1 .. n /\ g[i] = f[i] BY <4>3
        <5> QED BY <4>1, <5>1, <2>1 DEF Recurses
      <4> QED BY <4>2, <4>3
    <3> HIDE DEF g
    <3> QED BY <3>1, <3>2 DEF Recurses
  <2> HIDE DEF g
  <2> QED BY <2>2, <2>3
<1>3. Nat \subseteq T
  <2> HIDE DEF T
  <2> QED BY <1>1, <1>2, NaturalsGrow
<1> DEFINE Upto(n) == CHOOSE f \in [0 .. n -> D] : Recurses(base, step, n, f)
           f == [n \in Nat |-> Upto(n)[n]]
<1>4. \A n \in Nat : Upto(n) \in [0 .. n -> D] /\ Recurses(base, step, n, Upto(n)) BY <1>3
<1> HIDE DEF Upto
<1>5. f \in [Nat -> D]
  <2>1. \A n \in Nat : Upto(n)[n] \in D BY <1>4
  <2> QED BY <2>1
<1>6. \A n \in Nat : Recurses(base, step, n, f)
  <2> SUFFICES ASSUME NEW n \in Nat PROVE Recurses(base, step, n, f) OBVIOUS
  <2>1. \A i \in 0 .. n : f[i] = Upto(n)[i]
    <3> SUFFICES ASSUME NEW i \in 0 .. n PROVE Upto(i)[i] = Upto(n)[i] OBVIOUS
    <3>1. i \in Nat /\ i <= n /\ i \in 0 .. i OBVIOUS
    <3> QED BY <3>1, <1>4, RecursionsAgree
  <2> HIDE DEF f
  <2>2. Recurses(base, step, n, Upto(n)) BY <1>4
  <2>3. f[0] = base BY <2>1, <2>2 DEF Recurses
  <2>4. ASSUME NEW i \in 1 .. n PROVE f[i] = step[i][f[i - 1]]
    <3>1. i - 1 \in 0 .. n /\ i \in 0 .. n OBVIOUS
    <3> QED BY <3>1, <2>1, <2>2 DEF Recurses
  <2> QED BY <2>3, <2>4 DEF Recurses
<1> HIDE DEF f
<1> QED BY <1>5, <1>6
-----------------------------------------------------------------------------
(* Sums over finite sets (MapThenSumSet)                                   *)

SumOver(weight, set) == MapThenSumSet(LAMBDA x : weight[x], set)

Picked(set) == CHOOSE x \in set : TRUE
SumIn(weight, set, sums) ==
    \A s \in SUBSET set :
        sums[s] = IF s = {} THEN 0 ELSE weight[Picked(s)] + sums[s \ {Picked(s)}]

(* One element less.                                                       *)
LEMMA PickedRemoved ==
    ASSUME NEW s, IsFiniteSet(s), s # {}
    PROVE  /\ Picked(s) \in s /\ IsFiniteSet(s \ {Picked(s)})
           /\ Cardinality(s) \in Nat \ {0}
           /\ Cardinality(s \ {Picked(s)}) = Cardinality(s) - 1
<1>1. Picked(s) \in s BY DEF Picked
<1>2. Cardinality(s) \in Nat /\ Cardinality(s) # 0 BY FS_CardinalityType, FS_EmptySet
<1> QED BY <1>1, <1>2, FS_RemoveElement

(* By induction on the size: there is a function that sums every subset.   *)
LEMMA SumsExist ==
    ASSUME NEW set, IsFiniteSet(set), NEW weight \in [set -> Nat]
    PROVE  \E sums \in [SUBSET set -> Nat] : SumIn(weight, set, sums)
<1> DEFINE Small(n) == {s \in SUBSET set : Cardinality(s) <= n}
           Sums(n, f) == \A s \in Small(n) :
               f[s] = IF s = {} THEN 0 ELSE weight[Picked(s)] + f[s \ {Picked(s)}]
           T == {n \in Nat : \E f \in [Small(n) -> Nat] : Sums(n, f)}
<1>0. \A s \in SUBSET set : IsFiniteSet(s) /\ Cardinality(s) \in Nat BY FS_Subset, FS_CardinalityType
<1>a. \A s \in SUBSET set : s # {} => /\ Picked(s) \in s /\ Cardinality(s) # 0
                                      /\ Cardinality(s \ {Picked(s)}) = Cardinality(s) - 1
                                      /\ weight[Picked(s)] \in Nat
  BY <1>0, PickedRemoved
<1>1. 0 \in T
  <2>0. \A s \in SUBSET set : s # {} => ~(Cardinality(s) <= 0)
    <3> SUFFICES ASSUME NEW s \in SUBSET set, s # {} PROVE ~(Cardinality(s) <= 0) OBVIOUS
    <3>1. Cardinality(s) \in Nat /\ Cardinality(s) # 0 BY <1>0, <1>a
    <3> QED BY <3>1
  <2>1. \A s \in Small(0) : s = {} BY <2>0
  <2>2. [s \in Small(0) |-> 0] \in [Small(0) -> Nat] OBVIOUS
  <2>3. Sums(0, [s \in Small(0) |-> 0]) BY <2>1
  <2> QED BY <2>2, <2>3
<1>2. \A n \in Nat : n \in T => n + 1 \in T
  <2> SUFFICES ASSUME NEW n \in Nat, n \in T PROVE n + 1 \in T OBVIOUS
  <2>1. PICK f \in [Small(n) -> Nat] : Sums(n, f) OBVIOUS
  <2> DEFINE g == [s \in Small(n + 1) |->
                      IF s \in Small(n) THEN f[s] ELSE weight[Picked(s)] + f[s \ {Picked(s)}]]
  <2>2. \A s \in Small(n + 1) : s # {} => s \ {Picked(s)} \in Small(n) BY <1>0, <1>a
  <2>3. \A s \in Small(n + 1) \ Small(n) : s # {}
    <3>1. {} \in Small(n) BY FS_EmptySet
    <3> QED BY <3>1
  <2>4. Small(n) \subseteq Small(n + 1) BY <1>0
  <2>5. g \in [Small(n + 1) -> Nat]
    <3>1. \A s \in Small(n + 1) : g[s] \in Nat
      <4> SUFFICES ASSUME NEW s \in Small(n + 1) PROVE g[s] \in Nat OBVIOUS
      <4>1. CASE s \in Small(n) BY <4>1
      <4>2. CASE s \notin Small(n)
        <5>1. s # {} /\ s \ {Picked(s)} \in Small(n) BY <2>2, <2>3, <4>2
        <5>2. f[s \ {Picked(s)}] \in Nat /\ weight[Picked(s)] \in Nat BY <5>1, <1>a
        <5> QED BY <4>2, <5>2
      <4> QED BY <4>1, <4>2
    <3> QED BY <3>1
  <2>6. Sums(n + 1, g)
    <3> SUFFICES ASSUME NEW s \in Small(n + 1)
                 PROVE  g[s] = IF s = {} THEN 0 ELSE weight[Picked(s)] + g[s \ {Picked(s)}]
      OBVIOUS
    <3>1. CASE s = {}
      <4>1. s \in Small(n) BY <3>1, <2>3
      <4> QED BY <3>1, <4>1, <2>1
    <3>2. CASE s # {}
      <4>1. s \ {Picked(s)} \in Small(n) BY <2>2, <3>2
      <4>2. g[s \ {Picked(s)}] = f[s \ {Picked(s)}] BY <4>1, <2>4
      <4>3. CASE s \in Small(n) BY <3>2, <4>2, <4>3, <2>1
      <4>4. CASE s \notin Small(n) BY <3>2, <4>2, <4>4
      <4> QED BY <4>3, <4>4
    <3> QED BY <3>1, <3>2
  <2> HIDE DEF g, Sums, Small
  <2>7. \E h \in [Small(n + 1) -> Nat] : Sums(n + 1, h) BY <2>5, <2>6
  <2> QED BY <2>7
<1>3. Cardinality(set) \in T
  <2> HIDE DEF T
  <2>1. Nat \subseteq T BY <1>1, <1>2, NaturalsGrow
  <2> QED BY <2>1, FS_CardinalityType
<1>4. PICK f \in [Small(Cardinality(set)) -> Nat] : Sums(Cardinality(set), f) BY <1>3
<1>5. Small(Cardinality(set)) = SUBSET set BY FS_Subset
<1> QED BY <1>4, <1>5 DEF SumIn

(* Two such functions agree where both are defined.                        *)
LEMMA SumsAgree ==
    ASSUME NEW set, IsFiniteSet(set), NEW weight,
           NEW f, SumIn(weight, set, f), NEW g, SumIn(weight, set, g)
    PROVE  \A s \in SUBSET set : f[s] = g[s]
<1> DEFINE T == {n \in Nat : \A s \in SUBSET set : Cardinality(s) = n => f[s] = g[s]}
<1>0. \A s \in SUBSET set : IsFiniteSet(s) /\ Cardinality(s) \in Nat BY FS_Subset, FS_CardinalityType
<1>a. \A s \in SUBSET set : s # {} => /\ Cardinality(s) # 0 /\ s \ {Picked(s)} \in SUBSET set
                                      /\ Cardinality(s \ {Picked(s)}) = Cardinality(s) - 1
  BY <1>0, PickedRemoved
<1>1. 0 \in T
  <2>1. \A s \in SUBSET set : Cardinality(s) = 0 => s = {} BY <1>a
  <2> QED BY <2>1 DEF SumIn
<1>2. \A n \in Nat : n \in T => n + 1 \in T
  <2> SUFFICES ASSUME NEW n \in Nat, n \in T, NEW s \in SUBSET set, Cardinality(s) = n + 1
               PROVE  f[s] = g[s]
    OBVIOUS
  <2>1. s # {} BY FS_EmptySet
  <2>2. s \ {Picked(s)} \in SUBSET set /\ Cardinality(s \ {Picked(s)}) = n BY <1>a, <2>1
  <2>3. f[s \ {Picked(s)}] = g[s \ {Picked(s)}] BY <2>2
  <2> QED BY <2>1, <2>3 DEF SumIn
<1>3. Nat \subseteq T
  <2> HIDE DEF T
  <2> QED BY <1>1, <1>2, NaturalsGrow
<1> QED BY <1>0, <1>3

SumUnfolds(weight, s) ==
    /\ SumOver(weight, s) \in Nat
    /\ s = {} => SumOver(weight, s) = 0
    /\ s # {} => SumOver(weight, s) = weight[Picked(s)] + SumOver(weight, s \ {Picked(s)})

(* What the recursive definition comes to: the value for an element that   *)
(* CHOOSE picks, and the sum of the rest.                                   *)
LEMMA SumsUnfold ==
    ASSUME NEW set, IsFiniteSet(set), NEW weight \in [set -> Nat]
    PROVE  \A s \in SUBSET set : SumUnfolds(weight, s)
<1> DEFINE Iter(s, f) == f = [t \in SUBSET s |->
                                 IF t = {} THEN 0 ELSE weight[Picked(t)] + f[t \ {Picked(t)}]]
<1>1. \A s : SumOver(weight, s) = (CHOOSE f : Iter(s, f))[s]
  BY DEF SumOver, MapThenSumSet, MapThenFoldSet, Picked
<1>2. \A s \in SUBSET set : \E f \in [SUBSET s -> Nat] : /\ SumIn(weight, s, f)
                                                         /\ SumOver(weight, s) = f[s]
  <2> SUFFICES ASSUME NEW s \in SUBSET set
               PROVE  \E f \in [SUBSET s -> Nat] : SumIn(weight, s, f) /\ SumOver(weight, s) = f[s]
    OBVIOUS
  <2> DEFINE w == [x \in s |-> weight[x]]
  <2>1. IsFiniteSet(s) BY FS_Subset
  <2>2. w \in [s -> Nat] OBVIOUS
  <2>3. \E f \in [SUBSET s -> Nat] : SumIn(w, s, f)
    <3> HIDE DEF w
    <3> QED BY <2>1, <2>2, SumsExist
  <2>4. PICK f \in [SUBSET s -> Nat] : SumIn(w, s, f) BY <2>3
  <2>5. \A t \in SUBSET s : t # {} => Picked(t) \in s BY DEF Picked
  <2>6. Iter(s, f) BY <2>4, <2>5 DEF SumIn
  <2> DEFINE c == CHOOSE h : Iter(s, h)
  <2>7. Iter(s, c) BY <2>6
  <2> HIDE DEF c
  <2>8. SumIn(weight, s, c) BY <2>7 DEF SumIn
  <2>9. SumIn(weight, s, f) BY <2>4, <2>5 DEF SumIn
  <2>10. c[s] = f[s]
    <3>1. s \in SUBSET s OBVIOUS
    <3> QED BY <2>1, <2>8, <2>9, <3>1, SumsAgree
  <2>11. SumOver(weight, s) = f[s] BY <1>1, <2>10 DEF c
  <2> QED BY <2>9, <2>11
<1> HIDE DEF Iter
<1> SUFFICES ASSUME NEW s \in SUBSET set PROVE SumUnfolds(weight, s) OBVIOUS
<1>3. PICK f \in [SUBSET s -> Nat] : SumIn(weight, s, f) /\ SumOver(weight, s) = f[s] BY <1>2
<1>4. CASE s = {}
  <2>1. f[s] = 0
    <3>1. s \in SUBSET s OBVIOUS
    <3> QED BY <1>3, <1>4, <3>1 DEF SumIn
  <2> QED BY <1>3, <1>4, <2>1 DEF SumUnfolds
<1>5. CASE s # {}
  <2> DEFINE rest == s \ {Picked(s)}
  <2>1. rest \in SUBSET set /\ rest \in SUBSET s /\ IsFiniteSet(rest) BY FS_Subset
  <2>2. PICK g \in [SUBSET rest -> Nat] : SumIn(weight, rest, g) /\ SumOver(weight, rest) = g[rest]
    BY <1>2, <2>1
  <2>3. SumIn(weight, rest, f) BY <1>3, <2>1 DEF SumIn
  <2> HIDE DEF rest
  <2>4. f[rest] = g[rest]
    <3>1. rest \in SUBSET rest OBVIOUS
    <3> QED BY <2>1, <2>2, <2>3, <3>1, SumsAgree
  <2>5. f[s] = weight[Picked(s)] + f[rest] BY <1>3, <1>5 DEF SumIn, rest
  <2> QED BY <1>3, <1>5, <2>2, <2>4, <2>5 DEF rest, SumUnfolds
<1> QED BY <1>4, <1>5

(* It does not matter which element is picked.                             *)
LEMMA SumStep ==
    ASSUME NEW set, IsFiniteSet(set), NEW weight \in [set -> Nat]
    PROVE  \A s \in SUBSET set : \A x \in s :
               SumOver(weight, s) = weight[x] + SumOver(weight, s \ {x})
<1> DEFINE T == {n \in Nat : \A s \in SUBSET set : Cardinality(s) = n =>
                     \A y \in s : SumOver(weight, s) = weight[y] + SumOver(weight, s \ {y})}
<1>0. \A s \in SUBSET set : IsFiniteSet(s) /\ Cardinality(s) \in Nat BY FS_Subset, FS_CardinalityType
<1>a. \A s \in SUBSET set :
          /\ SumOver(weight, s) \in Nat
          /\ s # {} => SumOver(weight, s) = weight[Picked(s)] + SumOver(weight, s \ {Picked(s)})
  <2>1. \A s \in SUBSET set : SumUnfolds(weight, s) BY SumsUnfold
  <2> QED BY <2>1 DEF SumUnfolds
<1>b. \A s \in SUBSET set : \A y \in s : Cardinality(s \ {y}) = Cardinality(s) - 1 BY <1>0, FS_RemoveElement
<1>c. \A s \in SUBSET set : \A y \in s : weight[y] \in Nat OBVIOUS
<1>1. 0 \in T
  <2>1. \A s \in SUBSET set : Cardinality(s) = 0 => s = {} BY <1>0, FS_EmptySet
  <2> QED BY <2>1
<1>2. \A n \in Nat : n \in T => n + 1 \in T
  <2> SUFFICES ASSUME NEW n \in Nat, n \in T PROVE n + 1 \in T OBVIOUS
  <2> SUFFICES ASSUME NEW s \in SUBSET set, Cardinality(s) = n + 1, NEW y \in s
               PROVE  SumOver(weight, s) = weight[y] + SumOver(weight, s \ {y})
    OBVIOUS
  <2> DEFINE p == Picked(s)
  <2>1. p \in s BY DEF Picked
  <2>2. SumOver(weight, s) = weight[p] + SumOver(weight, s \ {p}) BY <1>a
  <2> HIDE DEF p
  <2>3. CASE y = p BY <2>2, <2>3
  <2>4. CASE y # p
    <3>1. Cardinality(s \ {p}) = n /\ Cardinality(s \ {y}) = n BY <1>b, <2>1
    <3>2. y \in s \ {p} /\ p \in s \ {y} BY <2>1, <2>4
    <3>3. SumOver(weight, s \ {p}) = weight[y] + SumOver(weight, (s \ {p}) \ {y}) BY <3>1, <3>2
    <3>4. SumOver(weight, s \ {y}) = weight[p] + SumOver(weight, (s \ {y}) \ {p}) BY <3>1, <3>2
    <3>5. (s \ {p}) \ {y} = (s \ {y}) \ {p} OBVIOUS
    <3>6. SumOver(weight, (s \ {p}) \ {y}) \in Nat BY <1>a
    <3>7. weight[y] \in Nat /\ weight[p] \in Nat BY <2>1
    <3> DEFINE both == SumOver(weight, (s \ {p}) \ {y})
    <3>8. SumOver(weight, s) = weight[p] + (weight[y] + both) BY <2>2, <3>3
    <3>9. SumOver(weight, s \ {y}) = weight[p] + both BY <3>4, <3>5
    <3> HIDE DEF both
    <3>10. both \in Nat BY <3>6 DEF both
    <3> QED BY <3>7, <3>8, <3>9, <3>10
  <2> QED BY <2>3, <2>4
<1>3. Nat \subseteq T
  <2> HIDE DEF T
  <2> QED BY <1>1, <1>2, NaturalsGrow
<1> QED BY <1>0, <1>3

(* A sum over more is at least as much.                                    *)
LEMMA SumGrows ==
    ASSUME NEW set, IsFiniteSet(set), NEW weight \in [set -> Nat], NEW small \in SUBSET set
    PROVE  \A large \in SUBSET set :
               small \subseteq large => SumOver(weight, small) <= SumOver(weight, large)
<1> DEFINE T == {n \in Nat : \A large \in SUBSET set :
                     small \subseteq large /\ Cardinality(large \ small) = n =>
                         SumOver(weight, small) <= SumOver(weight, large)}
<1>0. \A s \in SUBSET set : IsFiniteSet(s) /\ Cardinality(s) \in Nat BY FS_Subset, FS_CardinalityType
<1>a. \A s \in SUBSET set : SumOver(weight, s) \in Nat BY SumsUnfold DEF SumUnfolds
<1>1. 0 \in T
  <2> SUFFICES ASSUME NEW large \in SUBSET set, small \subseteq large, Cardinality(large \ small) = 0
               PROVE  SumOver(weight, small) <= SumOver(weight, large)
    OBVIOUS
  <2>1. large \ small = {} BY <1>0, FS_EmptySet
  <2>2. large = small BY <2>1
  <2> QED BY <2>2, <1>a
<1>2. \A n \in Nat : n \in T => n + 1 \in T
  <2> SUFFICES ASSUME NEW n \in Nat, n \in T, NEW large \in SUBSET set, small \subseteq large,
                      Cardinality(large \ small) = n + 1
               PROVE  SumOver(weight, small) <= SumOver(weight, large)
    OBVIOUS
  <2>0. IsFiniteSet(large \ small) /\ large \ small # {}
    <3>1. large \ small \in SUBSET set OBVIOUS
    <3> QED BY <1>0, <3>1, FS_EmptySet
  <2>1. PICK x : x \in large \ small BY <2>0
  <2>2. Cardinality((large \ small) \ {x}) = n
    <3> DEFINE more == large \ small
    <3>1. IsFiniteSet(more) /\ Cardinality(more) = n + 1 /\ x \in more BY <2>0, <2>1
    <3> HIDE DEF more
    <3>2. Cardinality(more \ {x}) = Cardinality(more) - 1 BY <3>1, FS_RemoveElement
    <3>3. Cardinality(more \ {x}) = n BY <3>1, <3>2
    <3> QED BY <3>3 DEF more
  <2>3. (large \ small) \ {x} = (large \ {x}) \ small /\ small \subseteq large \ {x} BY <2>1
  <2>4. SumOver(weight, small) <= SumOver(weight, large \ {x}) BY <2>2, <2>3
  <2>5. SumOver(weight, large) = weight[x] + SumOver(weight, large \ {x}) BY <2>1, SumStep
  <2>6. weight[x] \in Nat BY <2>1
  <2>7. SumOver(weight, small) \in Nat /\ SumOver(weight, large \ {x}) \in Nat BY <1>a
  <2> QED BY <2>4, <2>5, <2>6, <2>7
<1>3. Nat \subseteq T
  <2> HIDE DEF T
  <2> QED BY <1>1, <1>2, NaturalsGrow
<1> QED BY <1>0, <1>3
-----------------------------------------------------------------------------
(* Products and quotients of naturals, with a bound variable as the other  *)
(* factor or the divisor                                                   *)

(* A product grows with a factor.                                          *)
LEMMA TimesGrows ==
    ASSUME NEW x \in Nat, NEW y \in Nat, x <= y, NEW w \in Nat
    PROVE  x * w \in Nat /\ y * w \in Nat /\ x * w <= y * w
<1>1. PICK k \in Nat : y = x + k
  <2>1. y - x \in Nat /\ y = x + (y - x) OBVIOUS
  <2> QED BY <2>1
<1>2. y * w = x * w + k * w BY <1>1
<1>3. x * w \in Nat /\ k * w \in Nat OBVIOUS
<1> QED BY <1>2, <1>3

(* A quotient grows with what is divided.                                  *)
LEMMA DivGrows ==
    ASSUME NEW x \in Nat, NEW y \in Nat, x <= y, NEW t \in Nat \ {0}
    PROVE  x \div t \in Nat /\ y \div t \in Nat /\ x \div t <= y \div t
OBVIOUS
=============================================================================
