------------------------------- MODULE Sums --------------------------------
(***************************************************************************)
(* Induction over the naturals and over finite sets, from the theorem that *)
(* a well-founded relation has minimal elements (WFMin), and what it gives *)
(* for the sums of the community module Folds: a sum over a finite set is  *)
(* a number, it grows by one term with the set, and it only depends on the *)
(* values that are summed.  TableProofs needs them for the resource books, *)
(* ProgramsProofs for a path built from its names.                         *)
(***************************************************************************)
EXTENDS Integers, FiniteSets, Functions, FiniteSetTheorems,
        WellFoundedInduction, TLAPS

\* Every set of naturals that is not empty has a least element.
LEMMA LeastNat ==
  ASSUME NEW T, T \subseteq Nat, T # {}
  PROVE  \E n \in T : \A k \in T : n <= k
<1> DEFINE R == {ss \in Nat \X Nat : ss[1] < ss[2]}
<1>1. IsWellFoundedOn(R, Nat)
  BY NatLessThanWellFounded, Zenon DEF OpToRel
<1>2. PICK x \in T : \A y \in T : ~ (<<y, x>> \in R)
  <2> HIDE DEF R
  <2> QED BY <1>1, WFMin, Zenon
<1>3. ASSUME NEW k \in T PROVE x <= k
  <2>1. x \in Nat /\ k \in Nat /\ <<k, x>> \in Nat \X Nat
    OBVIOUS
  <2>2. ~ (<<k, x>>[1] < <<k, x>>[2])
    BY <1>2, <2>1, Zenon
  <2> QED BY <2>1, <2>2
<1> QED BY <1>3

\* A set with 0 that is closed under the successor holds every natural.
LEMMA Induct ==
  ASSUME NEW S, 0 \in S, \A n \in Nat : n \in S => n + 1 \in S
  PROVE  Nat \subseteq S
<1> SUFFICES ASSUME Nat \ S # {} PROVE FALSE
  OBVIOUS
<1>1. PICK n \in Nat \ S : \A k \in Nat \ S : n <= k
  BY LeastNat, Zenon
<1>2. n # 0 /\ n - 1 \in Nat
  BY <1>1
<1>3. n - 1 \in S
  BY <1>1, <1>2
<1> QED
  BY <1>1, <1>2, <1>3

\* What is true of a set if it is true of the sets with one element less, is
\* true of every finite set.
LEMMA SetInduct ==
  ASSUME NEW S, IsFiniteSet(S), NEW G,
         \A s \in SUBSET S : (\A x \in s : s \ {x} \in G) => s \in G
  PROVE  SUBSET S \subseteq G
<1> DEFINE bad == (SUBSET S) \ G
           sizes == {Cardinality(s) : s \in bad}
<1> SUFFICES ASSUME bad # {} PROVE FALSE
  OBVIOUS
<1>1. \A s \in SUBSET S : IsFiniteSet(s) /\ Cardinality(s) \in Nat
  BY FS_Subset, FS_CardinalityType
<1>2. sizes \subseteq Nat /\ sizes # {}
  BY <1>1
<1>3. PICK n \in sizes : \A k \in sizes : n <= k
  <2> HIDE DEF sizes
  <2> QED
    BY <1>2, LeastNat, Zenon
<1>4. PICK s \in bad : n = Cardinality(s)
  OBVIOUS
<1>5. PICK x \in s : s \ {x} \notin G
  OBVIOUS
<1>6. s \ {x} \in bad /\ Cardinality(s \ {x}) = Cardinality(s) - 1
  BY <1>1, <1>5, FS_RemoveElement
<1>7. Cardinality(s \ {x}) \in sizes /\ Cardinality(s) \in Nat
  BY <1>1, <1>6
<1>8. n <= Cardinality(s \ {x})
  <2> HIDE DEF sizes
  <2> QED
    BY <1>3, <1>7
<1>9. Cardinality(s) <= Cardinality(s) - 1
  BY <1>4, <1>6, <1>8
<1> HIDE DEF bad, sizes
<1> QED
  BY <1>7, <1>9

-----------------------------------------------------------------------------
(* SumFunctionOnSet.                                                       *)

AnyOf(s) == CHOOSE x \in s : TRUE

SumStep(fun, g, s) == IF s = {} THEN 0 ELSE fun[AnyOf(s)] + g[s \ {AnyOf(s)}]

IsSums(g, fun, D) == g = [s \in D |-> SumStep(fun, g, s)]

Sums(fun, S) == CHOOSE g : IsSums(g, fun, SUBSET S)

LEMMA SumIsSums ==
  ASSUME NEW fun, NEW S
  PROVE  SumFunctionOnSet(fun, S) = Sums(fun, S)[S]
  BY DEF SumFunctionOnSet, FoldFunctionOnSet, MapThenFoldSet, Sums, IsSums,
    SumStep, AnyOf

LEMMA AnyOfIn == ASSUME NEW s, s # {} PROVE AnyOf(s) \in s
  BY DEF AnyOf

LEMMA SumsExist ==
  ASSUME NEW fun, NEW S, IsFiniteSet(S)
  PROVE  IsSums(Sums(fun, S), fun, SUBSET S)
<1> DEFINE upto(n) == {s \in SUBSET S : Cardinality(s) <= n}
           good == {n \in Nat : \E g : IsSums(g, fun, upto(n))}
<1>1. \A s \in SUBSET S : IsFiniteSet(s) /\ Cardinality(s) \in Nat
  BY FS_Subset, FS_CardinalityType
<1>2. 0 \in good
  <2>1. \A s \in upto(0) : s = {}
    BY <1>1, FS_EmptySet
  <2>2. IsSums([s \in upto(0) |-> 0], fun, upto(0))
    BY <2>1 DEF IsSums, SumStep
  <2> QED
    BY <2>2
<1>3. ASSUME NEW n \in Nat, n \in good PROVE n + 1 \in good
  <2>1. PICK g : IsSums(g, fun, upto(n))
    BY <1>3
  <2> DEFINE h == [s \in upto(n + 1) |-> SumStep(fun, g, s)]
  <2>2. ASSUME NEW s \in upto(n + 1) PROVE SumStep(fun, g, s) = SumStep(fun, h, s)
    <3>1. CASE s = {}
      BY <3>1 DEF SumStep
    <3>2. CASE s # {}
      <4> DEFINE t == s \ {AnyOf(s)}
      <4>1. AnyOf(s) \in s
        BY <3>2, AnyOfIn
      <4>2. Cardinality(t) = Cardinality(s) - 1 /\ Cardinality(s) \in Nat /\ t \in SUBSET S
        BY <1>1, <4>1, FS_RemoveElement
      <4>3. t \in upto(n) /\ t \in upto(n + 1)
        BY <4>2
      <4>4. g[t] = SumStep(fun, g, t)
        <5> HIDE DEF t, upto
        <5> QED
          BY <2>1, <4>3 DEF IsSums
      <4>5. h[t] = SumStep(fun, g, t)
        <5> HIDE DEF t, upto
        <5> QED
          BY <4>3
      <4> QED
        BY <3>2, <4>4, <4>5 DEF SumStep
    <3> QED
      BY <3>1, <3>2
  <2>3. h = [s \in upto(n + 1) |-> SumStep(fun, h, s)]
    <3> HIDE DEF upto
    <3> QED
      BY <2>2
  <2>4. \E f : IsSums(f, fun, upto(n + 1))
    <3> HIDE DEF h, upto
    <3> QED
      BY <2>3 DEF IsSums
  <2> QED
    <3> HIDE DEF upto
    <3> QED
      BY <2>4
<1>4. Nat \subseteq good
  <2> HIDE DEF good
  <2> QED
    BY <1>2, <1>3, Induct
<1>5. Cardinality(S) \in Nat /\ upto(Cardinality(S)) = SUBSET S
  BY <1>1, FS_CardinalityType, FS_Subset
<1>6. \E g : IsSums(g, fun, SUBSET S)
  BY <1>4, <1>5
<1> QED
  BY <1>6 DEF Sums

LEMMA SumsRule ==
  ASSUME NEW fun, NEW S, IsFiniteSet(S), NEW s \in SUBSET S
  PROVE  Sums(fun, S)[s] = SumStep(fun, Sums(fun, S), s)
<1> DEFINE g == Sums(fun, S)
<1>1. IsSums(g, fun, SUBSET S)
  BY SumsExist
<1> HIDE DEF g
<1>2. g[s] = SumStep(fun, g, s)
  BY <1>1 DEF IsSums
<1> QED
  BY <1>2 DEF g

\* The sums of the subsets do not depend on the set they are subsets of.
LEMMA SumsAgree ==
  ASSUME NEW fun, NEW S, IsFiniteSet(S), NEW T \in SUBSET S
  PROVE  \A s \in SUBSET T : Sums(fun, T)[s] = Sums(fun, S)[s]
<1> DEFINE G == {s \in SUBSET T : Sums(fun, T)[s] = Sums(fun, S)[s]}
<1>0. IsFiniteSet(T)
  BY FS_Subset
<1>1. ASSUME NEW s \in SUBSET T, \A x \in s : s \ {x} \in G PROVE s \in G
  <2>1. s # {} => AnyOf(s) \in s
    BY AnyOfIn
  <2>2. Sums(fun, T)[s] = SumStep(fun, Sums(fun, T), s)
    BY <1>0, SumsRule
  <2>3. Sums(fun, S)[s] = SumStep(fun, Sums(fun, S), s)
    BY SumsRule
  <2>4. s # {} => Sums(fun, T)[s \ {AnyOf(s)}] = Sums(fun, S)[s \ {AnyOf(s)}]
    BY <1>1, <2>1
  <2> QED
    BY <2>2, <2>3, <2>4 DEF SumStep
<1>2. SUBSET T \subseteq G
  <2> HIDE DEF G
  <2> QED
    BY <1>0, <1>1, SetInduct
<1> QED
  BY <1>2

LEMMA SumOfEmpty == ASSUME NEW fun PROVE SumFunctionOnSet(fun, {}) = 0
  BY FS_EmptySet, SumIsSums, SumsRule DEF SumStep

LEMMA SumOfAny ==
  ASSUME NEW fun, NEW S, IsFiniteSet(S), S # {}
  PROVE  /\ AnyOf(S) \in S
         /\ SumFunctionOnSet(fun, S)
              = fun[AnyOf(S)] + SumFunctionOnSet(fun, S \ {AnyOf(S)})
<1> DEFINE T == S \ {AnyOf(S)}
<1>1. SumFunctionOnSet(fun, S) = fun[AnyOf(S)] + Sums(fun, S)[T]
  <2>1. Sums(fun, S)[S] = SumStep(fun, Sums(fun, S), S)
    BY SumsRule
  <2> QED
    BY <2>1, SumIsSums DEF SumStep
<1>2. Sums(fun, T)[T] = Sums(fun, S)[T]
  BY SumsAgree
<1> QED
  BY <1>1, <1>2, SumIsSums, AnyOfIn

LEMMA SumIsInt ==
  ASSUME NEW fun, NEW S, IsFiniteSet(S), \A x \in S : fun[x] \in Int
  PROVE  SumFunctionOnSet(fun, S) \in Int
<1> DEFINE G == {s \in SUBSET S : SumFunctionOnSet(fun, s) \in Int}
<1>1. ASSUME NEW s \in SUBSET S, \A x \in s : s \ {x} \in G PROVE s \in G
  <2>1. CASE s = {}
    BY <2>1, SumOfEmpty
  <2>2. CASE s # {}
    <3>1. IsFiniteSet(s)
      BY FS_Subset
    <3>2. /\ AnyOf(s) \in s
          /\ SumFunctionOnSet(fun, s)
               = fun[AnyOf(s)] + SumFunctionOnSet(fun, s \ {AnyOf(s)})
      BY <2>2, <3>1, SumOfAny
    <3>3. SumFunctionOnSet(fun, s \ {AnyOf(s)}) \in Int
      BY <1>1, <3>2
    <3> QED
      BY <3>2, <3>3
  <2> QED
    BY <2>1, <2>2
<1>2. SUBSET S \subseteq G
  <2> HIDE DEF G
  <2> QED
    BY <1>1, SetInduct
<1> QED
  BY <1>2

\* The order in which the elements are taken does not matter.
LEMMA SumWithout ==
  ASSUME NEW fun, NEW S, IsFiniteSet(S), \A x \in S : fun[x] \in Int,
         NEW e \in S
  PROVE  SumFunctionOnSet(fun, S) = fun[e] + SumFunctionOnSet(fun, S \ {e})
<1> DEFINE sum(s) == SumFunctionOnSet(fun, s)
           G == {s \in SUBSET S : \A x \in s : sum(s) = fun[x] + sum(s \ {x})}
<1>1. ASSUME NEW s \in SUBSET S, \A x \in s : s \ {x} \in G PROVE s \in G
  <2> SUFFICES ASSUME NEW x \in s PROVE sum(s) = fun[x] + sum(s \ {x})
    OBVIOUS
  <2>1. IsFiniteSet(s)
    BY FS_Subset
  <2> DEFINE c == AnyOf(s)
             t == s \ {c, x}
  <2>2. c \in s /\ sum(s) = fun[c] + sum(s \ {c})
    BY <2>1, SumOfAny
  <2>3. CASE x = c
    BY <2>2, <2>3
  <2>4. CASE x # c
    <3>1. sum(s \ {c}) = fun[x] + sum((s \ {c}) \ {x})
      BY <1>1, <2>2, <2>4
    <3>2. sum(s \ {x}) = fun[c] + sum((s \ {x}) \ {c})
      BY <1>1, <2>2, <2>4
    <3>3. (s \ {c}) \ {x} = t /\ (s \ {x}) \ {c} = t
      OBVIOUS
    <3>4. sum(t) \in Int /\ fun[x] \in Int /\ fun[c] \in Int
      BY <2>1, <2>2, FS_Subset, SumIsInt
    <3> HIDE DEF sum, c, t
    <3>5. sum(s \ {c}) = fun[x] + sum(t) /\ sum(s \ {x}) = fun[c] + sum(t)
      BY <3>1, <3>2, <3>3
    <3> QED
      BY <2>2, <3>4, <3>5
  <2> QED
    BY <2>3, <2>4
<1>2. SUBSET S \subseteq G
  <2> HIDE DEF G
  <2> QED
    BY <1>1, SetInduct
<1> QED
  BY <1>2

\* One element more.
LEMMA SumOfOneMore ==
  ASSUME NEW fun, NEW S, IsFiniteSet(S), NEW e, e \notin S,
         \A x \in S \cup {e} : fun[x] \in Int
  PROVE  SumFunctionOnSet(fun, S \cup {e}) = fun[e] + SumFunctionOnSet(fun, S)
<1>1. IsFiniteSet(S \cup {e}) /\ (S \cup {e}) \ {e} = S
  BY FS_AddElement
<1> QED
  BY <1>1, SumWithout

\* Only the values at the elements matter.
LEMMA SumOfEqual ==
  ASSUME NEW f, NEW g, NEW S, IsFiniteSet(S), \A x \in S : f[x] = g[x]
  PROVE  SumFunctionOnSet(f, S) = SumFunctionOnSet(g, S)
<1> DEFINE G == {s \in SUBSET S : SumFunctionOnSet(f, s) = SumFunctionOnSet(g, s)}
<1>1. ASSUME NEW s \in SUBSET S, \A x \in s : s \ {x} \in G PROVE s \in G
  <2>1. CASE s = {}
    BY <2>1, SumOfEmpty
  <2>2. CASE s # {}
    <3>1. IsFiniteSet(s)
      BY FS_Subset
    <3>2. /\ AnyOf(s) \in s
          /\ SumFunctionOnSet(f, s) = f[AnyOf(s)] + SumFunctionOnSet(f, s \ {AnyOf(s)})
          /\ SumFunctionOnSet(g, s) = g[AnyOf(s)] + SumFunctionOnSet(g, s \ {AnyOf(s)})
      BY <2>2, <3>1, SumOfAny
    <3> QED
      BY <1>1, <3>2
  <2> QED
    BY <2>1, <2>2
<1>2. SUBSET S \subseteq G
  <2> HIDE DEF G
  <2> QED
    BY <1>1, SetInduct
<1> QED
  BY <1>2

\* Elements may be renamed.
LEMMA SumRenamed ==
  ASSUME NEW f, NEW g, NEW m, NEW S, IsFiniteSet(S),
         \A x \in S : f[x] = g[m[x]] /\ f[x] \in Int,
         \A x, y \in S : m[x] = m[y] => x = y
  PROVE  SumFunctionOnSet(f, S) = SumFunctionOnSet(g, {m[x] : x \in S})
<1> DEFINE to(s) == {m[x] : x \in s}
           G == {s \in SUBSET S : SumFunctionOnSet(f, s) = SumFunctionOnSet(g, to(s))}
<1>1. ASSUME NEW s \in SUBSET S, \A x \in s : s \ {x} \in G PROVE s \in G
  <2>1. CASE s = {}
    BY <2>1, SumOfEmpty
  <2>2. CASE s # {}
    <3>1. PICK x \in s : TRUE
      BY <2>2
    <3>2. IsFiniteSet(s) /\ IsFiniteSet(to(s))
      <4>1. IsFiniteSet(s)
        BY FS_Subset
      <4>2. [x2 \in s |-> m[x2]] \in Surjection(s, to(s))
        BY DEF Surjection
      <4> QED
        BY <4>1, <4>2, FS_Surjection
    <3>3. SumFunctionOnSet(f, s) = f[x] + SumFunctionOnSet(f, s \ {x})
      BY <3>2, SumWithout
    <3>4. to(s) \ {m[x]} = to(s \ {x}) /\ m[x] \in to(s)
      OBVIOUS
    <3>5. \A y \in to(s) : g[y] \in Int
      OBVIOUS
    <3>6. SumFunctionOnSet(g, to(s)) = g[m[x]] + SumFunctionOnSet(g, to(s \ {x}))
      <4> HIDE DEF to
      <4> QED
        BY <3>2, <3>4, <3>5, SumWithout
    <3> QED
      BY <1>1, <3>3, <3>6
  <2> QED
    BY <2>1, <2>2
<1>2. SUBSET S \subseteq G
  <2> HIDE DEF G
  <2> QED
    BY <1>1, SetInduct
<1> QED
  BY <1>2
=============================================================================
