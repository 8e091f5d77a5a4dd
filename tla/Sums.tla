---------------------------------- MODULE Sums ----------------------------------
(***************************************************************************)
(* Finite sums, as the models take them from the community modules                 *)
(* (SumFunctionOnSet and SumFunction of Functions): what a sum is,                  *)
(* and how it changes with its terms and its set.  The library's induction takes an   *)
(* operator; here it is over a set of numbers, or of subsets, so that a proof can      *)
(* name the set it is about.  At the end, folds over sequences, by the values they go   *)
(* through.                                                                        *)
(***************************************************************************)
EXTENDS Integers, Sequences, FiniteSets, FiniteSetsExt, FiniteSetTheorems, WellFoundedInduction, TLAPS

(* Induction over the natural numbers, for a set instead of an operator: a *)
(* least counterexample would have a predecessor that is none.             *)
LEMMA NaturalInduction ==
    ASSUME NEW T, 0 \in T, \A n \in Nat : n \in T => n + 1 \in T
    PROVE  Nat \subseteq T
<1> DEFINE U == Nat \ T
           R == OpToRel(<, Nat)
<1>1. SUFFICES ASSUME U # {} PROVE FALSE
  OBVIOUS
<1>2. IsWellFoundedOn(R, Nat)  BY NatLessThanWellFounded
<1> HIDE DEF R
<1>3. PICK x \in U : \A y \in U : ~ (<<y, x>> \in R)
  <2>1. U \subseteq Nat  OBVIOUS
  <2> HIDE DEF U
  <2> QED BY <1>1, <1>2, <2>1, WFMin
<1>4. x # 0 /\ x \in Nat  OBVIOUS
<1>5. x - 1 \in Nat /\ x - 1 + 1 = x /\ x - 1 < x  BY <1>4
<1>6. <<x - 1, x>> \in R  BY <1>4, <1>5 DEF R, OpToRel
<1> QED  BY <1>3, <1>4, <1>5, <1>6

(* Induction over a finite set, an element at a time: a set of subsets that *)
(* holds the empty one, and with each the next, holds the whole set.        *)
LEMMA FiniteInduction ==
    ASSUME NEW S, IsFiniteSet(S), NEW T, {} \in T,
           \A s \in SUBSET S : \A x \in S \ s : s \in T => s \cup {x} \in T
    PROVE  S \in T
<1> DEFINE N == {n \in Nat : \A s \in SUBSET S : Cardinality(s) = n => s \in T}
<1>1. \A s \in SUBSET S : IsFiniteSet(s)  BY FS_Subset
<1>2. 0 \in N  BY <1>1, FS_EmptySet
<1>3. ASSUME NEW n \in Nat, n \in N PROVE n + 1 \in N
  <2> SUFFICES ASSUME NEW s \in SUBSET S, Cardinality(s) = n + 1 PROVE s \in T
    OBVIOUS
  <2> HIDE DEF N
  <2>0. Cardinality({}) = 0 /\ n + 1 # 0 /\ n + 1 - 1 = n  BY FS_EmptySet
  <2>1. s # {}  BY <2>0
  <2>2. PICK x \in s : TRUE  BY <2>1
  <2>3. Cardinality(s \ {x}) = n  
    <3>1. IsFiniteSet(s)  BY <1>1
    <3>2. Cardinality(s \ {x}) = IF x \in s THEN Cardinality(s) - 1 ELSE Cardinality(s)
      BY <3>1, FS_RemoveElement
    <3> QED  BY <2>0, <2>2, <3>2
  <2>4. s \ {x} \in T  BY <1>3, <2>3 DEF N
  <2>5. s = (s \ {x}) \cup {x}  OBVIOUS
  <2> QED  BY <2>4, <2>5
<1> HIDE DEF N
<1>4. Nat \subseteq N  BY <1>2, <1>3, NaturalInduction
<1>5. Cardinality(S) \in N  BY <1>4, FS_CardinalityType
<1> QED  BY <1>5 DEF N

(***************************************************************************)
(* The sum that SumFunctionOnSet folds.                                         *)
(***************************************************************************)
Chosen(s) == CHOOSE x \in s : TRUE
Folded(f, S, g) == [s \in SUBSET S |-> IF s = {} THEN 0 ELSE f[Chosen(s)] + g[s \ {Chosen(s)}]]

(* There is a function that folds every subset of a finite set: by induction *)
(* on how large the subsets are.                                             *)
LEMMA FoldExists ==
    ASSUME NEW f, NEW S, IsFiniteSet(S)
    PROVE  \E g : g = Folded(f, S, g)
<1> DEFINE Upto(n, g) == \A s \in SUBSET S : Cardinality(s) <= n => g[s] = Folded(f, S, g)[s]
           N == {n \in Nat : \E g : Upto(n, g)}
<1>1. \A s \in SUBSET S : IsFiniteSet(s) /\ Cardinality(s) \in Nat /\ (Cardinality(s) = 0 <=> s = {})
  BY FS_Subset, FS_CardinalityType, FS_EmptySet
<1>2. 0 \in N
  <2> DEFINE g == [s \in SUBSET S |-> 0]
  <2>1. Upto(0, g)  BY <1>1 DEF Folded
  <2> QED  BY <2>1
<1>3. ASSUME NEW n \in Nat, n \in N PROVE n + 1 \in N
  <2>1. PICK g : Upto(n, g)  BY <1>3
  <2> DEFINE h == [s \in SUBSET S |-> IF Cardinality(s) <= n THEN g[s] ELSE Folded(f, S, g)[s]]
  <2>2. \A s \in SUBSET S : h[s] = Folded(f, S, g)[s] \/ Cardinality(s) > n + 1
    BY <1>1, <2>1
  <2>3. ASSUME NEW s \in SUBSET S, Cardinality(s) <= n + 1, s # {}
        PROVE  h[s \ {Chosen(s)}] = g[s \ {Chosen(s)}]
    <3>1. Chosen(s) \in s  BY <2>3 DEF Chosen
    <3>2. Cardinality(s \ {Chosen(s)}) = Cardinality(s) - 1  BY <1>1, <3>1, FS_RemoveElement
    <3>3. Cardinality(s \ {Chosen(s)}) <= n  BY <1>1, <2>3, <3>2
    <3> QED  BY <3>3
  <2>4. Upto(n + 1, h)
    <3> SUFFICES ASSUME NEW s \in SUBSET S, Cardinality(s) <= n + 1 PROVE h[s] = Folded(f, S, h)[s]
      OBVIOUS
    <3>1. h[s] = Folded(f, S, g)[s]
      <4> HIDE DEF h
      <4> QED  BY <1>1, <2>2
    <3>2. Folded(f, S, g)[s] = Folded(f, S, h)[s]
      <4> HIDE DEF h
      <4> QED  BY <2>3 DEF Folded
    <3> QED  BY <3>1, <3>2
  <2> HIDE DEF h
  <2> QED  BY <2>4
<1> HIDE DEF N
<1>4. Cardinality(S) \in N  BY <1>2, <1>3, NaturalInduction, FS_CardinalityType
<1>5. PICK g : Upto(Cardinality(S), g)  BY <1>4 DEF N
<1>6. \A s \in SUBSET S : g[s] = Folded(f, S, g)[s]  BY <1>5, FS_Subset
<1> DEFINE h == [s \in SUBSET S |-> g[s]]
<1>7. \A s \in SUBSET S : h[s] = Folded(f, S, h)[s]
  BY <1>6 DEF Folded, Chosen
<1>8. h = Folded(f, S, h)
  BY <1>7 DEF Folded
<1> QED  BY <1>8

(* Two such functions, one of a part of the other's set, agree on that part. *)
LEMMA FoldUnique ==
    ASSUME NEW f, NEW S, IsFiniteSet(S), NEW g, g = Folded(f, S, g),
           NEW T \in SUBSET S, NEW h, h = Folded(f, T, h)
    PROVE  g[T] = h[T]
<1> DEFINE N == {n \in Nat : \A s \in SUBSET T : Cardinality(s) = n => g[s] = h[s]}
<1>1. \A s \in SUBSET T : IsFiniteSet(s) /\ Cardinality(s) \in Nat /\ (Cardinality(s) = 0 <=> s = {})
  BY FS_Subset, FS_CardinalityType, FS_EmptySet
<1>2. \A s \in SUBSET T : /\ g[s] = (IF s = {} THEN 0 ELSE f[Chosen(s)] + g[s \ {Chosen(s)}])
                          /\ h[s] = (IF s = {} THEN 0 ELSE f[Chosen(s)] + h[s \ {Chosen(s)}])
  BY DEF Folded
<1>3. 0 \in N  BY <1>1, <1>2
<1>4. ASSUME NEW n \in Nat, n \in N PROVE n + 1 \in N
  <2> SUFFICES ASSUME NEW s \in SUBSET T, Cardinality(s) = n + 1 PROVE g[s] = h[s]
    OBVIOUS
  <2> HIDE DEF N
  <2>1. s # {} /\ Chosen(s) \in s  BY <1>1 DEF Chosen
  <2>2. Cardinality(s \ {Chosen(s)}) = Cardinality(s) - 1  BY <1>1, <2>1, FS_RemoveElement
  <2>3. g[s \ {Chosen(s)}] = h[s \ {Chosen(s)}]  BY <1>4, <2>2 DEF N
  <2> QED  BY <1>2, <2>1, <2>3
<1> HIDE DEF N
<1>5. Cardinality(T) \in N  BY <1>1, <1>3, <1>4, NaturalInduction
<1> QED  BY <1>5 DEF N

(* What SumFunctionOnSet chooses is the fold. *)
LEMMA SumIsFold ==
    ASSUME NEW f, NEW S, IsFiniteSet(S), NEW g, g = Folded(f, S, g), NEW T \in SUBSET S
    PROVE  SumFunctionOnSet(f, T) = g[T]
<1> DEFINE h == CHOOSE h : h = Folded(f, T, h)
<1>1. h = Folded(f, T, h)
  <2>1. \E i : i = Folded(f, T, i)  BY FoldExists, FS_Subset
  <2> QED  BY <2>1
<1>2. SumFunctionOnSet(f, T) = h[T]
  BY DEF SumFunctionOnSet, FoldFunctionOnSet, MapThenFoldSet, Folded, Chosen
<1> HIDE DEF h
<1> QED  BY <1>1, <1>2, FoldUnique

-----------------------------------------------------------------------------

(* Clients write SumFunctionOnSet; here it is abbreviated.                        *)
Sum(f, S) == SumFunctionOnSet(f, S)

USE DEF Sum

(* The sum over nothing is zero. *)
THEOREM SumEmpty == ASSUME NEW f PROVE Sum(f, {}) = 0
<1>1. PICK g : g = Folded(f, {}, g)  BY FoldExists, FS_EmptySet
<1>2. g[{}] = 0  BY <1>1 DEF Folded
<1> QED  BY <1>1, <1>2, SumIsFold, FS_EmptySet

(* A sum is one of its terms, the one the fold takes first, and the sum of *)
(* the rest.                                                               *)
LEMMA SumOfAny ==
    ASSUME NEW f, NEW S, IsFiniteSet(S), S # {}
    PROVE  Chosen(S) \in S /\ Sum(f, S) = f[Chosen(S)] + Sum(f, S \ {Chosen(S)})
<1>1. PICK g : g = Folded(f, S, g)  BY FoldExists
<1>2. Chosen(S) \in S  BY DEF Chosen
<1>3. g[S] = f[Chosen(S)] + g[S \ {Chosen(S)}]  BY <1>1 DEF Folded
<1>4. Sum(f, S) = g[S] /\ Sum(f, S \ {Chosen(S)}) = g[S \ {Chosen(S)}]
  BY <1>1, SumIsFold
<1> QED  BY <1>2, <1>3, <1>4

(* A sum of integers is an integer, of natural numbers a natural number. *)
THEOREM SumType ==
    ASSUME NEW f, NEW S, IsFiniteSet(S)
    PROVE  /\ (\A x \in S : f[x] \in Int) => Sum(f, S) \in Int
           /\ (\A x \in S : f[x] \in Nat) => Sum(f, S) \in Nat
<1> DEFINE N == {n \in Nat : \A s \in SUBSET S : Cardinality(s) = n =>
                     /\ (\A x \in S : f[x] \in Int) => Sum(f, s) \in Int
                     /\ (\A x \in S : f[x] \in Nat) => Sum(f, s) \in Nat}
<1>1. \A s \in SUBSET S : IsFiniteSet(s) /\ Cardinality(s) \in Nat /\ (Cardinality(s) = 0 <=> s = {})
  BY FS_Subset, FS_CardinalityType, FS_EmptySet
<1>2. 0 \in N  BY <1>1, SumEmpty
<1>3. ASSUME NEW n \in Nat, n \in N PROVE n + 1 \in N
  <2> SUFFICES ASSUME NEW s \in SUBSET S, Cardinality(s) = n + 1
               PROVE  /\ (\A x \in S : f[x] \in Int) => Sum(f, s) \in Int
                      /\ (\A x \in S : f[x] \in Nat) => Sum(f, s) \in Nat
    OBVIOUS
  <2> HIDE DEF N
  <2>1. s # {}  BY <1>1
  <2>2. Chosen(s) \in s /\ Sum(f, s) = f[Chosen(s)] + Sum(f, s \ {Chosen(s)})  BY <1>1, <2>1, SumOfAny
  <2>3. Cardinality(s \ {Chosen(s)}) = n
    <3>1. Cardinality(s \ {Chosen(s)}) = Cardinality(s) - 1  BY <1>1, <2>2, FS_RemoveElement
    <3> QED  BY <3>1
  <2> QED  BY <1>3, <2>2, <2>3 DEF N
<1> HIDE DEF N
<1>4. Cardinality(S) \in N  BY <1>1, <1>2, <1>3, NaturalInduction
<1> QED  BY <1>4 DEF N

(* A sum is any of its terms and the sum of the rest: the order of the fold *)
(* does not matter.                                                         *)
THEOREM SumOut ==
    ASSUME NEW f, NEW S, IsFiniteSet(S), \A y \in S : f[y] \in Int, NEW x \in S
    PROVE  Sum(f, S) = f[x] + Sum(f, S \ {x})
<1> DEFINE N == {n \in Nat : \A s \in SUBSET S : Cardinality(s) = n =>
                                 \A z \in s : Sum(f, s) = f[z] + Sum(f, s \ {z})}
<1>1. \A s \in SUBSET S : IsFiniteSet(s) /\ Cardinality(s) \in Nat /\ (Cardinality(s) = 0 <=> s = {})
  BY FS_Subset, FS_CardinalityType, FS_EmptySet
<1>2. 0 \in N  BY <1>1
<1>3. ASSUME NEW n \in Nat, n \in N PROVE n + 1 \in N
  <2> SUFFICES ASSUME NEW s \in SUBSET S, Cardinality(s) = n + 1, NEW z \in s
               PROVE  Sum(f, s) = f[z] + Sum(f, s \ {z})
    OBVIOUS
  <2> HIDE DEF N
  <2>1. Chosen(s) \in s /\ Sum(f, s) = f[Chosen(s)] + Sum(f, s \ {Chosen(s)})  BY <1>1, SumOfAny
  <2>2. CASE z = Chosen(s)  BY <2>1, <2>2
  <2>3. CASE z # Chosen(s)
    <3> DEFINE c == Chosen(s)
               t == (s \ {c}) \ {z}
    <3>1. t = (s \ {z}) \ {c} /\ z \in s \ {c} /\ c \in s \ {z}  BY <2>1, <2>3
    <3>2. Cardinality(s \ {c}) = n /\ Cardinality(s \ {z}) = n  BY <1>1, <2>1, FS_RemoveElement
    <3>3. Sum(f, s \ {c}) = f[z] + Sum(f, t)  BY <1>3, <3>1, <3>2 DEF N
    <3>4. Sum(f, s \ {z}) = f[c] + Sum(f, t)  BY <1>3, <3>1, <3>2 DEF N
    <3>5. t \in SUBSET S /\ f[z] \in Int /\ f[c] \in Int  BY <2>1
    <3>6. Sum(f, t) \in Int  BY <1>1, <3>5, SumType
    <3> HIDE DEF t, c
    <3>7. Sum(f, s) = f[c] + Sum(f, s \ {c})  BY <2>1 DEF c
    <3> QED  BY <3>3, <3>4, <3>5, <3>6, <3>7
  <2> QED  BY <2>2, <2>3
<1> HIDE DEF N
<1>4. Cardinality(S) \in N  BY <1>1, <1>2, <1>3, NaturalInduction
<1> QED  BY <1>4 DEF N

(* The sum with a term more. *)
THEOREM SumAdd ==
    ASSUME NEW f, NEW S, IsFiniteSet(S), \A y \in S : f[y] \in Int, NEW x, x \notin S, f[x] \in Int
    PROVE  Sum(f, S \cup {x}) = f[x] + Sum(f, S)
<1>1. IsFiniteSet(S \cup {x})  BY FS_AddElement
<1>2. (S \cup {x}) \ {x} = S  OBVIOUS
<1>3. Sum(f, S \cup {x}) = f[x] + Sum(f, (S \cup {x}) \ {x})
  <2> DEFINE T == S \cup {x}
  <2>1. x \in T /\ \A y \in T : f[y] \in Int  OBVIOUS
  <2>2. IsFiniteSet(T)  BY <1>1
  <2> HIDE DEF T
  <2>3. Sum(f, T) = f[x] + Sum(f, T \ {x})  BY <2>1, <2>2, SumOut
  <2> QED  BY <2>3 DEF T
<1> QED  BY <1>2, <1>3

(* Equal terms, equal sums. *)
THEOREM SumSame ==
    ASSUME NEW f, NEW g, NEW S, IsFiniteSet(S), \A x \in S : f[x] \in Int /\ f[x] = g[x]
    PROVE  Sum(f, S) = Sum(g, S)
<1> DEFINE T == {s \in SUBSET S : Sum(f, s) = Sum(g, s)}
<1>1. {} \in T  BY SumEmpty
<1>2. ASSUME NEW s \in SUBSET S, NEW x \in S \ s, s \in T PROVE s \cup {x} \in T
  <2>1. IsFiniteSet(s)  BY FS_Subset
  <2>2. Sum(f, s \cup {x}) = f[x] + Sum(f, s)  BY <2>1, SumAdd
  <2>3. Sum(g, s \cup {x}) = g[x] + Sum(g, s)  BY <2>1, SumAdd
  <2> QED  BY <1>2, <2>2, <2>3
<1> HIDE DEF T
<1>3. S \in T  BY <1>1, <1>2, FiniteInduction
<1> QED  BY <1>3 DEF T

(* One entry changes. *)
THEOREM SumChange ==
    ASSUME NEW f, NEW g, NEW S, IsFiniteSet(S), NEW x \in S,
           \A y \in S : f[y] \in Int /\ g[y] \in Int, \A y \in S \ {x} : f[y] = g[y]
    PROVE  Sum(g, S) = Sum(f, S) - f[x] + g[x]
<1>1. IsFiniteSet(S \ {x})  BY FS_RemoveElement
<1>2. Sum(f, S) = f[x] + Sum(f, S \ {x}) /\ Sum(g, S) = g[x] + Sum(g, S \ {x})  BY SumOut
<1>3. Sum(f, S \ {x}) = Sum(g, S \ {x})  BY <1>1, SumSame
<1>4. Sum(f, S \ {x}) \in Int  BY <1>1, SumType
<1> QED  BY <1>2, <1>3, <1>4

(* The sum of sums of two terms is the sum of both sums. *)
THEOREM SumOfSums ==
    ASSUME NEW f, NEW g, NEW h, NEW S, IsFiniteSet(S),
           \A x \in S : f[x] \in Int /\ g[x] \in Int /\ h[x] = f[x] + g[x]
    PROVE  Sum(h, S) = Sum(f, S) + Sum(g, S)
<1> DEFINE T == {s \in SUBSET S : Sum(h, s) = Sum(f, s) + Sum(g, s)}
<1>1. {} \in T  BY SumEmpty
<1>2. ASSUME NEW s \in SUBSET S, NEW x \in S \ s, s \in T PROVE s \cup {x} \in T
  <2>1. IsFiniteSet(s)  BY FS_Subset
  <2>2. Sum(f, s \cup {x}) = f[x] + Sum(f, s) /\ Sum(g, s \cup {x}) = g[x] + Sum(g, s)  BY <2>1, SumAdd
  <2>3. Sum(h, s \cup {x}) = h[x] + Sum(h, s)  BY <2>1, SumAdd
  <2>4. Sum(f, s) \in Int /\ Sum(g, s) \in Int  BY <2>1, SumType
  <2> QED  BY <1>2, <2>2, <2>3, <2>4
<1> HIDE DEF T
<1>3. S \in T  BY <1>1, <1>2, FiniteInduction
<1> QED  BY <1>3 DEF T

(* No larger terms, no larger sum. *)
THEOREM SumGrows ==
    ASSUME NEW f, NEW g, NEW S, IsFiniteSet(S),
           \A x \in S : f[x] \in Int /\ g[x] \in Int /\ f[x] <= g[x]
    PROVE  Sum(f, S) <= Sum(g, S)
<1> DEFINE T == {s \in SUBSET S : Sum(f, s) <= Sum(g, s)}
<1>1. {} \in T  BY SumEmpty
<1>2. ASSUME NEW s \in SUBSET S, NEW x \in S \ s, s \in T PROVE s \cup {x} \in T
  <2>1. IsFiniteSet(s)  BY FS_Subset
  <2>2. Sum(f, s \cup {x}) = f[x] + Sum(f, s) /\ Sum(g, s \cup {x}) = g[x] + Sum(g, s)  BY <2>1, SumAdd
  <2>4. Sum(f, s) \in Int /\ Sum(g, s) \in Int  BY <2>1, SumType
  <2> QED  BY <1>2, <2>2, <2>4
<1> HIDE DEF T
<1>3. S \in T  BY <1>1, <1>2, FiniteInduction
<1> QED  BY <1>3 DEF T

(* A sum of zeros is zero. *)
THEOREM SumOfNothing ==
    ASSUME NEW f, NEW S, IsFiniteSet(S), \A x \in S : f[x] = 0
    PROVE  Sum(f, S) = 0
<1> DEFINE T == {s \in SUBSET S : Sum(f, s) = 0}
<1>1. {} \in T  BY SumEmpty
<1>2. ASSUME NEW s \in SUBSET S, NEW x \in S \ s, s \in T PROVE s \cup {x} \in T
  <2>1. IsFiniteSet(s)  BY FS_Subset
  <2>2. Sum(f, s \cup {x}) = f[x] + Sum(f, s)  BY <2>1, SumAdd
  <2> QED  BY <1>2, <2>2
<1> HIDE DEF T
<1>3. S \in T  BY <1>1, <1>2, FiniteInduction
<1> QED  BY <1>3 DEF T

(* The sum over two disjoint sets. *)
THEOREM SumOfParts ==
    ASSUME NEW f, NEW S, IsFiniteSet(S), NEW U, IsFiniteSet(U), S \cap U = {},
           \A x \in S \cup U : f[x] \in Int
    PROVE  Sum(f, S \cup U) = Sum(f, S) + Sum(f, U)
<1> DEFINE T == {s \in SUBSET S : Sum(f, s \cup U) = Sum(f, s) + Sum(f, U)}
<1>0. Sum(f, U) \in Int  BY SumType
<1>1. {} \in T
  <2>1. {} \cup U = U  OBVIOUS
  <2> QED  BY <1>0, <2>1, SumEmpty
<1>2. ASSUME NEW s \in SUBSET S, NEW x \in S \ s, s \in T PROVE s \cup {x} \in T
  <2>1. IsFiniteSet(s) /\ IsFiniteSet(s \cup U)  BY FS_Subset, FS_Union
  <2>2. Sum(f, s \cup {x}) = f[x] + Sum(f, s)  BY <2>1, SumAdd
  <2>3. x \notin s \cup U /\ (s \cup {x}) \cup U = (s \cup U) \cup {x}  BY <1>2
  <2>4. Sum(f, (s \cup U) \cup {x}) = f[x] + Sum(f, s \cup U)
    <3> DEFINE V == s \cup U
    <3>1. IsFiniteSet(V) /\ x \notin V /\ \A y \in V : f[y] \in Int  BY <2>1, <2>3
    <3> HIDE DEF V
    <3>2. Sum(f, V \cup {x}) = f[x] + Sum(f, V)  BY <3>1, SumAdd
    <3> QED  BY <3>2 DEF V
  <2>5. Sum(f, s) \in Int /\ f[x] \in Int  BY <2>1, SumType
  <2>6. Sum(f, s \cup U) = Sum(f, s) + Sum(f, U)  BY <1>2
  <2>7. Sum(f, (s \cup {x}) \cup U) = Sum(f, s \cup {x}) + Sum(f, U)
    <3>1. Sum(f, (s \cup {x}) \cup U) = f[x] + Sum(f, s \cup U)  BY <2>3, <2>4
    <3>2. f[x] + (Sum(f, s) + Sum(f, U)) = (f[x] + Sum(f, s)) + Sum(f, U)  BY <1>0, <2>5
    <3> QED  BY <2>2, <2>6, <3>1, <3>2
  <2> QED  BY <2>7
<1> HIDE DEF T
<1>3. S \in T  BY <1>1, <1>2, FiniteInduction
<1> QED  BY <1>3 DEF T

(* A part of what is counted is no more than all of it.                           *)
THEOREM SumOfPart ==
    ASSUME NEW f, NEW S, IsFiniteSet(S), NEW T \in SUBSET S, \A x \in S : f[x] \in Nat
    PROVE  Sum(f, T) <= Sum(f, S)
<1>1. IsFiniteSet(T) /\ IsFiniteSet(S \ T)  BY FS_Subset
<1>2. T \cup (S \ T) = S /\ T \cap (S \ T) = {}  OBVIOUS
<1>3. Sum(f, T \cup (S \ T)) = Sum(f, T) + Sum(f, S \ T)
  <2> DEFINE U == S \ T
  <2>1. IsFiniteSet(U) /\ T \cap U = {} /\ \A x \in T \cup U : f[x] \in Int  BY <1>1
  <2> HIDE DEF U
  <2>2. Sum(f, T \cup U) = Sum(f, T) + Sum(f, U)  BY <1>1, <2>1, SumOfParts
  <2> QED  BY <2>2 DEF U
<1>4. Sum(f, T) \in Nat /\ Sum(f, S \ T) \in Nat  BY <1>1, SumType
<1>5. Sum(f, S) = Sum(f, T) + Sum(f, S \ T)  BY <1>2, <1>3
<1> QED  BY <1>4, <1>5

(* A sum of one.                                                                  *)
THEOREM SumOfOne ==
    ASSUME NEW f, NEW x, f[x] \in Int
    PROVE  Sum(f, {x}) = f[x]
<1>1. Sum(f, {} \cup {x}) = f[x] + Sum(f, {})  BY FS_EmptySet, SumAdd
<1>2. {} \cup {x} = {x}  OBVIOUS
<1> QED  BY <1>1, <1>2, SumEmpty

(* What belongs to each, summed over all, is what there is. *)
LEMMA SumByOwnerOf ==
    ASSUME NEW f, NEW k, NEW D, IsFiniteSet(D), \A i \in D : f[i] \in Int,
           NEW P, IsFiniteSet(P), \A i \in D : k[i] \in P
    PROVE  Sum([p \in P |-> Sum(f, {i \in D : k[i] = p})], P) = Sum(f, D)
<1> DEFINE Of(s) == [p \in P |-> Sum(f, {i \in s : k[i] = p})]
           T == {s \in SUBSET D : Sum(Of(s), P) = Sum(f, s)}
<1>1. {} \in T
  <2>1. \A p \in P : Of({})[p] = 0
    <3>1. \A p : {i \in {} : k[i] = p} = {}  OBVIOUS
    <3> QED  BY <3>1, SumEmpty
  <2> HIDE DEF Of
  <2> QED  BY <2>1, SumEmpty, SumOfNothing
<1>2. ASSUME NEW s \in SUBSET D, NEW x \in D \ s, s \in T PROVE s \cup {x} \in T
  <2>1. IsFiniteSet(s) /\ k[x] \in P  BY FS_Subset
  <2>2. Sum(f, s \cup {x}) = f[x] + Sum(f, s)  BY <2>1, SumAdd
  <2>3. \A p : IsFiniteSet({i \in s : k[i] = p})  BY <2>1, FS_Subset
  <2>4. \A p \in P : Of(s)[p] \in Int  BY <2>3, SumType
  <2>5. \A p \in P : Of(s \cup {x})[p] = IF p = k[x] THEN f[x] + Of(s)[p] ELSE Of(s)[p]
    <3> SUFFICES ASSUME NEW p \in P
                 PROVE Of(s \cup {x})[p] = IF p = k[x] THEN f[x] + Of(s)[p] ELSE Of(s)[p]
      OBVIOUS
    <3> DEFINE mine == {i \in s : k[i] = p}
    <3>1. CASE p = k[x]
      <4>1. {i \in s \cup {x} : k[i] = p} = mine \cup {x} /\ x \notin mine  BY <3>1
      <4>2. IsFiniteSet(mine) /\ \A i \in mine : f[i] \in Int  BY <2>3
      <4> HIDE DEF mine
      <4>3. Sum(f, mine \cup {x}) = f[x] + Sum(f, mine)  BY <4>1, <4>2, SumAdd
      <4> QED  BY <3>1, <4>1, <4>3 DEF mine
    <3>2. CASE p # k[x]
      <4>1. {i \in s \cup {x} : k[i] = p} = mine  BY <3>2
      <4> QED  BY <3>2, <4>1
    <3> QED  BY <3>1, <3>2
  <2> DEFINE a == Of(s)
             b == Of(s \cup {x})
             c == k[x]
  <2>6. c \in P /\ \A p \in P : a[p] \in Int /\ b[p] \in Int  BY <2>1, <2>4, <2>5
  <2>7. b[c] = f[x] + a[c] /\ \A p \in P \ {c} : a[p] = b[p]  BY <2>1, <2>5
  <2>8. Sum(a, P) = Sum(f, s)  BY <1>2
  <2> HIDE DEF Of, a, b, c
  <2>9. Sum(b, P) = Sum(a, P) - a[c] + b[c]  BY <2>6, <2>7, SumChange
  <2>10. Sum(a, P) \in Int /\ f[x] \in Int /\ a[c] \in Int  BY <2>6, SumType
  <2>11. Sum(b, P) = Sum(f, s \cup {x})  BY <2>2, <2>7, <2>8, <2>9, <2>10
  <2>12. s \cup {x} \in SUBSET D  OBVIOUS
  <2> QED  BY <2>11, <2>12 DEF b
<1> HIDE DEF T
<1>3. D \in T  BY <1>1, <1>2, FiniteInduction
<1> QED  BY <1>3 DEF T

(* What belongs to each, summed over all, is what there is.                        *)
THEOREM SumByOwner ==
    ASSUME NEW f, NEW k, NEW D, IsFiniteSet(D), \A i \in D : f[i] \in Int,
           NEW P, IsFiniteSet(P), \A i \in D : k[i] \in P,
           NEW g, \A p \in P : g[p] = Sum(f, {i \in D : k[i] = p})
    PROVE  Sum(g, P) = Sum(f, D)
<1> DEFINE h == [p \in P |-> Sum(f, {i \in D : k[i] = p})]
<1>1. Sum(h, P) = Sum(f, D)  BY SumByOwnerOf
<1>2. \A p \in P : IsFiniteSet({i \in D : k[i] = p})  BY FS_Subset
<1>3. \A p \in P : h[p] = g[p]  OBVIOUS
<1>4. \A p \in P : Sum(f, {i \in D : k[i] = p}) \in Int  BY <1>2, SumType
<1>5. \A p \in P : h[p] \in Int  BY <1>4
<1> HIDE DEF h
<1>6. Sum(h, P) = Sum(g, P)  BY <1>3, <1>5, SumSame
<1> QED  BY <1>1, <1>6
(* A factor common to all.                                                       *)
THEOREM SumTimes ==
    ASSUME NEW f, NEW g, NEW S, IsFiniteSet(S), NEW k \in Int,
           \A x \in S : f[x] \in Int /\ g[x] = k * f[x]
    PROVE  Sum(g, S) = k * Sum(f, S)
<1> DEFINE T == {s \in SUBSET S : Sum(g, s) = k * Sum(f, s)}
<1>1. {} \in T  BY SumEmpty
<1>2. ASSUME NEW s \in SUBSET S, NEW x \in S \ s, s \in T PROVE s \cup {x} \in T
  <2>1. IsFiniteSet(s)  BY FS_Subset
  <2>2. \A y \in S : g[y] \in Int  OBVIOUS
  <2>3. Sum(f, s \cup {x}) = f[x] + Sum(f, s) /\ Sum(g, s \cup {x}) = g[x] + Sum(g, s)
    BY <2>1, <2>2, SumAdd
  <2>4. Sum(f, s) \in Int  BY <2>1, SumType
  <2> DEFINE a == f[x]
             b == Sum(f, s)
  <2>5. a \in Int /\ b \in Int /\ g[x] = k * a /\ Sum(g, s) = k * b  BY <1>2, <2>4
  <2>6. Sum(f, s \cup {x}) = a + b /\ Sum(g, s \cup {x}) = k * a + k * b  BY <2>3, <2>5
  <2> HIDE DEF a, b
  <2>7. k * (a + b) = k * a + k * b  BY <2>5
  <2> QED  BY <2>6, <2>7
<1> HIDE DEF T
<1>3. S \in T  BY <1>1, <1>2, FiniteInduction
<1> QED  BY <1>3 DEF T

(* The same for each: as often as there are of them.                                *)
THEOREM SumOfEqual ==
    ASSUME NEW f, NEW S, IsFiniteSet(S), NEW k \in Int, \A x \in S : f[x] = k
    PROVE  Sum(f, S) = k * Cardinality(S)
<1> DEFINE T == {s \in SUBSET S : Sum(f, s) = k * Cardinality(s)}
<1>1. {} \in T  BY SumEmpty, FS_EmptySet
<1>2. ASSUME NEW s \in SUBSET S, NEW x \in S \ s, s \in T PROVE s \cup {x} \in T
  <2>1. IsFiniteSet(s)  BY FS_Subset
  <2>2. Sum(f, s \cup {x}) = f[x] + Sum(f, s)  BY <2>1, SumAdd
  <2>3. Cardinality(s \cup {x}) = Cardinality(s) + 1 /\ Cardinality(s) \in Nat
    BY <2>1, FS_AddElement, FS_CardinalityType
  <2> DEFINE n == Cardinality(s)
  <2>4. Sum(f, s \cup {x}) = k + k * n /\ Cardinality(s \cup {x}) = n + 1 /\ n \in Nat  BY <1>2, <2>2, <2>3
  <2> HIDE DEF n
  <2>5. k * (n + 1) = k + k * n  BY <2>4
  <2> QED  BY <2>4, <2>5
<1> HIDE DEF T
<1>3. S \in T  BY <1>1, <1>2, FiniteInduction
<1> QED  BY <1>3 DEF T

(* The least of some numbers. *)
LEMMA MinIs ==
    ASSUME NEW S, S \subseteq Nat, S # {}
    PROVE  Min(S) \in S /\ \A y \in S : Min(S) <= y
<1>1. \E x \in S : \A y \in S : x <= y
  <2> DEFINE R == OpToRel(<, Nat)
  <2>1. IsWellFoundedOn(R, Nat)
    BY NatLessThanWellFounded
  <2>2. PICK x \in S : \A y \in S : ~ (<<y, x>> \in R)
    <3> HIDE DEF R
    <3> QED  BY <2>1, WFMin
  <2>3. \A y \in S : y < x => <<y, x>> \in R
    BY DEF R, OpToRel
  <2> HIDE DEF R
  <2>4. \A y \in S : ~ (y < x)
    BY <2>2, <2>3
  <2>5. \A y \in S : x <= y
    BY <2>4
  <2> QED  BY <2>5
<1> QED  BY <1>1 DEF Min

(* The greatest of some numbers. *)
LEMMA MaxIs ==
    ASSUME NEW S, S \subseteq Nat, NEW x \in S, \A y \in S : y <= x
    PROVE  Max(S) = x
<1>1. \E m \in S : \A y \in S : m >= y
  OBVIOUS
<1>2. Max(S) \in S /\ \A y \in S : Max(S) >= y
  BY <1>1 DEF Max
<1>3. Max(S) \in Nat /\ x \in Nat /\ Max(S) >= x /\ Max(S) <= x
  BY <1>2
<1> QED  BY <1>3

-----------------------------------------------------------------------------
(* Folds over sequences: what they go through, one value for every prefix. *)

(* The greatest of some of the first numbers, when the last is among them. *)
LEMMA LastIsMax ==
    ASSUME NEW n \in Nat, NEW s \in SUBSET (1 .. n + 1), n + 1 \in s
    PROVE  Max(s) = n + 1 /\ s \ {Max(s)} \in SUBSET (1 .. n)
<1>1. Max(s) = n + 1
  <2>1. s \subseteq Nat /\ \A y \in s : y <= n + 1
    OBVIOUS
  <2> QED  BY <2>1, MaxIs
<1> QED  BY <1>1

(* Some of the first numbers have a greatest among them. *)
LEMMA GreatestIsIn ==
    ASSUME NEW n \in Nat, NEW s \in SUBSET (1 .. n), s # {}
    PROVE  Max(s) \in s
<1> DEFINE T == {k \in Nat : \A u \in SUBSET (1 .. k) : u # {} => Max(u) \in u}
<1>1. 0 \in T
  <2>1. \A u \in SUBSET (1 .. 0) : u = {}
    OBVIOUS
  <2> QED  BY <2>1
<1>2. ASSUME NEW k \in Nat, k \in T PROVE k + 1 \in T
  <2>1. ASSUME NEW u \in SUBSET (1 .. k + 1), u # {} PROVE Max(u) \in u
    <3>1. CASE k + 1 \in u
      BY <3>1, LastIsMax
    <3>2. CASE k + 1 \notin u
      <4>1. u \in SUBSET (1 .. k)
        BY <3>2
      <4> QED  BY <1>2, <2>1, <4>1
    <3> QED  BY <3>1, <3>2
  <2> QED  BY <2>1
<1>3. n \in T
  <2> HIDE DEF T
  <2> QED  BY <1>1, <1>2, NaturalInduction
<1> QED  BY <1>3

(* Two functions on the subsets of the first numbers that agree on a subset when they *)
(* agree on what is left of it without its greatest are the same.                  *)
Agrees(n, f, g) ==
    /\ f[{}] = g[{}]
    /\ \A s \in SUBSET (1 .. n) : s # {} /\ f[s \ {Max(s)}] = g[s \ {Max(s)}] => f[s] = g[s]

(* So they do, by induction on how far they are looked at. *)
LEMMA FoldsAgree ==
    ASSUME NEW n \in Nat, NEW f, NEW g, Agrees(n, f, g)
    PROVE  \A s \in SUBSET (1 .. n) : f[s] = g[s]
<1> USE DEF Agrees
<1> DEFINE Agree(k) == k <= n => \A s \in SUBSET (1 .. k) : f[s] = g[s]
           T == {k \in Nat : Agree(k)}
<1>1. 0 \in T
  <2>1. \A s \in SUBSET (1 .. 0) : s = {}
    OBVIOUS
  <2> QED  BY <2>1
<1>2. ASSUME NEW k \in Nat, k \in T PROVE k + 1 \in T
  <2>0. Agree(k + 1) => k + 1 \in T
    <3>1. k + 1 \in Nat
      OBVIOUS
    <3> HIDE DEF Agree
    <3> QED  BY <3>1
  <2>1. SUFFICES ASSUME k + 1 <= n, NEW s \in SUBSET (1 .. k + 1) PROVE f[s] = g[s]
    BY <2>0
  <2>2. \A u \in SUBSET (1 .. k) : f[u] = g[u]
    <3>1. k <= n
      BY <2>1
    <3>2. Agree(k)
      <4> HIDE DEF Agree
      <4> QED  BY <1>2
    <3> QED  BY <3>1, <3>2
  <2>3. CASE k + 1 \notin s
    <3>1. s \in SUBSET (1 .. k)
      BY <2>3
    <3> QED  BY <2>2, <3>1
  <2>4. CASE k + 1 \in s
    <3>1. s \ {Max(s)} \in SUBSET (1 .. k)
      BY <2>4, LastIsMax
    <3>2. s \in SUBSET (1 .. n) /\ s # {}
      BY <2>1, <2>4
    <3> QED  BY <2>2, <3>1, <3>2
  <2> QED  BY <2>3, <2>4
<1>3. n \in T
  <2> HIDE DEF T
  <2> QED  BY <1>1, <1>2, NaturalInduction
<1>4. Agree(n)
  <2> HIDE DEF Agree
  <2> QED  BY <1>3
<1> QED  BY <1>4

(* What a fold over a sequence iterates is there, when every step stays in a set. *)
IteratesTo(k, g, V, G, base, seq) ==
    /\ g \in [SUBSET (1 .. k) -> V] /\ g[{}] = base
    /\ \A s \in SUBSET (1 .. k) : s # {} => g[s] = G[<<g[s \ {Max(s)}], seq[Max(s)]>>]
Iterates(g, V, G, base, seq) == IteratesTo(Len(seq), g, V, G, base, seq)

(* It is built up one place at a time. *)
LEMMA FoldIsThere ==
    ASSUME NEW V, NEW X, NEW G \in [V \X X -> V], NEW base \in V, NEW seq \in Seq(X)
    PROVE  \E g \in [SUBSET (1 .. Len(seq)) -> V] : Iterates(g, V, G, base, seq)
<1> DEFINE P(k, g) == IteratesTo(k, g, V, G, base, seq)
           T == {k \in Nat : k <= Len(seq) => \E g : P(k, g)}
<1>1. 0 \in T
  <2> DEFINE g == [s \in SUBSET (1 .. 0) |-> base]
  <2>1. SUBSET (1 .. 0) = {{}}
    OBVIOUS
  <2>2. P(0, g)
    BY <2>1 DEF IteratesTo
  <2> QED  BY <2>2
<1>2. ASSUME NEW k \in Nat, k \in T PROVE k + 1 \in T
  <2>1. SUFFICES ASSUME k + 1 <= Len(seq) PROVE \E g : P(k + 1, g)
    OBVIOUS
  <2>2. PICK g : P(k, g)
    BY <1>2, <2>1
  <2> DEFINE i == [s \in SUBSET (1 .. k + 1) |->
                     IF k + 1 \in s THEN G[<<g[s \ {k + 1}], seq[k + 1]>>] ELSE g[s]]
  <2>3. seq[k + 1] \in X
    BY <2>1
  <2>4. ASSUME NEW s \in SUBSET (1 .. k + 1), k + 1 \in s
        PROVE  /\ Max(s) = k + 1 /\ s \ {Max(s)} \in SUBSET (1 .. k) /\ k + 1 \notin s \ {Max(s)}
               /\ i[s \ {Max(s)}] = g[s \ {k + 1}]
               /\ i[s] = G[<<i[s \ {Max(s)}], seq[Max(s)]>>] /\ i[s] \in V
    <3>1. Max(s) = k + 1 /\ s \ {Max(s)} \in SUBSET (1 .. k)
      BY <2>4, LastIsMax
    <3>2. k + 1 \notin s \ {Max(s)} /\ s \ {Max(s)} \in SUBSET (1 .. k + 1)
      BY <3>1
    <3>3. i[s \ {Max(s)}] = g[s \ {k + 1}]
      BY <3>1, <3>2
    <3>4. i[s] = G[<<g[s \ {k + 1}], seq[k + 1]>>]
      BY <2>4
    <3>5. g[s \ {k + 1}] \in V
      BY <3>1, <2>2 DEF IteratesTo
    <3>6. <<g[s \ {k + 1}], seq[k + 1]>> \in V \X X
      BY <3>5, <2>3
    <3>7. i[s] \in V
      BY <3>4, <3>6
    <3> HIDE DEF i
    <3> QED  BY <3>1, <3>2, <3>3, <3>4, <3>7
  <2>5. ASSUME NEW s \in SUBSET (1 .. k + 1), k + 1 \notin s
        PROVE  i[s] = g[s] /\ s \in SUBSET (1 .. k)
    BY <2>5
  <2>6. ASSUME NEW s \in SUBSET (1 .. k + 1), k + 1 \notin s, s # {}
        PROVE  i[s] = G[<<i[s \ {Max(s)}], seq[Max(s)]>>]
    <3>1. s \ {Max(s)} \in SUBSET (1 .. k + 1) /\ k + 1 \notin s \ {Max(s)}
      BY <2>6
    <3>2. i[s] = g[s] /\ s \in SUBSET (1 .. k) /\ i[s \ {Max(s)}] = g[s \ {Max(s)}]
      BY <2>6, <2>5, <3>1
    <3>3. g[s] = G[<<g[s \ {Max(s)}], seq[Max(s)]>>]
      BY <2>2, <2>6, <3>2 DEF IteratesTo
    <3> HIDE DEF i
    <3> QED  BY <3>2, <3>3
  <2>7. \A s \in SUBSET (1 .. k + 1) : i[s] \in V
    <3>1. ASSUME NEW s \in SUBSET (1 .. k + 1) PROVE i[s] \in V
      <4>1. CASE k + 1 \in s
        BY <4>1, <2>4
      <4>2. CASE k + 1 \notin s
        BY <4>2, <2>5, <2>2 DEF IteratesTo
      <4> QED  BY <4>1, <4>2
    <3> QED  BY <3>1
  <2>8. i \in [SUBSET (1 .. k + 1) -> V]
    <3>1. i = [s \in SUBSET (1 .. k + 1) |-> i[s]]
      OBVIOUS
    <3> HIDE DEF i
    <3> QED  BY <3>1, <2>7
  <2>9. i[{}] = base
    BY <2>5, <2>2 DEF IteratesTo
  <2>10. \A s \in SUBSET (1 .. k + 1) : s # {} => i[s] = G[<<i[s \ {Max(s)}], seq[Max(s)]>>]
    <3> HIDE DEF i
    <3> QED  BY <2>4, <2>6
  <2>11. P(k + 1, i)
    <3> HIDE DEF i
    <3> QED  BY <2>8, <2>9, <2>10 DEF IteratesTo
  <2> QED  BY <2>11
<1>3. Len(seq) \in T
  <2> HIDE DEF T
  <2>1. Len(seq) \in Nat
    OBVIOUS
  <2> QED  BY <1>1, <1>2, <2>1, NaturalInduction
<1>4. \E g : P(Len(seq), g)
  BY <1>3
<1> QED  BY <1>4 DEF Iterates, IteratesTo

(* The values it goes through, one for every prefix. *)
GoesThrough(h, G, base, seq, last) ==
    /\ h[0] = base /\ h[Len(seq)] = last
    /\ \A k \in 0 .. Len(seq) - 1 : h[k + 1] = G[<<h[k], seq[k + 1]>>]

(* The values are those at the sets of the first places. *)
LEMMA FoldPrefixes ==
    ASSUME NEW V, NEW G, NEW base, NEW X, NEW seq \in Seq(X), NEW g, Iterates(g, V, G, base, seq)
    PROVE  \E h \in [0 .. Len(seq) -> V] : GoesThrough(h, G, base, seq, g[DOMAIN seq])
<1> DEFINE h == [k \in 0 .. Len(seq) |-> g[1 .. k]]
<1>1. Len(seq) \in Nat /\ DOMAIN seq = 1 .. Len(seq)
  OBVIOUS
<1>2. \A k \in 0 .. Len(seq) : 1 .. k \in SUBSET DOMAIN seq
  BY <1>1
<1>3. h \in [0 .. Len(seq) -> V]
  BY <1>2 DEF Iterates, IteratesTo
<1>4. h[0] = base
  <2>1. 1 .. 0 = {}
    OBVIOUS
  <2> QED  BY <2>1, <1>1 DEF Iterates, IteratesTo
<1>5. h[Len(seq)] = g[DOMAIN seq]
  BY <1>1
<1>6. ASSUME NEW k \in 0 .. Len(seq) - 1 PROVE h[k + 1] = G[<<h[k], seq[k + 1]>>]
  <2>1. k \in Nat /\ 1 .. k + 1 \in SUBSET DOMAIN seq /\ k + 1 \in 1 .. k + 1
    BY <1>1, <1>2
  <2>2. Max(1 .. k + 1) = k + 1
    BY <2>1, LastIsMax
  <2>3. (1 .. k + 1) \ {k + 1} = 1 .. k
    BY <2>1
  <2>4. g[1 .. k + 1] = G[<<g[1 .. k], seq[k + 1]>>]
    <3>1. 1 .. k + 1 # {} /\ 1 .. k + 1 \in SUBSET (1 .. Len(seq))
      BY <2>1, <1>1
    <3>2. \A s \in SUBSET (1 .. Len(seq)) : s # {} => g[s] = G[<<g[s \ {Max(s)}], seq[Max(s)]>>]
      BY DEF Iterates, IteratesTo
    <3>3. g[1 .. k + 1] = G[<<g[(1 .. k + 1) \ {Max(1 .. k + 1)}], seq[Max(1 .. k + 1)]>>]
      BY <3>1, <3>2
    <3> QED  BY <2>2, <2>3, <3>3
  <2>5. k \in 0 .. Len(seq) /\ k + 1 \in 0 .. Len(seq)
    BY <1>1
  <2> QED  BY <2>4, <2>5
<1> HIDE DEF h
<1> QED  BY <1>3, <1>4, <1>5, <1>6 DEF GoesThrough

(* What a step takes: the greatest of the places looked at, and what is there. *)
LEMMA FoldTakes ==
    ASSUME NEW X, NEW seq \in Seq(X), NEW s \in SUBSET DOMAIN seq, s # {}
    PROVE  seq[Max(s)] \in X /\ s \ {Max(s)} \in SUBSET DOMAIN seq
<1>1. Len(seq) \in Nat /\ DOMAIN seq = 1 .. Len(seq)
  OBVIOUS
<1>2. Max(s) \in 1 .. Len(seq)
  BY <1>1, GreatestIsIn
<1>3. \A i \in 1 .. Len(seq) : seq[i] \in X
  OBVIOUS
<1> QED  BY <1>2, <1>3

(* So what iterates as a fold does goes through these values, step by step. *)
FoldsAs(iter, V, G, base, seq) ==
    /\ iter[{}] = base
    /\ \A s \in SUBSET DOMAIN seq : s # {} /\ iter[s \ {Max(s)}] \in V =>
          iter[s] = G[<<iter[s \ {Max(s)}], seq[Max(s)]>>]

(* It agrees with the fold that is there, and that one goes through them. *)
LEMMA FoldSteps ==
    ASSUME NEW V, NEW X, NEW G \in [V \X X -> V], NEW base \in V, NEW seq \in Seq(X),
           NEW iter, FoldsAs(iter, V, G, base, seq)
    PROVE  \E h \in [0 .. Len(seq) -> V] : GoesThrough(h, G, base, seq, iter[DOMAIN seq])
<1>1. Len(seq) \in Nat /\ DOMAIN seq = 1 .. Len(seq)
  OBVIOUS
<1>2. PICK g \in [SUBSET (1 .. Len(seq)) -> V] : Iterates(g, V, G, base, seq)
  BY FoldIsThere
<1>3. Agrees(Len(seq), iter, g)
  <2>1. iter[{}] = g[{}]
    BY <1>2 DEF FoldsAs, Iterates, IteratesTo
  <2>2. ASSUME NEW s \in SUBSET (1 .. Len(seq)), s # {}, iter[s \ {Max(s)}] = g[s \ {Max(s)}]
        PROVE  iter[s] = g[s]
    <3>1. g[s] = G[<<g[s \ {Max(s)}], seq[Max(s)]>>]
      BY <1>2, <2>2 DEF Iterates, IteratesTo
    <3>2. iter[s \ {Max(s)}] \in V
      <4>1. s \ {Max(s)} \in SUBSET (1 .. Len(seq))
        OBVIOUS
      <4> QED  BY <1>2, <2>2, <4>1
    <3>3. iter[s] = G[<<iter[s \ {Max(s)}], seq[Max(s)]>>]
      BY <1>1, <2>2, <3>2 DEF FoldsAs
    <3> QED  BY <2>2, <3>1, <3>3
  <2> QED  BY <2>1, <2>2 DEF Agrees
<1>4. iter[DOMAIN seq] = g[DOMAIN seq]
  <2>1. \A s \in SUBSET (1 .. Len(seq)) : iter[s] = g[s]
    BY <1>1, <1>3, FoldsAgree
  <2> QED  BY <1>1, <2>1
<1>5. \E h \in [0 .. Len(seq) -> V] : GoesThrough(h, G, base, seq, g[DOMAIN seq])
  BY <1>2, FoldPrefixes
<1> QED  BY <1>4, <1>5

(* Two runs of a fold that agree at the start and go on alike agree all along. *)
LEMMA StepsAgree ==
    ASSUME NEW n \in Nat, NEW h, NEW i, h[0] = i[0],
           \A k \in 0 .. n - 1 : h[k] = i[k] => h[k + 1] = i[k + 1]
    PROVE  h[n] = i[n]
<1> DEFINE T == {k \in Nat : k <= n => h[k] = i[k]}
<1>1. 0 \in T
  OBVIOUS
<1>2. ASSUME NEW k \in Nat, k \in T PROVE k + 1 \in T
  <2>1. SUFFICES ASSUME k + 1 <= n PROVE h[k + 1] = i[k + 1]
    OBVIOUS
  <2> QED  BY <1>2, <2>1
<1>3. n \in T
  <2> HIDE DEF T
  <2> QED  BY <1>1, <1>2, NaturalInduction
<1> QED  BY <1>3
===============================================================================
