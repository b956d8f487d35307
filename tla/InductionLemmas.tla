-------------------------- MODULE InductionLemmas --------------------------
(***************************************************************************)
(* Induction for the proofs of this project.  The induction theorems of    *)
(* the library take a predicate as a parameter; these take the set of the  *)
(* values it holds for, and are proved by looking at a minimal value       *)
(* outside the set.                                                        *)
(***************************************************************************)
EXTENDS Integers, Sequences, Functions, RetainSeq, FiniteSetTheorems, WellFoundedInduction, TLAPS

(* Induction over the natural numbers. *)
LEMMA NatInductionOnSet ==
    ASSUME NEW U, 0 \in U, \A n \in Nat : n \in U => n + 1 \in U
    PROVE  Nat \subseteq U
<1> SUFFICES ASSUME Nat \ U # {} PROVE FALSE
  OBVIOUS
<1> DEFINE R == OpToRel(<, Nat)
<1>1. PICK x \in Nat \ U : \A y \in Nat \ U : ~ (<<y, x>> \in R)
  <2>1. IsWellFoundedOn(R, Nat)
    BY NatLessThanWellFounded
  <2> HIDE DEF R
  <2> QED BY <2>1, WFMin
<1>2. x # 0 /\ x - 1 \in Nat /\ x - 1 < x
  OBVIOUS
<1>3. <<x - 1, x>> \in R
  BY <1>2 DEF OpToRel
<1>4. x - 1 \in U
  BY <1>1, <1>2, <1>3
<1>5. (x - 1) + 1 \in U
  BY <1>2, <1>4
<1> QED BY <1>5

(* Induction along the elements of a finite set. *)
LEMMA FiniteInductionOnSet ==
    ASSUME NEW S, IsFiniteSet(S), NEW U, {} \in U,
           \A T \in SUBSET S, x \in S : T \in U => T \cup {x} \in U
    PROVE  S \in U
<1> DEFINE V == {n \in Nat : \A T \in SUBSET S : Cardinality(T) = n => T \in U}
<1>1. \A T \in SUBSET S : IsFiniteSet(T) /\ Cardinality(T) \in Nat
  BY FS_Subset, FS_CardinalityType
<1>2. 0 \in V
  BY <1>1, FS_EmptySet
<1>3. ASSUME NEW n \in Nat, n \in V PROVE n + 1 \in V
  <2> SUFFICES ASSUME NEW T \in SUBSET S, Cardinality(T) = n + 1 PROVE T \in U
    OBVIOUS
  <2>1. T # {}
    BY FS_EmptySet
  <2>2. PICK x \in T : TRUE
    BY <2>1
  <2>3. Cardinality(T \ {x}) = n
    BY <1>1, <2>2, FS_RemoveElement, SMTT(30)
  <2>4. T \ {x} \in U
    BY <1>3, <2>3
  <2>5. (T \ {x}) \cup {x} \in U
    BY <2>4, <2>2
  <2>6. (T \ {x}) \cup {x} = T
    BY <2>2
  <2> QED BY <2>5, <2>6
<1>4. Nat \subseteq V
  <2> HIDE DEF V
  <2> QED BY <1>2, <1>3, NatInductionOnSet
<1> QED BY <1>1, <1>4

(* A recursion over an initial segment of the numbers, with values in T    *)
(* and its step given as a function.  Unless it has a solution, a recursive *)
(* function definition says nothing.                                       *)
Solves(g, N, base, F) ==
    g[0] = base /\ \A n \in 1 .. N : g[n] = F[n][g[n - 1]]
Solvable(N, T, base, F) == \E g \in [0 .. N -> T] : Solves(g, N, base, F)

(* A function defined step by step from its value at 0 exists. *)
LEMMA RecursionExists ==
    ASSUME NEW N \in Nat, NEW T, NEW base \in T, NEW F \in [1 .. N -> [T -> T]]
    PROVE  Solvable(N, T, base, F)
<1> DEFINE Sol(m) == \E g \in [0 .. N -> T] :
                        /\ g[0] = base
                        /\ \A n \in 1 .. N : n <= m => g[n] = F[n][g[n - 1]]
           U == {m \in Nat : Sol(m)}
<1>1. 0 \in U
  <2> DEFINE c == [n \in 0 .. N |-> base]
  <2>1. c \in [0 .. N -> T] /\ c[0] = base
    OBVIOUS
  <2>2. \A n \in 1 .. N : ~(n <= 0)
    OBVIOUS
  <2>3. Sol(0)
    <3> HIDE DEF c
    <3> QED BY <2>1, <2>2
  <2> QED BY <2>3
<1>2. ASSUME NEW m \in Nat, m \in U PROVE m + 1 \in U
  <2>1. PICK g \in [0 .. N -> T] :
           g[0] = base /\ \A n \in 1 .. N : n <= m => g[n] = F[n][g[n - 1]]
    BY <1>2
  <2>2. CASE m + 1 > N
    <3>1. Sol(m + 1)
      BY <2>1, <2>2
    <3> QED BY <3>1
  <2>3. CASE m + 1 <= N
    <3> DEFINE h == [g EXCEPT ![m + 1] = F[m + 1][g[m]]]
    <3>1. m + 1 \in 1 .. N /\ m \in 0 .. N
      BY <2>3
    <3>2. F[m + 1][g[m]] \in T
      BY <3>1, <2>1
    <3>3. h \in [0 .. N -> T] /\ h[0] = base /\ h[m] = g[m]
          /\ h[m + 1] = F[m + 1][g[m]]
      BY <2>1, <3>1, <3>2
    <3>4. ASSUME NEW n \in 1 .. N, n <= m + 1 PROVE h[n] = F[n][h[n - 1]]
      <4>1. CASE n = m + 1
        <5>1. n - 1 = m
          BY <4>1
        <5> HIDE DEF h
        <5> QED BY <4>1, <5>1, <3>3
      <4>2. CASE n <= m
        <5>1. h[n] = g[n] /\ h[n - 1] = g[n - 1]
          BY <4>2, <2>1, <3>1
        <5> QED BY <5>1, <2>1, <4>2
      <4> QED BY <4>1, <4>2, <3>4
    <3>5. Sol(m + 1)
      <4> HIDE DEF h
      <4> QED BY <3>3, <3>4
    <3> QED BY <3>5
  <2> QED BY <2>2, <2>3, <2>1, SMTT(30)
<1>3. N \in U
  <2> HIDE DEF U
  <2> QED BY <1>1, <1>2, NatInductionOnSet
<1>4. Sol(N)
  BY <1>3
<1> QED BY <1>4 DEF Solvable, Solves

(* An initial part of the numbers 1 .. n is known by its size. *)
LEMMA InitialSegment ==
    ASSUME NEW n \in Nat, NEW I \in SUBSET (1 .. n),
           \A i \in I : \A j \in 1 .. n : j < i => j \in I
    PROVE  Cardinality(I) \in 0 .. n /\ I = 1 .. Cardinality(I)
<1>1. \E m \in 0 .. n : I = 1 .. m
  <2> SUFFICES ASSUME \A m \in 0 .. n : I # 1 .. m PROVE FALSE
    OBVIOUS
  <2> DEFINE V == {m \in Nat : m <= n => 1 .. m \subseteq I}
  <2>1. 0 \in V
    OBVIOUS
  <2>2. ASSUME NEW m \in Nat, m \in V PROVE m + 1 \in V
    <3> SUFFICES ASSUME m + 1 <= n PROVE 1 .. m + 1 \subseteq I
      OBVIOUS
    <3>1. 1 .. m \subseteq I /\ I # 1 .. m
      BY <2>2
    <3>2. PICK i \in I : i \notin 1 .. m
      BY <3>1
    <3>3. m + 1 \in I
      BY <3>2
    <3> QED BY <3>1, <3>3
  <2>3. n \in V
    <3> HIDE DEF V
    <3> QED BY <2>1, <2>2, NatInductionOnSet
  <2>4. I = 1 .. n
    <3>1. 1 .. n \subseteq I
      BY <2>3
    <3> HIDE DEF V
    <3> QED BY <3>1
  <2> QED BY <2>4
<1>2. PICK m \in 0 .. n : I = 1 .. m
  BY <1>1
<1>3. Cardinality(1 .. m) = m
  BY FS_Interval
<1> QED BY <1>2, <1>3

(* A bounded set of numbers has a least and a greatest element. *)
LEMMA LeastExists ==
    ASSUME NEW S \in SUBSET Nat, S # {}
    PROVE  \E m \in S : \A k \in S : m <= k
<1> SUFFICES ASSUME \A m \in S : \E k \in S : k < m PROVE FALSE
  OBVIOUS
<1> DEFINE V == {m \in Nat : \A k \in 0 .. m : k \notin S}
<1>1. 0 \in V
  OBVIOUS
<1>2. ASSUME NEW m \in Nat, m \in V PROVE m + 1 \in V
  <2> SUFFICES ASSUME m + 1 \in S PROVE FALSE
    BY <1>2
  <2>1. PICK k \in S : k < m + 1
    OBVIOUS
  <2>2. k \in 0 .. m
    BY <2>1
  <2> QED BY <2>2, <1>2
<1>3. Nat \subseteq V
  <2> HIDE DEF V
  <2> QED BY <1>1, <1>2, NatInductionOnSet
<1>4. PICK m \in S : TRUE
  OBVIOUS
<1> QED BY <1>3, <1>4

-----------------------------------------------------------------------------
(* Sums over finite sets. *)

(* What SumFunctionOnSet computes, as a recursion over the subsets of S. *)
Pick(s) == CHOOSE x \in s : TRUE
SumsUp(g, f, S) ==
    \A s \in SUBSET S : g[s] = IF s = {} THEN 0 ELSE f[Pick(s)] + g[s \ {Pick(s)}]
Summable(f, S) == \E g \in [SUBSET S -> Nat] : SumsUp(g, f, S)

(* The recursion of a sum over a finite set has a solution. *)
LEMMA SumExists ==
    ASSUME NEW S, IsFiniteSet(S), NEW f, \A x \in S : f[x] \in Nat
    PROVE  Summable(f, S)
<1> DEFINE Eq(g, s) == g[s] = IF s = {} THEN 0 ELSE f[Pick(s)] + g[s \ {Pick(s)}]
           Sol(m) == \E g \in [SUBSET S -> Nat] :
                        \A s \in SUBSET S : Cardinality(s) <= m => Eq(g, s)
           U == {m \in Nat : Sol(m)}
<1>0. \A s \in SUBSET S : IsFiniteSet(s) /\ Cardinality(s) \in Nat
                          /\ Cardinality(s) <= Cardinality(S)
  BY FS_Subset, FS_CardinalityType
<1>p. \A s \in SUBSET S : s # {} => /\ Pick(s) \in s
                                    /\ s \ {Pick(s)} \in SUBSET S
                                    /\ Cardinality(s \ {Pick(s)}) = Cardinality(s) - 1
  <2> TAKE s \in SUBSET S
  <2> HAVE s # {}
  <2>1. Pick(s) \in s
    BY DEF Pick
  <2>2. Cardinality(s \ {Pick(s)}) = Cardinality(s) - 1
    BY <2>1, <1>0, FS_RemoveElement
  <2> QED BY <2>1, <2>2
<1>1. 0 \in U
  <2> DEFINE c == [s \in SUBSET S |-> 0]
  <2>1. c \in [SUBSET S -> Nat] /\ \A s \in SUBSET S : c[s] = 0
    OBVIOUS
  <2>2. \A s \in SUBSET S : Cardinality(s) <= 0 => s = {}
    BY <1>0, FS_EmptySet
  <2>3. Sol(0)
    <3> HIDE DEF c
    <3> QED BY <2>1, <2>2
  <2> QED BY <2>3
<1>2. ASSUME NEW m \in Nat, m \in U PROVE m + 1 \in U
  <2>1. PICK g \in [SUBSET S -> Nat] :
           \A s \in SUBSET S : Cardinality(s) <= m => Eq(g, s)
    BY <1>2
  <2> DEFINE h == [s \in SUBSET S |->
                     IF Cardinality(s) = m + 1 THEN f[Pick(s)] + g[s \ {Pick(s)}] ELSE g[s]]
  <2>2. ASSUME NEW s \in SUBSET S, Cardinality(s) = m + 1
        PROVE  s # {} /\ f[Pick(s)] + g[s \ {Pick(s)}] \in Nat
    <3>1. s # {}
      <4>1. Cardinality({}) = 0 /\ Cardinality(s) = m + 1
        BY FS_EmptySet, <2>2
      <4>2. Cardinality({}) # Cardinality(s)
        BY <4>1
      <4> QED BY <4>2, Zenon
    <3>2. f[Pick(s)] \in Nat /\ g[s \ {Pick(s)}] \in Nat
      BY <3>1, <1>p, <2>1
    <3> QED BY <3>1, <3>2
  <2>3. h \in [SUBSET S -> Nat]
    BY <2>1, <2>2
  <2>4. ASSUME NEW s \in SUBSET S, Cardinality(s) <= m + 1 PROVE Eq(h, s)
    <3>1. CASE s = {}
      <4>1. Cardinality(s) <= m /\ Cardinality(s) # m + 1
        BY <3>1, FS_EmptySet
      <4> QED BY <3>1, <4>1, <2>1
    <3>2. CASE s # {}
      <4>1. s \ {Pick(s)} \in SUBSET S /\ Cardinality(s \ {Pick(s)}) = Cardinality(s) - 1
        BY <3>2, <1>p
      <4>2. h[s \ {Pick(s)}] = g[s \ {Pick(s)}]
        <5>1. Cardinality(s \ {Pick(s)}) # m + 1
          BY <4>1, <1>0, <2>4
        <5> QED BY <4>1, <5>1
      <4>3. h[s] = f[Pick(s)] + g[s \ {Pick(s)}]
        BY <3>2, <2>1, <2>4, <1>0
      <4> QED BY <4>2, <4>3, <3>2
    <3> QED BY <3>1, <3>2
  <2>5. Sol(m + 1)
    <3> HIDE DEF h
    <3> QED BY <2>3, <2>4
  <2>6. m + 1 \in Nat
    OBVIOUS
  <2> HIDE DEF Sol
  <2> QED BY <2>5, <2>6
<1>3. Cardinality(S) \in U
  <2>1. Nat \subseteq U
    <3> HIDE DEF U
    <3> QED BY <1>1, <1>2, NatInductionOnSet
  <2> QED BY <2>1, <1>0
<1>4. Sol(Cardinality(S))
  BY <1>3
<1> QED BY <1>4, <1>0 DEF Summable, SumsUp

(* Two such recursions agree on the sets they share. *)
LEMMA SumsAgree ==
    ASSUME NEW S, NEW R, NEW f, NEW g, NEW h, IsFiniteSet(S),
           SumsUp(g, f, S), SumsUp(h, f, R)
    PROVE  \A T \in SUBSET (S \cap R) : g[T] = h[T]
<1> DEFINE U == {n \in Nat : \A T \in SUBSET (S \cap R) : Cardinality(T) = n => g[T] = h[T]}
<1>0. \A T \in SUBSET (S \cap R) : IsFiniteSet(T) /\ Cardinality(T) \in Nat
  BY FS_Subset, FS_CardinalityType
<1>1. 0 \in U
  <2> SUFFICES ASSUME NEW T \in SUBSET (S \cap R), Cardinality(T) = 0 PROVE g[T] = h[T]
    OBVIOUS
  <2>1. T = {}
    BY <1>0, FS_EmptySet
  <2> QED BY <2>1 DEF SumsUp
<1>2. ASSUME NEW n \in Nat, n \in U PROVE n + 1 \in U
  <2> SUFFICES ASSUME NEW T \in SUBSET (S \cap R), Cardinality(T) = n + 1 PROVE g[T] = h[T]
    OBVIOUS
  <2>1. T # {}
    <3>1. Cardinality({}) = 0
      BY FS_EmptySet
    <3> QED BY <3>1
  <2> DEFINE V == T \ {Pick(T)}
  <2>2. Pick(T) \in T
    BY <2>1 DEF Pick
  <2>3. Cardinality(V) = n /\ V \in SUBSET (S \cap R)
    BY <2>2, <1>0, FS_RemoveElement
  <2>4. g[V] = h[V]
    BY <2>3, <1>2
  <2>5. g[T] = f[Pick(T)] + g[V] /\ h[T] = f[Pick(T)] + h[V]
    BY <2>1 DEF SumsUp
  <2> QED BY <2>4, <2>5
<1>3. Nat \subseteq U
  <2> HIDE DEF U
  <2> QED BY <1>1, <1>2, NatInductionOnSet
<1> QED BY <1>0, <1>3

(* Any solution of the recursion gives the sums. *)
LEMMA SumUnfolds ==
    ASSUME NEW S, NEW f, IsFiniteSet(S), NEW g, SumsUp(g, f, S), g \in [SUBSET S -> Nat]
    PROVE  SumFunctionOnSet(f, S) = g[S]
<1> DEFINE iter[s \in SUBSET S] ==
        IF s = {} THEN 0
        ELSE LET x == CHOOSE x \in s : TRUE
             IN  f[x] + iter[s \ {x}]
<1>1. SumFunctionOnSet(f, S) = iter[S]
  BY Zenon DEF SumFunctionOnSet, FoldFunctionOnSet, MapThenFoldSet
<1>3. g = [s \in SUBSET S |-> IF s = {} THEN 0
                              ELSE LET x == CHOOSE x \in s : TRUE IN f[x] + g[s \ {x}]]
  BY DEF SumsUp, Pick
<1>4. iter = [s \in SUBSET S |-> IF s = {} THEN 0
                              ELSE LET x == CHOOSE x \in s : TRUE IN f[x] + iter[s \ {x}]]
  BY <1>3, Zenon
<1>5. SumsUp(iter, f, S)
  BY <1>4, ZenonT(40) DEF SumsUp, Pick
<1> HIDE DEF iter
<1>6. \A T \in SUBSET (S \cap S) : iter[T] = g[T]
  BY <1>5, SumsAgree
<1> QED BY <1>1, <1>6

(* The sums of f over the subsets of a finite set, in one function. *)
SumTable(g, f, S) ==
    /\ g \in [SUBSET S -> Nat]
    /\ SumsUp(g, f, S)
    /\ \A T \in SUBSET S : SumFunctionOnSet(f, T) = g[T]
HasSumTable(f, S) == \E g : SumTable(g, f, S)

(* SumFunctionOnSet of every subset is found in one table. *)
LEMMA SumsOfSubsets ==
    ASSUME NEW S, IsFiniteSet(S), NEW f, \A x \in S : f[x] \in Nat
    PROVE  HasSumTable(f, S)
<1>1. PICK g \in [SUBSET S -> Nat] : SumsUp(g, f, S)
  BY SumExists DEF Summable
<1>2. ASSUME NEW T \in SUBSET S PROVE SumFunctionOnSet(f, T) = g[T]
  <2>1. IsFiniteSet(T)
    BY FS_Subset
  <2>2. PICK h \in [SUBSET T -> Nat] : SumsUp(h, f, T)
    BY <2>1, SumExists DEF Summable
  <2>3. SumFunctionOnSet(f, T) = h[T]
    BY <2>1, <2>2, SumUnfolds
  <2>4. \A V \in SUBSET (T \cap S) : h[V] = g[V]
    BY <2>1, <2>2, <1>1, SumsAgree
  <2> QED BY <2>3, <2>4
<1>3. SumTable(g, f, S)
  BY <1>1, <1>2 DEF SumTable
<1> QED BY <1>3 DEF HasSumTable

(* Sums are sums: the three facts the proofs use. *)
LEMMA SumEmpty == ASSUME NEW f PROVE SumFunctionOnSet(f, {}) = 0
<1>1. IsFiniteSet({})
  BY FS_EmptySet
<1>2. PICK g : SumTable(g, f, {})
  BY <1>1, SumsOfSubsets DEF HasSumTable
<1> QED BY <1>2 DEF SumTable, SumsUp

(* A sum of natural numbers is one. *)
LEMMA SumType ==
    ASSUME NEW S, IsFiniteSet(S), NEW f, \A x \in S : f[x] \in Nat
    PROVE  SumFunctionOnSet(f, S) \in Nat
<1>2. PICK g : SumTable(g, f, S)
  BY SumsOfSubsets DEF HasSumTable
<1> QED BY <1>2 DEF SumTable

(* A sum is one of its terms and the sum of the others. *)
LEMMA SumRemove ==
    ASSUME NEW S, IsFiniteSet(S), NEW f, \A x \in S : f[x] \in Nat, NEW x \in S
    PROVE  SumFunctionOnSet(f, S) = f[x] + SumFunctionOnSet(f, S \ {x})
<1>a. PICK g : SumTable(g, f, S)
  BY SumsOfSubsets DEF HasSumTable
<1>1. /\ g \in [SUBSET S -> Nat]
      /\ SumsUp(g, f, S)
      /\ \A V \in SUBSET S : SumFunctionOnSet(f, V) = g[V]
  BY <1>a DEF SumTable
<1> DEFINE U == {n \in Nat : \A T \in SUBSET S : Cardinality(T) = n =>
                               \A y \in T : g[T] = f[y] + g[T \ {y}]}
<1>0. \A T \in SUBSET S : IsFiniteSet(T) /\ Cardinality(T) \in Nat
  BY FS_Subset, FS_CardinalityType
<1>2. 0 \in U
  BY <1>0, FS_EmptySet
<1>3. ASSUME NEW n \in Nat, n \in U PROVE n + 1 \in U
  <2> SUFFICES ASSUME NEW T \in SUBSET S, Cardinality(T) = n + 1, NEW y \in T
               PROVE  g[T] = f[y] + g[T \ {y}]
    OBVIOUS
  <2> DEFINE z == Pick(T)
             A == T \ {z}
             B == T \ {y}
             C == T \ {y, z}
  <2>1. z \in T /\ T # {}
    BY DEF Pick
  <2>2. Cardinality(A) = n
    <3>1. Cardinality(T \ {z}) = Cardinality(T) - 1
      BY <2>1, <1>0, FS_RemoveElement, Zenon
    <3> QED BY <3>1
  <2>3. Cardinality(B) = n
    <3>1. Cardinality(T \ {y}) = Cardinality(T) - 1
      BY <1>0, FS_RemoveElement, Zenon
    <3> QED BY <3>1
  <2>4. g[T] = f[z] + g[A]
    BY <1>1, <2>1 DEF SumsUp
  <2>5. CASE y = z
    BY <2>4, <2>5
  <2>6. CASE y # z
    <3>1. y \in A /\ A \ {y} = C /\ z \in B /\ B \ {z} = C /\ A \in SUBSET S /\ B \in SUBSET S
          /\ C \in SUBSET S
      BY <2>6, <2>1
    <3>2. g[A] = f[y] + g[A \ {y}]
      BY <3>1, <2>2, <1>3
    <3>3. g[B] = f[z] + g[B \ {z}]
      BY <3>1, <2>3, <1>3
    <3>4. f[y] \in Nat /\ f[z] \in Nat /\ g[C] \in Nat
      BY <2>1, <3>1, <1>1
    <3>5. g[A] = f[y] + g[C] /\ g[B] = f[z] + g[C]
      BY <3>1, <3>2, <3>3
    <3> HIDE DEF z, A, B, C, U
    <3>6. g[T] = f[y] + g[B]
      BY <2>4, <3>4, <3>5
    <3> QED BY <3>6 DEF B
  <2> QED BY <2>5, <2>6
<1>4. Nat \subseteq U
  <2> HIDE DEF U
  <2> QED BY <1>2, <1>3, NatInductionOnSet
<1>5. g[S] = f[x] + g[S \ {x}]
  BY <1>0, <1>4
<1> QED BY <1>5, <1>1

(* A sum is the sum of two parts. *)
LEMMA SumSplit ==
    ASSUME NEW S, IsFiniteSet(S), NEW f, \A x \in S : f[x] \in Nat, NEW T \in SUBSET S
    PROVE  SumFunctionOnSet(f, S) = SumFunctionOnSet(f, T) + SumFunctionOnSet(f, S \ T)
<1> DEFINE Sum(V) == SumFunctionOnSet(f, V)
           U == {V \in SUBSET T : Sum(S) = Sum(V) + Sum(S \ V)}
<1>0. \A V \in SUBSET S : IsFiniteSet(V) /\ Sum(V) \in Nat
  BY FS_Subset, SumType
<1>1. {} \in U
  <2>1. S \ {} = S /\ Sum({}) = 0
    BY SumEmpty
  <2>2. Sum(S) \in Nat
    BY <1>0
  <2> HIDE DEF Sum
  <2> QED BY <2>1, <2>2
<1>2. ASSUME NEW V \in SUBSET T, NEW y \in T, V \in U PROVE V \cup {y} \in U
  <2>1. CASE y \in V
    <3>1. V \cup {y} = V
      BY <2>1
    <3> QED BY <3>1, <1>2
  <2>2. CASE y \notin V
    <3> DEFINE W == V \cup {y}
    <3>1. Sum(W) = f[y] + Sum(W \ {y})
      BY <1>0, SumRemove
    <3>2. Sum(S \ V) = f[y] + Sum((S \ V) \ {y})
      BY <1>0, <2>2, SumRemove
    <3>3. W \ {y} = V /\ (S \ V) \ {y} = S \ W
      BY <2>2
    <3>4. Sum(V) \in Nat /\ Sum(S \ W) \in Nat /\ f[y] \in Nat
      BY <1>0
    <3>5. Sum(S) = Sum(V) + Sum(S \ V)
      BY <1>2
    <3> HIDE DEF Sum
    <3>6. Sum(S) = Sum(W) + Sum(S \ W)
      BY <3>1, <3>2, <3>3, <3>4, <3>5
    <3> QED BY <3>6
  <2> QED BY <2>1, <2>2
<1>3. IsFiniteSet(T)
  BY <1>0
<1>4. T \in U
  <2> HIDE DEF U
  <2> QED BY <1>1, <1>2, <1>3, FiniteInductionOnSet
<1> QED BY <1>4

(* Equal terms have equal sums. *)
LEMMA SumCongruent ==
    ASSUME NEW S, IsFiniteSet(S), NEW f, NEW h, \A x \in S : f[x] \in Nat /\ h[x] = f[x]
    PROVE  SumFunctionOnSet(f, S) = SumFunctionOnSet(h, S)
<1>1. PICK g \in [SUBSET S -> Nat] : SumsUp(g, f, S)
  BY SumExists DEF Summable
<1>2. SumsUp(g, h, S)
  BY <1>1 DEF SumsUp, Pick
<1> QED BY <1>1, <1>2, SumUnfolds

(* A sum when one term changes. *)
LEMMA SumOneChanges ==
    ASSUME NEW S, IsFiniteSet(S), NEW f, NEW g, NEW x \in S,
           \A y \in S : f[y] \in Nat /\ g[y] \in Nat, \A y \in S \ {x} : g[y] = f[y]
    PROVE  SumFunctionOnSet(g, S) + f[x] = SumFunctionOnSet(f, S) + g[x]
<1> DEFINE R == S \ {x}
<1>1. IsFiniteSet(R)
  BY FS_Subset
<1>2. SumFunctionOnSet(f, R) = SumFunctionOnSet(g, R)
  <2>1. \A y \in R : f[y] \in Nat /\ g[y] = f[y]
    OBVIOUS
  <2> HIDE DEF R
  <2> QED BY <1>1, <2>1, SumCongruent
<1>3. SumFunctionOnSet(f, R) \in Nat
  <2>1. \A y \in R : f[y] \in Nat
    OBVIOUS
  <2> HIDE DEF R
  <2> QED BY <1>1, <2>1, SumType
<1>4. SumFunctionOnSet(f, S) = f[x] + SumFunctionOnSet(f, R)
  BY SumRemove
<1>5. SumFunctionOnSet(g, S) = g[x] + SumFunctionOnSet(g, R)
  BY SumRemove
<1> QED BY <1>2, <1>3, <1>4, <1>5

(* The sum of a termwise sum. *)
LEMMA SumAdds ==
    ASSUME NEW S, IsFiniteSet(S), NEW f, NEW g, NEW h,
           \A x \in S : f[x] \in Nat /\ g[x] \in Nat /\ h[x] = f[x] + g[x]
    PROVE  SumFunctionOnSet(h, S) = SumFunctionOnSet(f, S) + SumFunctionOnSet(g, S)
<1> DEFINE Sum(k, V) == SumFunctionOnSet(k, V)
           U == {V \in SUBSET S : Sum(h, V) = Sum(f, V) + Sum(g, V)}
<1>0. \A V \in SUBSET S : IsFiniteSet(V) /\ Sum(f, V) \in Nat /\ Sum(g, V) \in Nat
  BY FS_Subset, SumType
<1>1. {} \in U
  BY SumEmpty
<1>2. ASSUME NEW V \in SUBSET S, NEW x \in S, V \in U PROVE V \cup {x} \in U
  <2>1. CASE x \in V
    <3>1. V \cup {x} = V
      BY <2>1
    <3> HIDE DEF U
    <3> QED BY <3>1, <1>2
  <2>2. CASE x \notin V
    <3> DEFINE W == V \cup {x}
    <3>1. W \in SUBSET S /\ x \in W /\ W \ {x} = V
      BY <2>2
    <3> HIDE DEF W
    <3>2. IsFiniteSet(W)
      BY <3>1, <1>0
    <3>3. Sum(f, W) = f[x] + Sum(f, V)
      BY <3>1, <3>2, SumRemove
    <3>4. Sum(g, W) = g[x] + Sum(g, V)
      BY <3>1, <3>2, SumRemove
    <3>5. \A y \in W : h[y] \in Nat
      BY <3>1
    <3>6. Sum(h, W) = h[x] + Sum(h, V)
      BY <3>1, <3>2, <3>5, SumRemove
    <3>7. Sum(h, V) = Sum(f, V) + Sum(g, V)
      BY <1>2
    <3>8. Sum(f, V) \in Nat /\ Sum(g, V) \in Nat
      BY <1>0
    <3> HIDE DEF Sum
    <3>9. W \in U
      BY <3>1, <3>3, <3>4, <3>6, <3>7, <3>8
    <3> QED BY <3>9 DEF W
  <2> QED BY <2>1, <2>2
<1>3. S \in U
  <2> HIDE DEF U
  <2> QED BY <1>1, <1>2, FiniteInductionOnSet
<1> QED BY <1>3

-----------------------------------------------------------------------------
(* Filtering a sequence. *)

(* r holds the elements of the first n of s that are in T, in their order; *)
(* h tells where each of them was.                                         *)
Selects(h, r, s, n, T) ==
    /\ h \in [1 .. Len(r) -> 1 .. n]
    /\ \A j, k \in 1 .. Len(r) : j < k => h[j] < h[k]
    /\ \A k \in 1 .. Len(r) : r[k] = s[h[k]] /\ r[k] \in T
    /\ \A i \in 1 .. n : s[i] \in T => \E k \in 1 .. Len(r) : h[k] = i
Selection(r, s, n, T) == \E h : Selects(h, r, s, n, T)

(* One more element of s: it is selected if it is in T. *)
LEMMA SelectionGrows ==
    ASSUME NEW X, NEW s \in Seq(X), NEW T, NEW n \in Nat, n + 1 <= Len(s),
           NEW r \in Seq(X), Selection(r, s, n, T)
    PROVE  /\ s[n + 1] \in T => Selection(Append(r, s[n + 1]), s, n + 1, T)
           /\ s[n + 1] \notin T => Selection(r, s, n + 1, T)
<1>1. PICK h : Selects(h, r, s, n, T)
  BY DEF Selection
<1>2. ASSUME s[n + 1] \notin T PROVE Selection(r, s, n + 1, T)
  <2>1. Selects(h, r, s, n + 1, T)
    BY <1>1, <1>2 DEF Selects
  <2> QED BY <2>1 DEF Selection
<1>3. ASSUME s[n + 1] \in T PROVE Selection(Append(r, s[n + 1]), s, n + 1, T)
  <2> DEFINE q == Append(r, s[n + 1])
             g == [k \in 1 .. Len(r) + 1 |-> IF k = Len(r) + 1 THEN n + 1 ELSE h[k]]
  <2>1. s[n + 1] \in X /\ Len(r) \in Nat
    OBVIOUS
  <2>2. Len(q) = Len(r) + 1 /\ q[Len(r) + 1] = s[n + 1] /\ \A k \in 1 .. Len(r) : q[k] = r[k]
    BY <2>1
  <2>3. /\ h \in [1 .. Len(r) -> 1 .. n]
        /\ \A j, k \in 1 .. Len(r) : j < k => h[j] < h[k]
        /\ \A k \in 1 .. Len(r) : r[k] = s[h[k]] /\ r[k] \in T
        /\ \A i \in 1 .. n : s[i] \in T => \E k \in 1 .. Len(r) : h[k] = i
    BY <1>1 DEF Selects
  <2>4. g \in [1 .. Len(r) + 1 -> 1 .. n + 1] /\ g[Len(r) + 1] = n + 1
        /\ \A k \in 1 .. Len(r) : g[k] = h[k]
    BY <2>1, <2>3
  <2> HIDE DEF g, q
  <2>5. \A j, k \in 1 .. Len(q) : j < k => g[j] < g[k]
    <3> SUFFICES ASSUME NEW j \in 1 .. Len(q), NEW k \in 1 .. Len(q), j < k PROVE g[j] < g[k]
      OBVIOUS
    <3>1. j \in 1 .. Len(r) /\ h[j] \in 1 .. n
      BY <2>1, <2>2, <2>3
    <3>2. CASE k = Len(r) + 1
      BY <3>1, <3>2, <2>4
    <3>3. CASE k \in 1 .. Len(r)
      BY <3>1, <3>3, <2>3, <2>4
    <3> QED BY <3>2, <3>3, <2>1, <2>2
  <2>6. \A k \in 1 .. Len(q) : q[k] = s[g[k]] /\ q[k] \in T
    <3> SUFFICES ASSUME NEW k \in 1 .. Len(q) PROVE q[k] = s[g[k]] /\ q[k] \in T
      OBVIOUS
    <3>1. CASE k = Len(r) + 1
      BY <3>1, <2>2, <2>4, <1>3
    <3>2. CASE k \in 1 .. Len(r)
      <4>1. q[k] = r[k] /\ g[k] = h[k]
        BY <3>2, <2>2, <2>4
      <4> QED BY <4>1, <3>2, <2>3
    <3> QED BY <3>1, <3>2, <2>1, <2>2
  <2>7. \A i \in 1 .. n + 1 : s[i] \in T => \E k \in 1 .. Len(q) : g[k] = i
    <3> SUFFICES ASSUME NEW i \in 1 .. n + 1, s[i] \in T PROVE \E k \in 1 .. Len(q) : g[k] = i
      OBVIOUS
    <3>1. CASE i = n + 1
      BY <3>1, <2>1, <2>2, <2>4
    <3>2. CASE i \in 1 .. n
      <4>1. PICK k \in 1 .. Len(r) : h[k] = i
        BY <3>2, <2>3
      <4> QED BY <4>1, <2>1, <2>2, <2>4
    <3> QED BY <3>1, <3>2
  <2>8. Selects(g, q, s, n + 1, T)
    BY <2>2, <2>4, <2>5, <2>6, <2>7 DEF Selects
  <2>9. Selection(q, s, n + 1, T)
    BY <2>8 DEF Selection
  <2> QED BY <2>9 DEF q
<1> QED BY <1>2, <1>3

(* What Retain returns. *)
LEMMA RetainSelects ==
    ASSUME NEW X, NEW s \in Seq(X), NEW T
    PROVE  Retain(s, T) \in Seq(X) /\ Selection(Retain(s, T), s, Len(s), T)
<1> DEFINE N == Len(s)
           kept[n \in 0 .. Len(s)] ==
              IF n = 0 THEN <<>>
              ELSE IF s[n] \in T THEN Append(kept[n - 1], s[n]) ELSE kept[n - 1]
           F == [n \in 1 .. N |-> [r \in Seq(X) |-> IF s[n] \in T THEN Append(r, s[n]) ELSE r]]
<1>1. Retain(s, T) = kept[N]
  BY Zenon DEF Retain
<1>2. N \in Nat /\ <<>> \in Seq(X) /\ F \in [1 .. N -> [Seq(X) -> Seq(X)]]
  <2>1. \A n \in 1 .. N : s[n] \in X
    OBVIOUS
  <2> QED BY <2>1
<1>3. PICK g \in [0 .. N -> Seq(X)] : Solves(g, N, <<>>, F)
  <2> HIDE DEF F, N
  <2> QED BY <1>2, RecursionExists DEF Solvable
<1>4. g = [n \in 0 .. Len(s) |-> IF n = 0 THEN <<>>
              ELSE IF s[n] \in T THEN Append(g[n - 1], s[n]) ELSE g[n - 1]]
  <2>1. \A n \in 1 .. N : g[n] = IF s[n] \in T THEN Append(g[n - 1], s[n]) ELSE g[n - 1]
    <3> SUFFICES ASSUME NEW n \in 1 .. N
                 PROVE  g[n] = IF s[n] \in T THEN Append(g[n - 1], s[n]) ELSE g[n - 1]
      OBVIOUS
    <3>1. g[n] = F[n][g[n - 1]]
      <4> HIDE DEF F, N
      <4> QED BY <1>3 DEF Solves
    <3>2. g[n - 1] \in Seq(X)
      BY <1>2, <1>3
    <3>3. F[n] = [r \in Seq(X) |-> IF s[n] \in T THEN Append(r, s[n]) ELSE r]
      OBVIOUS
    <3> HIDE DEF F
    <3> QED BY <3>1, <3>2, <3>3
  <2>2. g[0] = <<>>
    BY <1>3 DEF Solves
  <2>3. \A n \in 0 .. Len(s) : g[n] = IF n = 0 THEN <<>>
              ELSE IF s[n] \in T THEN Append(g[n - 1], s[n]) ELSE g[n - 1]
    <3> SUFFICES ASSUME NEW n \in 0 .. Len(s)
                 PROVE  g[n] = IF n = 0 THEN <<>>
                               ELSE IF s[n] \in T THEN Append(g[n - 1], s[n]) ELSE g[n - 1]
      OBVIOUS
    <3>1. CASE n = 0
      BY <3>1, <2>2
    <3>2. CASE n # 0
      <4>1. n \in 1 .. N
        BY <3>2, <1>2
      <4> HIDE DEF F, N
      <4> QED BY <3>2, <4>1, <2>1
    <3> QED BY <3>1, <3>2
  <2>4. g = [n \in 0 .. Len(s) |-> g[n]]
    BY <1>3
  <2> QED BY <2>3, <2>4, Zenon
<1>5. kept = [n \in 0 .. Len(s) |-> IF n = 0 THEN <<>>
              ELSE IF s[n] \in T THEN Append(kept[n - 1], s[n]) ELSE kept[n - 1]]
  BY <1>4, Zenon
<1> HIDE DEF kept, F
<1> DEFINE U == {n \in Nat : n <= N => kept[n] \in Seq(X) /\ Selection(kept[n], s, n, T)}
<1>6. 0 \in U
  <2>1. kept[0] = <<>>
    BY <1>2, <1>5
  <2>2. Selects(<<>>, <<>>, s, 0, T)
    BY DEF Selects
  <2>3. Selection(<<>>, s, 0, T)
    BY <2>2 DEF Selection
  <2> QED BY <2>1, <2>3, <1>2
<1>7. ASSUME NEW n \in Nat, n \in U PROVE n + 1 \in U
  <2> SUFFICES ASSUME n + 1 <= N
               PROVE  kept[n + 1] \in Seq(X) /\ Selection(kept[n + 1], s, n + 1, T)
    OBVIOUS
  <2>1. kept[n] \in Seq(X) /\ Selection(kept[n], s, n, T)
    BY <1>7, <1>2
  <2>2. kept[n + 1] = IF s[n + 1] \in T THEN Append(kept[n], s[n + 1]) ELSE kept[n]
    <3>1. n + 1 \in 0 .. Len(s) /\ n + 1 # 0 /\ (n + 1) - 1 = n
      BY <1>2
    <3> QED BY <3>1, <1>5
  <2>3. /\ s[n + 1] \in T => Selection(Append(kept[n], s[n + 1]), s, n + 1, T)
        /\ s[n + 1] \notin T => Selection(kept[n], s, n + 1, T)
    BY <2>1, SelectionGrows
  <2>4. s[n + 1] \in X
    BY <1>2
  <2>5. Append(kept[n], s[n + 1]) \in Seq(X)
    BY <2>1, <2>4
  <2>6. CASE s[n + 1] \in T
    <3>1. kept[n + 1] = Append(kept[n], s[n + 1])
      BY <2>2, <2>6
    <3> QED BY <3>1, <2>3, <2>5, <2>6
  <2>7. CASE s[n + 1] \notin T
    <3>1. kept[n + 1] = kept[n]
      BY <2>2, <2>7
    <3> QED BY <3>1, <2>1, <2>3, <2>7
  <2> QED BY <2>6, <2>7
<1>8. N \in U
  <2> HIDE DEF U
  <2> QED BY <1>2, <1>6, <1>7, NatInductionOnSet
<1>9. kept[N] \in Seq(X) /\ Selection(kept[N], s, N, T)
  BY <1>2, <1>8
<1> QED BY <1>1, <1>9

(* A filter that keeps the elements from j + 1 to n and no other. *)
LEMMA RetainSlice ==
    ASSUME NEW X, NEW s \in Seq(X), NEW T, NEW n \in 0 .. Len(s), NEW j \in 0 .. n,
           \A k \in 1 .. Len(s) : s[k] \in T <=> k > j /\ k <= n
    PROVE  /\ Retain(s, T) \in Seq(X)
           /\ Len(Retain(s, T)) = n - j
           /\ \A k \in 1 .. n - j : Retain(s, T)[k] = s[j + k]
<1> DEFINE r == Retain(s, T)
<1>1. r \in Seq(X) /\ Selection(r, s, Len(s), T)
  BY RetainSelects
<1> HIDE DEF r
<1>2. PICK h : Selects(h, r, s, Len(s), T)
  BY <1>1 DEF Selection
<1> DEFINE L == Len(r)
<1>3. n \in Nat /\ L \in Nat /\ j \in Nat /\ j <= n /\ Len(s) \in Nat /\ n <= Len(s)
  BY <1>1
<1>4. /\ h \in [1 .. L -> 1 .. Len(s)]
      /\ \A i, k \in 1 .. L : i < k => h[i] < h[k]
      /\ \A k \in 1 .. L : r[k] = s[h[k]] /\ r[k] \in T
      /\ \A i \in 1 .. Len(s) : s[i] \in T => \E k \in 1 .. L : h[k] = i
  BY <1>2 DEF Selects
<1>5. \A k \in 1 .. L : h[k] \in Nat /\ h[k] > j /\ h[k] <= n
  BY <1>3, <1>4
<1>6. \A i \in j + 1 .. n : \E k \in 1 .. L : h[k] = i
  BY <1>3, <1>4
<1>7. \A i, k \in 1 .. L : i < k => h[i] < h[k]
  BY <1>4
<1>8. \A k \in 1 .. L : r[k] = s[h[k]]
  BY <1>4
<1> HIDE DEF L
<1> DEFINE U == {k \in Nat : k + 1 <= L => h[k + 1] = j + (k + 1)}
<1>9. 0 \in U
  <2> SUFFICES ASSUME 1 <= L PROVE h[1] = j + 1
    OBVIOUS
  <2>1. h[1] \in Nat /\ h[1] > j /\ h[1] <= n
    BY <1>5, <1>3
  <2>2. PICK k \in 1 .. L : h[k] = j + 1
    BY <2>1, <1>6, <1>3
  <2> QED BY <2>1, <2>2, <1>7, <1>3
<1>10. ASSUME NEW m \in Nat, m \in U PROVE m + 1 \in U
  <2> SUFFICES ASSUME (m + 1) + 1 <= L PROVE h[(m + 1) + 1] = j + ((m + 1) + 1)
    OBVIOUS
  <2>1. h[m + 1] = j + (m + 1)
    BY <1>10, <1>3
  <2>2. m + 1 \in 1 .. L /\ (m + 1) + 1 \in 1 .. L
    BY <1>3
  <2>3. h[(m + 1) + 1] > j + (m + 1) /\ h[(m + 1) + 1] <= n /\ h[(m + 1) + 1] \in Nat
    BY <2>1, <2>2, <1>7, <1>5
  <2>4. PICK k \in 1 .. L : h[k] = j + ((m + 1) + 1)
    BY <2>3, <1>6, <1>3
  <2>5. k > m + 1
    <3> SUFFICES ASSUME k <= m + 1 PROVE FALSE
      BY <1>3
    <3>1. h[k] <= h[m + 1]
      BY <2>2, <1>7, <1>5
    <3> QED BY <3>1, <2>1, <2>4, <1>3
  <2>6. h[(m + 1) + 1] <= h[k]
    BY <2>5, <2>2, <1>7, <1>5, <1>3
  <2> QED BY <2>3, <2>4, <2>6, <1>3
<1>11. \A k \in 1 .. L : h[k] = j + k
  <2>1. Nat \subseteq U
    <3> HIDE DEF U
    <3> QED BY <1>9, <1>10, NatInductionOnSet
  <2> SUFFICES ASSUME NEW k \in 1 .. L PROVE h[k] = j + k
    OBVIOUS
  <2>2. k - 1 \in Nat /\ (k - 1) + 1 = k /\ k <= L
    BY <1>3
  <2>3. k - 1 \in U
    BY <2>1, <2>2
  <2> QED BY <2>2, <2>3
<1>12. L = n - j
  <2>1. L <= n - j
    <3>1. CASE L = 0
      BY <3>1, <1>3
    <3>2. CASE L # 0
      <4>1. L \in 1 .. L
        BY <3>2, <1>3
      <4> QED BY <4>1, <1>11, <1>5, <1>3
    <3> QED BY <3>1, <3>2
  <2>2. L >= n - j
    <3> SUFFICES ASSUME L < n - j PROVE FALSE
      BY <1>3
    <3>1. j + L + 1 \in j + 1 .. n
      BY <1>3
    <3>2. PICK k \in 1 .. L : h[k] = j + L + 1
      BY <3>1, <1>6
    <3> QED BY <3>2, <1>11, <1>3
  <2> QED BY <2>1, <2>2, <1>3
<1>13. \A k \in 1 .. n - j : r[k] = s[j + k]
  BY <1>8, <1>11, <1>12
<1> QED BY <1>1, <1>12, <1>13 DEF r, L

(* A filter that drops the first j elements and no other. *)
LEMMA RetainSuffix ==
    ASSUME NEW X, NEW s \in Seq(X), NEW T, NEW j \in 0 .. Len(s),
           \A k \in 1 .. Len(s) : s[k] \in T <=> k > j
    PROVE  /\ Retain(s, T) \in Seq(X)
           /\ Len(Retain(s, T)) = Len(s) - j
           /\ \A k \in 1 .. Len(s) - j : Retain(s, T)[k] = s[j + k]
<1>1. Len(s) \in 0 .. Len(s) /\ \A k \in 1 .. Len(s) : s[k] \in T <=> k > j /\ k <= Len(s)
  OBVIOUS
<1> QED BY <1>1, RetainSlice, ZenonT(60)

-----------------------------------------------------------------------------
(* Paths in a tree of blocks.  B are the blocks, O the root, P the parent  *)
(* of each block and S a slot for each, above that of its parent.          *)
IsTree(B, O, P, S) ==
    /\ IsFiniteSet(B)
    /\ O \notin B
    /\ P \in [B -> B \cup {O}]
    /\ S \in [B -> Nat]
    /\ \A b \in B : P[b] # O => S[P[b]] < S[b]

IsPath(path, B, O, P) ==
    path = [p \in B \cup {O} |-> IF p = O THEN <<>> ELSE Append(path[P[p]], p)]

(* A function on a finite set is bounded. *)
LEMMA FiniteBound ==
    ASSUME NEW B, IsFiniteSet(B), NEW S \in [B -> Nat]
    PROVE  \E m \in Nat : \A b \in B : S[b] < m
<1> DEFINE Bounded(T) == \E m \in Nat : \A b \in T : S[b] < m
           U == {T \in SUBSET B : Bounded(T)}
<1>1. {} \in U
  OBVIOUS
<1>2. ASSUME NEW T \in SUBSET B, NEW x \in B, T \in U PROVE T \cup {x} \in U
  <2>1. PICK m \in Nat : \A b \in T : S[b] < m
    BY <1>2
  <2>2. \A b \in T \cup {x} : S[b] \in Nat
    OBVIOUS
  <2>3. CASE S[x] < m
    BY <2>1, <2>3
  <2>4. CASE ~(S[x] < m)
    <3>1. S[x] + 1 \in Nat /\ \A b \in T \cup {x} : S[b] < S[x] + 1
      BY <2>1, <2>2, <2>4
    <3>2. Bounded(T \cup {x})
      BY <3>1
    <3> QED BY <3>2
  <2> QED BY <2>3, <2>4
<1>3. B \in U
  <2> HIDE DEF U
  <2> QED BY <1>1, <1>2, FiniteInductionOnSet
<1> QED BY <1>3

(* The chains of the blocks exist. *)
LEMMA PathExists ==
    ASSUME NEW B, NEW O, NEW P, NEW S, IsTree(B, O, P, S)
    PROVE  \E path : IsPath(path, B, O, P)
<1> DEFINE D == B \cup {O}
           Step(g, p) == IF p = O THEN <<>> ELSE Append(g[P[p]], p)
           Upto(g, m) == \A p \in D : (p = O \/ S[p] < m) => g[p] = Step(g, p)
           U == {m \in Nat : \E g \in [D -> Seq(B)] : Upto(g, m)}
<1>1. O \notin B /\ P \in [B -> D] /\ S \in [B -> Nat] /\ \A b \in B : P[b] # O => S[P[b]] < S[b]
  BY DEF IsTree
<1>2. 0 \in U
  <2> DEFINE c == [p \in D |-> <<>>]
  <2>1. c \in [D -> Seq(B)]
    OBVIOUS
  <2>2. Upto(c, 0)
    BY <1>1
  <2> HIDE DEF c
  <2> QED BY <2>1, <2>2
<1>3. ASSUME NEW m \in Nat, m \in U PROVE m + 1 \in U
  <2>1. PICK g \in [D -> Seq(B)] : Upto(g, m)
    BY <1>3
  <2> DEFINE h == [p \in D |-> Step(g, p)]
  <2>2. h \in [D -> Seq(B)]
    <3> SUFFICES ASSUME NEW p \in D PROVE Step(g, p) \in Seq(B)
      BY Zenon
    <3>1. CASE p = O
      BY <3>1
    <3>2. CASE p # O
      <4>1. p \in B /\ P[p] \in D /\ g[P[p]] \in Seq(B)
        BY <3>2, <1>1, <2>1
      <4>2. Append(g[P[p]], p) \in Seq(B)
        BY <4>1
      <4> QED BY <3>2, <4>2
    <3> QED BY <3>1, <3>2
  <2>3. Upto(h, m + 1)
    <3> SUFFICES ASSUME NEW p \in D, p = O \/ S[p] < m + 1 PROVE h[p] = Step(h, p)
      OBVIOUS
    <3>1. CASE p = O
      BY <3>1
    <3>2. CASE p # O
      <4>1. p \in B /\ P[p] \in D /\ S[p] \in Nat
        BY <3>2, <1>1
      <4>2. P[p] = O \/ S[P[p]] < m
        <5> SUFFICES ASSUME P[p] # O PROVE S[P[p]] < m
          OBVIOUS
        <5>1. S[P[p]] < S[p] /\ P[p] \in B
          BY <4>1, <1>1
        <5>2. S[P[p]] \in Nat
          BY <5>1, <1>1
        <5> QED BY <5>1, <5>2, <4>1, <3>2
      <4>3. g[P[p]] = Step(g, P[p])
        BY <4>1, <4>2, <2>1
      <4>4. h[P[p]] = Step(g, P[p])
        BY <4>1
      <4>5. h[p] = Append(g[P[p]], p)
        BY <3>2
      <4> HIDE DEF h
      <4> QED BY <4>3, <4>4, <4>5, <3>2
    <3> QED BY <3>1, <3>2
  <2> HIDE DEF h
  <2>4. m + 1 \in Nat
    OBVIOUS
  <2> HIDE DEF Upto
  <2> QED BY <2>2, <2>3, <2>4
<1>4. Nat \subseteq U
  <2> HIDE DEF U
  <2> QED BY <1>2, <1>3, NatInductionOnSet
<1>5. PICK m \in Nat : \A b \in B : S[b] < m
  BY FiniteBound DEF IsTree
<1>6. PICK g \in [D -> Seq(B)] : Upto(g, m)
  BY <1>4, <1>5
<1>7. \A p \in D : g[p] = Step(g, p)
  BY <1>5, <1>6
<1>8. g = [p \in D |-> g[p]]
  BY <1>6
<1>9. g = [p \in D |-> Step(g, p)]
  BY <1>7, <1>8, Zenon
<1> QED BY <1>9, Zenon DEF IsPath

(* What a chain is: the chains of its blocks are its prefixes, each block  *)
(* is the parent of the next, and the slots grow.                          *)
Chained(path, c, O, P, S) ==
    /\ \A i \in 1 .. Len(c) : path[c[i]] = SubSeq(c, 1, i)
    /\ \A i \in 1 .. Len(c) : Len(path[c[i]]) = i
    /\ \A i \in 1 .. Len(c) : P[c[i]] = IF i = 1 THEN O ELSE c[i - 1]
    /\ \A i, j \in 1 .. Len(c) : i < j => S[c[i]] < S[c[j]]

(* The chain of a block ends with the block. *)
EndsWith(c, b) == Len(c) > 0 /\ c[Len(c)] = b

(* An extended chain is a chain. *)
LEMMA ChainGrows ==
    ASSUME NEW B, NEW O, NEW P, NEW S, IsTree(B, O, P, S),
           NEW path, NEW p \in B, NEW c \in Seq(B), Chained(path, c, O, P, S),
           path[p] = Append(c, p),
           P[p] = O => c = <<>>, P[p] # O => EndsWith(c, P[p])
    PROVE  Chained(path, Append(c, p), O, P, S)
<1> DEFINE d == Append(c, p)
           n == Len(c)
<1>1. O \notin B /\ P \in [B -> B \cup {O}] /\ S \in [B -> Nat] /\ \A b \in B : P[b] # O => S[P[b]] < S[b]
  BY DEF IsTree
<1>2. n \in Nat /\ d \in Seq(B) /\ Len(d) = n + 1 /\ d[n + 1] = p /\ \A i \in 1 .. n : d[i] = c[i] /\ c[i] \in B
  OBVIOUS
<1>3. /\ \A i \in 1 .. n : path[c[i]] = SubSeq(c, 1, i)
      /\ \A i \in 1 .. n : Len(path[c[i]]) = i
      /\ \A i \in 1 .. n : P[c[i]] = IF i = 1 THEN O ELSE c[i - 1]
      /\ \A i, j \in 1 .. n : i < j => S[c[i]] < S[c[j]]
  BY DEF Chained
<1>4. \A i \in 1 .. n : SubSeq(d, 1, i) = SubSeq(c, 1, i)
  <2> SUFFICES ASSUME NEW i \in 1 .. n PROVE SubSeq(d, 1, i) = SubSeq(c, 1, i)
    OBVIOUS
  <2> QED BY <1>2
<1>5. SubSeq(d, 1, n + 1) = d
  BY <1>2
<1>6. path[p] = d
  OBVIOUS
<1>7. n = 0 => P[p] = O
  BY <1>1 DEF EndsWith
<1>8. n > 0 => P[p] = c[n] /\ P[p] # O
  <2> SUFFICES ASSUME n > 0 PROVE P[p] = c[n] /\ P[p] # O
    OBVIOUS
  <2>1. c # <<>>
    OBVIOUS
  <2> QED BY <2>1 DEF EndsWith
<1> HIDE DEF d, n
<1>9. \A i \in 1 .. n + 1 : path[d[i]] = SubSeq(d, 1, i)
  <2> SUFFICES ASSUME NEW i \in 1 .. n + 1 PROVE path[d[i]] = SubSeq(d, 1, i)
    OBVIOUS
  <2>1. CASE i = n + 1
    BY <2>1, <1>2, <1>5, <1>6
  <2>2. CASE i \in 1 .. n
    BY <2>2, <1>2, <1>3, <1>4
  <2> QED BY <2>1, <2>2, <1>2
<1>10. \A i \in 1 .. n + 1 : Len(path[d[i]]) = i
  <2> SUFFICES ASSUME NEW i \in 1 .. n + 1 PROVE Len(path[d[i]]) = i
    OBVIOUS
  <2>1. CASE i = n + 1
    BY <2>1, <1>2, <1>6
  <2>2. CASE i \in 1 .. n
    BY <2>2, <1>2, <1>3
  <2> QED BY <2>1, <2>2, <1>2
<1>11. \A i \in 1 .. n + 1 : P[d[i]] = IF i = 1 THEN O ELSE d[i - 1]
  <2> SUFFICES ASSUME NEW i \in 1 .. n + 1 PROVE P[d[i]] = IF i = 1 THEN O ELSE d[i - 1]
    OBVIOUS
  <2>1. CASE i = n + 1
    <3>1. CASE n = 0
      BY <2>1, <3>1, <1>2, <1>7
    <3>2. CASE n # 0
      BY <2>1, <3>2, <1>2, <1>8
    <3> QED BY <3>1, <3>2
  <2>2. CASE i \in 1 .. n
    <3>1. P[c[i]] = IF i = 1 THEN O ELSE c[i - 1]
      BY <2>2, <1>3
    <3>2. i # 1 => i - 1 \in 1 .. n
      BY <2>2, <1>2
    <3> QED BY <2>2, <1>2, <3>1, <3>2
  <2> QED BY <2>1, <2>2, <1>2
<1>12. \A i, j \in 1 .. n + 1 : i < j => S[d[i]] < S[d[j]]
  <2> SUFFICES ASSUME NEW i \in 1 .. n + 1, NEW j \in 1 .. n + 1, i < j PROVE S[d[i]] < S[d[j]]
    OBVIOUS
  <2>1. CASE j = n + 1
    <3>1. i \in 1 .. n /\ n \in 1 .. n /\ n > 0
      BY <2>1, <1>2
    <3>2. S[c[n]] < S[p]
      BY <3>1, <1>8, <1>1
    <3>3. c[i] \in B /\ c[n] \in B /\ S[c[i]] \in Nat /\ S[c[n]] \in Nat /\ S[p] \in Nat
      BY <3>1, <1>2, <1>1
    <3>4. S[c[i]] < S[p]
      <4>1. CASE i = n
        BY <4>1, <3>2
      <4>2. CASE i < n
        <5>1. S[c[i]] < S[c[n]]
          BY <4>2, <3>1, <1>3
        <5> QED BY <5>1, <3>2, <3>3
      <4> QED BY <4>1, <4>2, <3>1
    <3> QED BY <3>4, <3>1, <2>1, <1>2
  <2>2. CASE j \in 1 .. n
    <3>1. i \in 1 .. n
      BY <2>2, <1>2
    <3> QED BY <3>1, <2>2, <1>2, <1>3
  <2> QED BY <2>1, <2>2, <1>2
<1>13. Chained(path, d, O, P, S)
  BY <1>2, <1>9, <1>10, <1>11, <1>12 DEF Chained
<1> QED BY <1>13 DEF d

(* The chains of the blocks are chains. *)
LEMMA PathFacts ==
    ASSUME NEW B, NEW O, NEW P, NEW S, IsTree(B, O, P, S),
           NEW path, IsPath(path, B, O, P)
    PROVE  /\ path \in [B \cup {O} -> Seq(B)]
           /\ path[O] = <<>>
           /\ \A b \in B : path[b] = Append(path[P[b]], b) /\ EndsWith(path[b], b)
           /\ \A p \in B \cup {O} : Chained(path, path[p], O, P, S)
<1> DEFINE D == B \cup {O}
           Good(p) == /\ path[p] \in Seq(B)
                      /\ Chained(path, path[p], O, P, S)
                      /\ p = O => path[p] = <<>>
                      /\ p # O => EndsWith(path[p], p)
           U == {m \in Nat : \A p \in D : (p = O \/ S[p] < m) => Good(p)}
<1>1. O \notin B /\ P \in [B -> D] /\ S \in [B -> Nat] /\ \A b \in B : P[b] # O => S[P[b]] < S[b]
  BY DEF IsTree
<1>2. path[O] = <<>> /\ \A b \in B : path[b] = Append(path[P[b]], b)
  <2>1. \A p \in D : path[p] = IF p = O THEN <<>> ELSE Append(path[P[p]], p)
    BY DEF IsPath
  <2> QED BY <2>1, <1>1
<1>3. Good(O)
  <2>1. Chained(path, <<>>, O, P, S)
    BY DEF Chained
  <2> QED BY <2>1, <1>2
<1>4. 0 \in U
  BY <1>1, <1>3
<1>5. ASSUME NEW m \in Nat, m \in U PROVE m + 1 \in U
  <2> SUFFICES ASSUME NEW p \in D, p = O \/ S[p] < m + 1 PROVE Good(p)
    OBVIOUS
  <2>1. CASE p = O
    BY <2>1, <1>3
  <2>2. CASE p # O
    <3>1. p \in B /\ P[p] \in D /\ S[p] \in Nat
      BY <2>2, <1>1
    <3>2. P[p] = O \/ S[P[p]] < m
      <4> SUFFICES ASSUME P[p] # O PROVE S[P[p]] < m
        OBVIOUS
      <4>1. S[P[p]] < S[p] /\ P[p] \in B
        BY <3>1, <1>1
      <4>2. S[P[p]] \in Nat
        BY <4>1, <1>1
      <4> QED BY <4>1, <4>2, <3>1, <2>2
    <3>3. Good(P[p])
      BY <3>1, <3>2, <1>5
    <3> DEFINE c == path[P[p]]
    <3>4. c \in Seq(B) /\ Chained(path, c, O, P, S) /\ path[p] = Append(c, p)
          /\ (P[p] = O => c = <<>>) /\ (P[p] # O => EndsWith(c, P[p]))
      BY <3>1, <3>3, <1>2
    <3> HIDE DEF c
    <3>5. Chained(path, Append(c, p), O, P, S)
      BY <3>1, <3>4, ChainGrows
    <3>6. Append(c, p) \in Seq(B) /\ EndsWith(Append(c, p), p)
      BY <3>1, <3>4 DEF EndsWith
    <3> QED BY <2>2, <3>4, <3>5, <3>6
  <2> QED BY <2>1, <2>2
<1>6. Nat \subseteq U
  <2> HIDE DEF U
  <2> QED BY <1>4, <1>5, NatInductionOnSet
<1>7. \A p \in D : Good(p)
  <2> SUFFICES ASSUME NEW p \in D PROVE Good(p)
    OBVIOUS
  <2>1. CASE p = O
    BY <2>1, <1>3
  <2>2. CASE p # O
    <3>1. S[p] \in Nat /\ S[p] + 1 \in Nat /\ S[p] < S[p] + 1
      BY <2>2, <1>1
    <3>2. S[p] + 1 \in U
      BY <3>1, <1>6
    <3> QED BY <3>1, <3>2
  <2> QED BY <2>1, <2>2
<1>8. path \in [D -> Seq(B)]
  <2>1. path = [p \in D |-> IF p = O THEN <<>> ELSE Append(path[P[p]], p)]
    BY DEF IsPath
  <2> DEFINE f == [p \in D |-> IF p = O THEN <<>> ELSE Append(path[P[p]], p)]
  <2>2. DOMAIN f = D /\ f = [p \in D |-> f[p]]
    OBVIOUS
  <2>3. path = f
    BY <2>1
  <2> HIDE DEF f
  <2>4. path = [p \in D |-> path[p]]
    BY <2>2, <2>3
  <2>5. \A p \in D : path[p] \in Seq(B)
    BY <1>7
  <2> QED BY <2>4, <2>5
<1>9. \A b \in B : EndsWith(path[b], b)
  BY <1>1, <1>7
<1> QED BY <1>2, <1>7, <1>8, <1>9

-----------------------------------------------------------------------------
(* Pieces of a sequence: s is the part of c after its first a elements. *)
Piece(c, s, a, B) ==
    /\ s \in Seq(B) /\ a \in Nat /\ a + Len(s) <= Len(c)
    /\ \A k \in 1 .. Len(s) : s[k] = c[a + k]

(* A piece and the piece after it are one piece. *)
LEMMA PieceJoins ==
    ASSUME NEW B, NEW c \in Seq(B), NEW s, NEW r, NEW a \in Nat, Piece(c, s, a, B),
           Piece(c, r, a + Len(s), B)
    PROVE  Piece(c, s \o r, a, B) /\ Len(s \o r) = Len(s) + Len(r)
<1> USE DEF Piece
<1>1. s \in Seq(B) /\ r \in Seq(B) /\ s \o r \in Seq(B) /\ Len(s \o r) = Len(s) + Len(r)
      /\ Len(s) \in Nat /\ Len(r) \in Nat /\ Len(c) \in Nat /\ a \in Nat
  OBVIOUS
<1>2. \A k \in 1 .. Len(s \o r) : (s \o r)[k] = c[a + k]
  <2> SUFFICES ASSUME NEW k \in 1 .. Len(s) + Len(r) PROVE (s \o r)[k] = c[a + k]
    BY <1>1
  <2>1. CASE k <= Len(s)
    BY <2>1, <1>1
  <2>2. CASE k > Len(s)
    <3>1. k - Len(s) \in 1 .. Len(r) /\ (a + Len(s)) + (k - Len(s)) = a + k
      BY <2>2, <1>1
    <3>2. (s \o r)[k] = r[k - Len(s)]
      BY <2>2, <1>1
    <3> QED BY <3>1, <3>2
  <2> QED BY <2>1, <2>2, <1>1
<1> QED BY <1>1, <1>2

(* A part of a piece is a piece. *)
LEMMA PieceOfPiece ==
    ASSUME NEW B, NEW c \in Seq(B), NEW s, NEW a \in Nat, Piece(c, s, a, B),
           NEW x \in Nat, NEW y \in Nat, x <= y, y <= Len(s)
    PROVE  Piece(c, SubSeq(s, x + 1, y), a + x, B) /\ Len(SubSeq(s, x + 1, y)) = y - x
<1> USE DEF Piece
<1>1. s \in Seq(B) /\ Len(s) \in Nat /\ Len(c) \in Nat /\ a \in Nat
  OBVIOUS
<1>2. SubSeq(s, x + 1, y) \in Seq(B) /\ Len(SubSeq(s, x + 1, y)) = y - x
      /\ \A k \in 1 .. y - x : SubSeq(s, x + 1, y)[k] = s[x + k]
  BY <1>1, SMTT(30)
<1>3. \A k \in 1 .. y - x : x + k \in 1 .. Len(s) /\ a + (x + k) = (a + x) + k
  BY <1>1
<1> HIDE DEF Piece
<1>4. \A k \in 1 .. y - x : SubSeq(s, x + 1, y)[k] = c[(a + x) + k]
  <2>1. \A k \in 1 .. Len(s) : s[k] = c[a + k]
    BY DEF Piece
  <2> QED BY <1>2, <1>3, <2>1
<1>5. (a + x) + Len(SubSeq(s, x + 1, y)) <= Len(c) /\ a + x \in Nat
  BY <1>1, <1>2 DEF Piece
<1> QED BY <1>2, <1>4, <1>5 DEF Piece

(* A part of the sequence is a piece of it. *)
LEMMA PieceOfWhole ==
    ASSUME NEW B, NEW c \in Seq(B), NEW x \in Nat, NEW y \in Nat, x <= y, y <= Len(c)
    PROVE  Piece(c, SubSeq(c, x + 1, y), x, B) /\ Len(SubSeq(c, x + 1, y)) = y - x
<1>1. Piece(c, c, 0, B)
  BY DEF Piece
<1>2. Piece(c, SubSeq(c, x + 1, y), 0 + x, B) /\ Len(SubSeq(c, x + 1, y)) = y - x
  BY <1>1, PieceOfPiece
<1> QED BY <1>2

(* A piece is given by where it begins and its length. *)
LEMMA SamePiece ==
    ASSUME NEW B, NEW c, NEW s, NEW r, NEW a \in Nat, Piece(c, s, a, B), Piece(c, r, a, B),
           Len(s) = Len(r)
    PROVE  s = r
<1>1. s \in Seq(B) /\ r \in Seq(B) /\ \A k \in 1 .. Len(s) : s[k] = r[k]
  BY DEF Piece
<1> QED BY <1>1

(* A sequence that agrees with c as far as the piece goes has it too. *)
LEMMA PieceMoves ==
    ASSUME NEW B, NEW c \in Seq(B), NEW d \in Seq(B), NEW s, NEW a \in Nat, Piece(c, s, a, B),
           a + Len(s) <= Len(d), \A k \in 1 .. a + Len(s) : d[k] = c[k]
    PROVE  Piece(d, s, a, B)
<1>1. s \in Seq(B) /\ a \in Nat /\ Len(s) \in Nat /\ a + Len(s) <= Len(c)
      /\ \A k \in 1 .. Len(s) : s[k] = c[a + k]
  BY DEF Piece
<1>2. \A k \in 1 .. Len(s) : a + k \in 1 .. a + Len(s)
  BY <1>1
<1> QED BY <1>1, <1>2 DEF Piece

=============================================================================
