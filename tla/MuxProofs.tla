------------------------------ MODULE MuxProofs ------------------------------
(***************************************************************************)
(* For every set of protocols, every list of messages, every way the peer  *)
(* cuts its streams and every schedule of the two tasks and the drivers.   *)
(***************************************************************************)
EXTENDS Mux, InductionLemmas, SequenceTheorems

-----------------------------------------------------------------------------
(* FlattenSeq *)

(* Concatenation as an operator the provers need not look into. *)
Cat(s, t) == s \o t

(* The parts of a stream may be put together in any grouping. *)
LEMMA CatAssociative ==
    ASSUME NEW X
    PROVE  \A s, t, u \in Seq(X) : Cat(Cat(s, t), u) = Cat(s, Cat(t, u))
  BY ConcatAssociative DEF Cat

(* g[n] is the concatenation of the first n sequences of s. *)
Flattens(g, s, X) ==
    /\ g \in [0 .. Len(s) -> Seq(X)]
    /\ g[0] = <<>>
    /\ \A n \in 1 .. Len(s) : g[n] = g[n - 1] \o s[n]
HasFlattening(s, X) == \E g : Flattens(g, s, X) /\ FlattenSeq(s) = g[Len(s)]

(* FlattenSeq is the last of these. *)
LEMMA FlattenUnfolds ==
    ASSUME NEW X, NEW s \in Seq(Seq(X))
    PROVE  HasFlattening(s, X)
<1> DEFINE N == Len(s)
           F == [n \in 1 .. N |-> [r \in Seq(X) |-> r \o s[n]]]
           flatten[i \in 1 .. Len(s)] == IF i = 1 THEN s[i] ELSE flatten[i - 1] \o s[i]
<1>1. N \in Nat /\ <<>> \in Seq(X) /\ \A n \in 1 .. N : s[n] \in Seq(X)
  BY LenProperties, EmptySeq, ElementOfSeq
<1>2. F \in [1 .. N -> [Seq(X) -> Seq(X)]]
  <2>1. \A n \in 1 .. N, r \in Seq(X) : r \o s[n] \in Seq(X)
    BY <1>1, ConcatProperties
  <2> QED BY <2>1
<1>3. PICK g \in [0 .. N -> Seq(X)] : Solves(g, N, <<>>, F)
  <2> HIDE DEF F, N
  <2> QED BY <1>1, <1>2, RecursionExists DEF Solvable
<1>4. \A n \in 1 .. N : g[n - 1] \in Seq(X) /\ g[n] = g[n - 1] \o s[n]
  <2> SUFFICES ASSUME NEW n \in 1 .. N
               PROVE  g[n - 1] \in Seq(X) /\ g[n] = g[n - 1] \o s[n]
    OBVIOUS
  <2>1. g[n] = F[n][g[n - 1]]
    <3> HIDE DEF F, N
    <3> QED BY <1>3 DEF Solves
  <2>2. g[n - 1] \in Seq(X)
    <3>1. n - 1 \in 0 .. N
      BY <1>1
    <3> HIDE DEF N
    <3> QED BY <1>3, <3>1
  <2>3. F[n] = [r \in Seq(X) |-> r \o s[n]]
    OBVIOUS
  <2> HIDE DEF F
  <2> QED BY <2>1, <2>2, <2>3
<1>5. g[0] = <<>>
  BY <1>3 DEF Solves
<1>6. Flattens(g, s, X)
  BY <1>3, <1>4, <1>5 DEF Flattens
<1>7. FlattenSeq(s) = g[N]
  <2>1. CASE N = 0
    <3>1. s = <<>>
      BY <2>1, EmptySeq
    <3> QED BY <2>1, <3>1, <1>5 DEF FlattenSeq
  <2>2. CASE N # 0
    <3> DEFINE h == [n \in 1 .. Len(s) |-> g[n]]
    <3>1. FlattenSeq(s) = flatten[N]
      BY <2>2, Zenon DEF FlattenSeq
    <3>2. \A i \in 1 .. Len(s) : h[i] = IF i = 1 THEN s[i] ELSE h[i - 1] \o s[i]
      <4> SUFFICES ASSUME NEW i \in 1 .. Len(s)
                   PROVE  h[i] = IF i = 1 THEN s[i] ELSE h[i - 1] \o s[i]
        OBVIOUS
      <4>1. h[i] = g[i - 1] \o s[i]
        BY <1>4
      <4>2. CASE i = 1
        <5>1. g[i - 1] = <<>> /\ s[i] \in Seq(X)
          BY <4>2, <1>5, <1>1
        <5> QED BY <4>1, <4>2, <5>1, ConcatEmptySeq
      <4>3. CASE i # 1
        <5>1. i - 1 \in 1 .. Len(s)
          BY <4>3, <1>1
        <5>2. h[i - 1] = g[i - 1]
          BY <5>1
        <5> QED BY <4>1, <4>3, <5>2
      <4> QED BY <4>2, <4>3
    <3>3. h = [i \in 1 .. Len(s) |-> h[i]]
      OBVIOUS
    <3>4. h = [i \in 1 .. Len(s) |-> IF i = 1 THEN s[i] ELSE h[i - 1] \o s[i]]
      <4> HIDE DEF h
      <4> QED BY <3>2, <3>3, Zenon
    <3>5. flatten = [i \in 1 .. Len(s) |-> IF i = 1 THEN s[i] ELSE flatten[i - 1] \o s[i]]
      <4> HIDE DEF h
      <4> QED BY <3>4, Zenon
    <3> HIDE DEF flatten, h
    <3> DEFINE U == {n \in Nat : n + 1 <= N => flatten[n + 1] = g[n + 1]}
    <3>6. 0 \in U
      <4>1. 1 \in 1 .. N
        BY <2>2, <1>1
      <4>2. flatten[1] = s[1]
        BY <3>5, <4>1
      <4>3. g[1] = <<>> \o s[1] /\ s[1] \in Seq(X)
        <5>1. 1 - 1 = 0
          OBVIOUS
        <5> QED BY <4>1, <5>1, <1>1, <1>4, <1>5
      <4> QED BY <4>2, <4>3, ConcatEmptySeq
    <3>7. ASSUME NEW n \in Nat, n \in U PROVE n + 1 \in U
      <4> SUFFICES ASSUME n + 2 <= N PROVE flatten[n + 2] = g[n + 2]
        OBVIOUS
      <4>1. n + 2 \in 1 .. N /\ n + 2 # 1 /\ (n + 2) - 1 = n + 1 /\ n + 1 <= N
        BY <1>1
      <4>2. flatten[n + 2] = flatten[n + 1] \o s[n + 2]
        BY <3>5, <4>1
      <4>3. g[n + 2] = g[n + 1] \o s[n + 2]
        BY <1>4, <4>1
      <4> QED BY <4>1, <4>2, <4>3, <3>7
    <3>8. N - 1 \in U
      <4>1. N - 1 \in Nat
        BY <2>2, <1>1
      <4> HIDE DEF U, N
      <4> QED BY <3>6, <3>7, <4>1, NatInductionOnSet
    <3>9. flatten[N] = g[N]
      <4>1. (N - 1) + 1 = N /\ N <= N
        BY <1>1
      <4> QED BY <3>8, <4>1
    <3> QED BY <3>1, <3>9
  <2> QED BY <2>1, <2>2
<1> QED BY <1>6, <1>7 DEF HasFlattening

(* Its type, and the empty case. *)
LEMMA FlattenType ==
    ASSUME NEW X, NEW s \in Seq(Seq(X))
    PROVE  FlattenSeq(s) \in Seq(X)
<1>1. PICK g : Flattens(g, s, X) /\ FlattenSeq(s) = g[Len(s)]
  BY FlattenUnfolds DEF HasFlattening
<1>2. Len(s) \in 0 .. Len(s)
  BY LenProperties
<1> QED BY <1>1, <1>2 DEF Flattens

(* Nothing flattens to nothing. *)
LEMMA FlattenEmpty == FlattenSeq(<<>>) = <<>>
  BY EmptySeq DEF FlattenSeq

(* s is the beginning of t. *)
Begins(s, t) == Len(s) <= Len(t) /\ \A i \in 1 .. Len(s) : t[i] = s[i]

(* Tables of two sequences agree as far as the sequences do. *)
LEMMA FlattensAgree ==
    ASSUME NEW X, NEW s \in Seq(Seq(X)), NEW t \in Seq(Seq(X)), NEW g, NEW h,
           Flattens(g, s, X), Flattens(h, t, X), Begins(s, t)
    PROVE  h[Len(s)] = g[Len(s)]
<1> DEFINE U == {n \in Nat : n <= Len(s) => h[n] = g[n]}
<1>0. Len(s) \in Nat /\ Len(t) \in Nat
  BY LenProperties
<1>1. 0 \in U
  BY DEF Flattens
<1>2. ASSUME NEW n \in Nat, n \in U PROVE n + 1 \in U
  <2> SUFFICES ASSUME n + 1 <= Len(s) PROVE h[n + 1] = g[n + 1]
    OBVIOUS
  <2>1. n + 1 \in 1 .. Len(s) /\ n + 1 \in 1 .. Len(t) /\ (n + 1) - 1 = n /\ n <= Len(s)
    BY <1>0 DEF Begins
  <2>2. g[n + 1] = g[n] \o s[n + 1] /\ h[n + 1] = h[n] \o t[n + 1]
    BY <2>1 DEF Flattens
  <2> QED BY <2>1, <2>2, <1>2 DEF Begins
<1>3. Nat \subseteq U
  <2> HIDE DEF U
  <2> QED BY <1>1, <1>2, NatInductionOnSet
<1> QED BY <1>0, <1>3

(* A sequence more at the end. *)
LEMMA FlattenAppend ==
    ASSUME NEW X, NEW s \in Seq(Seq(X)), NEW x \in Seq(X)
    PROVE  FlattenSeq(Append(s, x)) = FlattenSeq(s) \o x
<1> DEFINE t == Append(s, x)
<1>1. /\ t \in Seq(Seq(X)) /\ Len(t) = Len(s) + 1
      /\ \A i \in 1 .. Len(s) : t[i] = s[i]
      /\ t[Len(s) + 1] = x
  BY AppendProperties
<1>2. PICK g : Flattens(g, s, X) /\ FlattenSeq(s) = g[Len(s)]
  BY FlattenUnfolds DEF HasFlattening
<1> HIDE DEF t
<1>3. PICK h : Flattens(h, t, X) /\ FlattenSeq(t) = h[Len(t)]
  BY <1>1, FlattenUnfolds DEF HasFlattening
<1>4. Len(s) \in Nat
  BY LenProperties
<1>5. h[Len(s)] = g[Len(s)]
  <2>1. Begins(s, t)
    BY <1>1, <1>4 DEF Begins
  <2> QED BY <1>1, <1>2, <1>3, <2>1, FlattensAgree
<1>6. Len(t) \in 1 .. Len(t) /\ Len(t) - 1 = Len(s)
  BY <1>1, <1>4
<1>7. h[Len(t)] = h[Len(s)] \o t[Len(t)]
  BY <1>3, <1>6 DEF Flattens
<1> QED BY <1>1, <1>2, <1>3, <1>5, <1>7 DEF t

(* The first sequence comes first. *)
LEMMA FlattenHead ==
    ASSUME NEW X, NEW s \in Seq(Seq(X)), s # <<>>
    PROVE  FlattenSeq(s) = Head(s) \o FlattenSeq(Tail(s))
<1> DEFINE t == Tail(s)
           x == Head(s)
<1>1. /\ t \in Seq(Seq(X)) /\ x \in Seq(X) /\ Len(t) = Len(s) - 1
      /\ \A i \in 1 .. Len(t) : t[i] = s[i + 1]
      /\ x = s[1]
  BY HeadTailProperties
<1>2. PICK g : Flattens(g, s, X) /\ FlattenSeq(s) = g[Len(s)]
  BY FlattenUnfolds DEF HasFlattening
<1> HIDE DEF t, x
<1>3. PICK h : Flattens(h, t, X) /\ FlattenSeq(t) = h[Len(t)]
  BY <1>1, FlattenUnfolds DEF HasFlattening
<1>4. Len(t) \in Nat /\ Len(s) \in Nat /\ Len(t) + 1 = Len(s)
  BY <1>1, LenProperties
<1> DEFINE U == {n \in Nat : n <= Len(t) => g[n + 1] = x \o h[n]}
<1>5. 0 \in U
  <2>1. h[0] = <<>> /\ g[0] = <<>>
    BY <1>2, <1>3 DEF Flattens
  <2>2. 1 \in 1 .. Len(s) /\ 1 - 1 = 0
    BY <1>4
  <2>3. g[1] = g[0] \o s[1]
    BY <1>2, <2>2 DEF Flattens
  <2>4. <<>> \o x = x /\ x \o <<>> = x
    BY <1>1, ConcatEmptySeq
  <2>5. g[1] = x /\ x \o h[0] = x
    BY <2>1, <2>3, <2>4, <1>1
  <2> QED BY <2>5
<1>6. ASSUME NEW n \in Nat, n \in U PROVE n + 1 \in U
  <2> SUFFICES ASSUME n + 1 <= Len(t) PROVE g[n + 2] = x \o h[n + 1]
    OBVIOUS
  <2>1. /\ n + 1 \in 1 .. Len(t) /\ n + 2 \in 1 .. Len(s) /\ n \in 0 .. Len(t) /\ n <= Len(t)
        /\ (n + 1) - 1 = n /\ (n + 2) - 1 = n + 1 /\ (n + 1) + 1 = n + 2
    BY <1>4
  <2>2. g[n + 2] = g[n + 1] \o s[n + 2] /\ h[n + 1] = h[n] \o t[n + 1]
    BY <2>1, <1>2, <1>3 DEF Flattens
  <2>3. s[n + 2] = t[n + 1] /\ t[n + 1] \in Seq(X)
    BY <2>1, <1>1, ElementOfSeq
  <2>4. g[n + 1] = x \o h[n] /\ h[n] \in Seq(X)
    BY <2>1, <1>6, <1>3 DEF Flattens
  <2>5. (x \o h[n]) \o t[n + 1] = x \o (h[n] \o t[n + 1])
    <3>1. x \in Seq(X) /\ h[n] \in Seq(X) /\ t[n + 1] \in Seq(X)
      BY <2>3, <2>4, <1>1
    <3>2. Cat(Cat(x, h[n]), t[n + 1]) = Cat(x, Cat(h[n], t[n + 1]))
      BY <3>1, CatAssociative
    <3> QED BY <3>2 DEF Cat
  <2> QED BY <2>2, <2>3, <2>4, <2>5
<1>7. Len(t) \in U
  <2> HIDE DEF U
  <2> QED BY <1>4, <1>5, <1>6, NatInductionOnSet
<1>8. g[Len(t) + 1] = x \o h[Len(t)]
  BY <1>4, <1>7
<1> QED BY <1>2, <1>3, <1>4, <1>8 DEF t, x

-----------------------------------------------------------------------------
(* Streams and messages *)

Bs == Seq(Nat)

(* The bytes a + 1 to a + n. *)
Run(a, n) == [j \in 1 .. n |-> a + j]

(* Ends of messages, in increasing order. *)
IsEnds(e) ==
    /\ e \in Seq(Nat \ {0})
    /\ \A i, j \in 1 .. Len(e) : i < j => e[i] < e[j]

(* What the constants say of the streams. *)
LEMMA StreamConstants ==
    /\ \A p \in Protocols : IsEnds(Out[p]) /\ IsEnds(In[p]) /\ Cuts[p] \subseteq Nat
    /\ MaxSegment \in Nat \ {0} /\ Buffer \in Nat \ {0} /\ WireCapacity \in Nat \ {0}
    /\ Modulus \in Nat \ {0} /\ EgressLimit \in Nat /\ IngressLimit \in Nat
  BY MuxAssumption DEF IsEnds

(* The order of the visits names every protocol once. *)
LEMMA SlotConstants ==
    /\ Slots \in Seq(Protocols) /\ Len(Slots) \in Nat \ {0}
    /\ \A i \in 1 .. Len(Slots) : Slots[i] \in Protocols
    /\ \A p \in Protocols : \E i \in 1 .. Len(Slots) : Slots[i] = p
    /\ \A i, j \in 1 .. Len(Slots) : Slots[i] = Slots[j] => i = j
    /\ \A p \in Protocols : Hot[p] \in Nat \ {0}
<1>1. Slots \in Seq(Protocols) /\ \A p \in Protocols : Hot[p] \in Nat \ {0}
  BY MuxAssumption
<1>2. DOMAIN Slots = 1 .. Len(Slots) /\ Len(Slots) \in Nat
  BY <1>1, LenProperties
<1>3. \A p \in Protocols : \E i \in 1 .. Len(Slots) : Slots[i] = p
  BY MuxAssumption DEF ToSet
<1>4. Len(Slots) # 0
  BY <1>2, <1>3, MuxAssumption
<1>5. \A i, j \in 1 .. Len(Slots) : Slots[i] = Slots[j] => i = j
  BY <1>2, MuxAssumption DEF IsInjective
<1>6. \A i \in 1 .. Len(Slots) : Slots[i] \in Protocols
  BY <1>1, ElementOfSeq
<1> QED BY <1>1, <1>2, <1>3, <1>4, <1>5, <1>6

(* Concatenation of streams. *)
LEMMA CatFacts ==
    ASSUME NEW s \in Bs, NEW t \in Bs
    PROVE  /\ Cat(s, t) \in Bs /\ Len(Cat(s, t)) = Len(s) + Len(t)
           /\ Cat(s, <<>>) = s /\ Cat(<<>>, s) = s
           /\ Len(s) \in Nat
           /\ \A i \in 1 .. Len(s) + Len(t) :
                 Cat(s, t)[i] = IF i <= Len(s) THEN s[i] ELSE t[i - Len(s)]
  BY ConcatProperties, ConcatEmptySeq, LenProperties DEF Cat, Bs

(* Concatenation is associative. *)
LEMMA CatAssoc ==
    \A s, t, u \in Bs : Cat(Cat(s, t), u) = Cat(s, Cat(t, u))
  BY CatAssociative DEF Bs

(* Runs are streams, and follow one another. *)
LEMMA RunFacts ==
    ASSUME NEW a \in Nat, NEW n \in Nat
    PROVE  /\ Run(a, n) \in Bs /\ Len(Run(a, n)) = n
           /\ Prefix(a) \in Bs /\ Len(Prefix(a)) = a
           /\ Cat(Prefix(a), Run(a, n)) = Prefix(a + n)
<1>1. Run(a, n) \in Bs /\ Len(Run(a, n)) = n
  BY DEF Run, Bs
<1>2. Prefix(a) \in Bs /\ Len(Prefix(a)) = a
  BY DEF Prefix, Bs
<1>3. Prefix(a + n) \in Bs /\ Len(Prefix(a + n)) = a + n
  BY DEF Prefix, Bs
<1> DEFINE c == Cat(Prefix(a), Run(a, n))
<1>4. /\ c \in Bs /\ Len(c) = a + n
      /\ \A i \in 1 .. a + n : c[i] = IF i <= a THEN Prefix(a)[i] ELSE Run(a, n)[i - a]
  <2> DEFINE u == Prefix(a)
             v == Run(a, n)
  <2>1. u \in Bs /\ v \in Bs /\ Len(u) = a /\ Len(v) = n /\ c = Cat(u, v)
    BY <1>1, <1>2
  <2> HIDE DEF u, v, c
  <2>2. /\ Cat(u, v) \in Bs /\ Len(Cat(u, v)) = Len(u) + Len(v)
        /\ \A i \in 1 .. Len(u) + Len(v) : Cat(u, v)[i] = IF i <= Len(u) THEN u[i] ELSE v[i - Len(u)]
    BY <2>1, CatFacts
  <2>3. /\ c \in Bs /\ Len(c) = a + n
        /\ \A i \in 1 .. a + n : c[i] = IF i <= a THEN u[i] ELSE v[i - a]
    BY <2>1, <2>2
  <2> QED BY <2>3 DEF u, v
<1>5. \A i \in 1 .. a + n : c[i] = Prefix(a + n)[i]
  BY <1>4 DEF Prefix, Run
<1>6. c = Prefix(a + n)
  <2> HIDE DEF c
  <2> QED BY <1>3, <1>4, <1>5, SeqEqual DEF Bs
<1> QED BY <1>1, <1>2, <1>6

(* A message is the run after the ones before it. *)
LEMMA MessageFacts ==
    ASSUME NEW e, IsEnds(e), NEW i \in 1 .. Len(e)
    PROVE  /\ Before(e, i) \in Nat /\ e[i] \in Nat /\ Size(e, i) \in Nat \ {0}
           /\ e[i] = Before(e, i) + Size(e, i)
           /\ Bytes(e, i) = Run(Before(e, i), Size(e, i))
           /\ Bytes(e, i) \in Bs /\ Len(Bytes(e, i)) = Size(e, i) /\ Bytes(e, i) # <<>>
           /\ Cat(Prefix(Before(e, i)), Bytes(e, i)) = Prefix(e[i])
<1>1. /\ Before(e, i) \in Nat /\ e[i] \in Nat /\ Before(e, i) < e[i]
  <2>1. e[i] \in Nat \ {0}
    BY DEF IsEnds
  <2>2. CASE i = 1
    BY <2>1, <2>2 DEF Before
  <2>3. CASE i # 1
    <3>1. i - 1 \in 1 .. Len(e) /\ i - 1 < i
      BY <2>3
    <3>2. e[i - 1] \in Nat \ {0} /\ e[i - 1] < e[i]
      BY <3>1 DEF IsEnds
    <3> QED BY <2>1, <2>3, <3>2 DEF Before
  <2> QED BY <2>2, <2>3
<1>2. Size(e, i) \in Nat \ {0} /\ e[i] = Before(e, i) + Size(e, i)
  BY <1>1 DEF Size
<1>3. Bytes(e, i) = Run(Before(e, i), Size(e, i))
  BY DEF Bytes, Run
<1>4. /\ Bytes(e, i) \in Bs /\ Len(Bytes(e, i)) = Size(e, i)
      /\ Cat(Prefix(Before(e, i)), Bytes(e, i)) = Prefix(e[i])
  <2>1. Before(e, i) \in Nat /\ Size(e, i) \in Nat
    BY <1>1, <1>2
  <2> HIDE DEF Bs
  <2>2. /\ Run(Before(e, i), Size(e, i)) \in Bs /\ Len(Run(Before(e, i), Size(e, i))) = Size(e, i)
        /\ Cat(Prefix(Before(e, i)), Run(Before(e, i), Size(e, i))) = Prefix(Before(e, i) + Size(e, i))
    BY <2>1, RunFacts
  <2> QED BY <2>2, <1>2, <1>3
<1>5. Bytes(e, i) # <<>>
  BY <1>2, <1>4
<1> QED BY <1>1, <1>2, <1>3, <1>4, <1>5

(* Cutting a stream. *)
LEMMA CutFacts ==
    ASSUME NEW s \in Bs, NEW n \in 0 .. Len(s)
    PROVE  /\ SubSeq(s, 1, n) \in Bs /\ SubSeq(s, n + 1, Len(s)) \in Bs
           /\ Len(SubSeq(s, 1, n)) = n /\ Len(SubSeq(s, n + 1, Len(s))) = Len(s) - n
           /\ Cat(SubSeq(s, 1, n), SubSeq(s, n + 1, Len(s))) = s
<1>1. s \in Seq(Nat) /\ Len(s) \in Nat
  BY LenProperties DEF Bs
<1> DEFINE l == SubSeq(s, 1, n)
           r == SubSeq(s, n + 1, Len(s))
<1>2. /\ l \in Seq(Nat) /\ Len(l) = n
      /\ \A i \in 1 .. n : l[i] = s[i]
  BY <1>1
<1>3. /\ r \in Seq(Nat) /\ Len(r) = Len(s) - n
      /\ \A i \in 1 .. Len(s) - n : r[i] = s[n + i]
  BY <1>1
<1> HIDE DEF l, r
<1>4. /\ Cat(l, r) \in Bs /\ Len(Cat(l, r)) = Len(l) + Len(r)
      /\ \A i \in 1 .. Len(l) + Len(r) : Cat(l, r)[i] = IF i <= Len(l) THEN l[i] ELSE r[i - Len(l)]
  <2>1. l \in Bs /\ r \in Bs
    BY <1>2, <1>3 DEF Bs
  <2> QED BY <2>1, CatFacts
<1>5. \A i \in 1 .. Len(s) : Cat(l, r)[i] = s[i]
  BY <1>1, <1>2, <1>3, <1>4
<1>6. Cat(l, r) = s
  <2>1. Cat(l, r) \in Seq(Nat) /\ Len(Cat(l, r)) = Len(s)
    BY <1>1, <1>2, <1>3, <1>4 DEF Bs
  <2> QED BY <1>1, <1>5, <2>1, SeqEqual
<1> QED BY <1>2, <1>3, <1>6 DEF l, r, Bs

(* The parts of a stream that begins at the first byte: the first part does, *)
(* the second one goes on where the first one ends.                          *)
LEMMA PrefixParts ==
    ASSUME NEW x \in Bs, NEW y \in Bs, NEW n \in Nat, Cat(x, y) = Prefix(n)
    PROVE  /\ n = Len(x) + Len(y)
           /\ x = Prefix(Len(x)) /\ y = Run(Len(x), Len(y))
<1>1. x \in Seq(Nat) /\ y \in Seq(Nat) /\ Len(x) \in Nat /\ Len(y) \in Nat
  BY LenProperties DEF Bs
<1>2. /\ Len(Cat(x, y)) = Len(x) + Len(y)
      /\ \A i \in 1 .. Len(x) + Len(y) : Cat(x, y)[i] = IF i <= Len(x) THEN x[i] ELSE y[i - Len(x)]
  BY <1>1, ConcatProperties DEF Cat
<1>3. n = Len(x) + Len(y)
  BY <1>2, RunFacts
<1>4. \A i \in 1 .. Len(x) : x[i] = i
  BY <1>1, <1>2, <1>3 DEF Prefix
<1>5. \A i \in 1 .. Len(y) : y[i] = Len(x) + i
  <2> SUFFICES ASSUME NEW i \in 1 .. Len(y) PROVE y[i] = Len(x) + i
    OBVIOUS
  <2>1. Len(x) + i \in 1 .. Len(x) + Len(y) /\ ~(Len(x) + i <= Len(x)) /\ (Len(x) + i) - Len(x) = i
    BY <1>1
  <2>2. Prefix(n)[Len(x) + i] = Len(x) + i
    BY <2>1, <1>3 DEF Prefix
  <2> QED BY <2>1, <2>2, <1>2
<1>6. x = Prefix(Len(x))
  <2>1. Prefix(Len(x)) \in Seq(Nat) /\ Len(Prefix(Len(x))) = Len(x)
    BY <1>1, RunFacts DEF Bs
  <2>2. \A i \in 1 .. Len(x) : Prefix(Len(x))[i] = x[i]
    BY <1>4 DEF Prefix
  <2> QED BY <1>1, <2>1, <2>2, SeqEqual
<1>7. y = Run(Len(x), Len(y))
  <2>1. Run(Len(x), Len(y)) \in Seq(Nat) /\ Len(Run(Len(x), Len(y))) = Len(y)
    BY <1>1, RunFacts DEF Bs
  <2>2. \A i \in 1 .. Len(y) : Run(Len(x), Len(y))[i] = y[i]
    BY <1>5 DEF Run
  <2> QED BY <1>1, <2>1, <2>2, SeqEqual
<1> QED BY <1>3, <1>6, <1>7

-----------------------------------------------------------------------------
(* Types *)

EgressT ==
    /\ open \in [Protocols -> BOOLEAN]
    /\ sender \in [Protocols -> {"idle", "waiting", "queued", "overflow", "closed"}]
    /\ accepted \in [Protocols -> Nat] /\ egress \in [Protocols -> Seq(Nat)]
    /\ \A p \in Protocols :
          /\ accepted[p] <= Len(Out[p])
          /\ egress[p] \in Seq(1 .. Len(Out[p])) /\ Len(egress[p]) <= Buffer
    /\ permit \in BOOLEAN
PendingT == pending \in [Protocols -> 0 .. Modulus - 1]
WeightT == weight \in [Protocols -> Nat] /\ \A p \in Protocols : weight[p] \in {1, Hot[p]}
WriterT ==
    /\ writer \in WriterType /\ closed \in [Protocols -> BOOLEAN]
    /\ written \in [Protocols -> Seq(Nat)] /\ overtaken \in [Protocols -> [Protocols -> Nat]]
    /\ transit \in 0 .. WireCapacity
BearerT == arriving \in Seq(Sdus) /\ Len(arriving) <= WireCapacity /\ peerAt \in [Protocols -> Nat]
ReaderT == reader \in ReaderType /\ cancel \in BOOLEAN
IngressT ==
    /\ ingress \in [Protocols -> Seq(Seq(Nat))] /\ received \in [Protocols -> Seq(Seq(Nat))]
    /\ \A p \in Protocols : Len(ingress[p]) <= Buffer
    /\ readBuf \in [Protocols -> Seq(Nat)]
    /\ held \in [Protocols -> 0 .. IngressLimit]

(* TypeOK by its parts. *)
LEMMA TypeParts ==
    TypeOK <=> EgressT /\ PendingT /\ WeightT /\ WriterT /\ BearerT /\ ReaderT /\ IngressT
  BY DEF TypeOK, EgressT, PendingT, WeightT, WriterT, BearerT, ReaderT, IngressT

(* The same after a step. *)
LEMMA TypePartsNext ==
    TypeOK' <=> EgressT' /\ PendingT' /\ WeightT' /\ WriterT' /\ BearerT' /\ ReaderT' /\ IngressT'
  BY DEF TypeOK, EgressT, PendingT, WeightT, WriterT, BearerT, ReaderT, IngressT

(* Counters that wrap. *)
LEMMA ModFacts ==
    ASSUME NEW M \in Nat \ {0}, NEW a \in Int
    PROVE  a % M \in 0 .. M - 1 /\ \E q \in Int : a = q * M + (a % M)
<1>1. a \div M \in Int
  OBVIOUS
<1>2. a = (a \div M) * M + (a % M)
  OBVIOUS
<1>3. a % M \in 0 .. M - 1
  OBVIOUS
<1>4. \E q \in Int : a = q * M + (a % M)
  BY <1>1, <1>2
<1> QED BY <1>3, <1>4

(* A call of send that waits for the channel has a message to send; one that *)
(* has still to count its bytes has sent one.                                *)
SenderOK ==
    \A p \in Protocols : /\ sender[p] = "waiting" => accepted[p] < Len(Out[p])
                         /\ sender[p] = "queued" => accepted[p] >= 1

(* The payload in the writer's hand: of a message, and not yet empty. *)
WriterOK ==
    /\ writer.at \in {"round", "wait", "done"} => writer.msg = 0 /\ writer.rest = <<>>
    /\ writer.at = "write" => writer.msg \in 1 .. Len(Out[Turn]) /\ writer.rest # <<>>

(* ingress_bytes never falls below what is held. *)
HeldOK ==
    \A p \in Protocols : Len(FlattenSeq(ingress[p])) + Len(InHand(p)) <= held[p]

TypeInv == TypeOK /\ SenderOK /\ WriterOK /\ HeldOK

(* Before the first step. *)
LEMMA TypeInit == Init => TypeInv
<1> SUFFICES ASSUME Init PROVE TypeInv
  OBVIOUS
<1> USE DEF Init
<1>0. <<>> \in Seq(Nat) /\ <<>> \in Seq(Seq(Nat)) /\ Len(<<>>) = 0 /\ <<>> \in Seq(Sdus)
      /\ \A n : <<>> \in Seq(1 .. n)
  BY EmptySeq
<1>1. EgressT
  <2>1. \A p \in Protocols : Len(Out[p]) \in Nat
    BY StreamConstants, LenProperties DEF IsEnds
  <2>2. open \in [Protocols -> BOOLEAN] /\ permit \in BOOLEAN
        /\ sender \in [Protocols -> {"idle", "waiting", "queued", "overflow", "closed"}]
    OBVIOUS
  <2>3. accepted \in [Protocols -> Nat] /\ egress \in [Protocols -> Seq(Nat)]
    BY <1>0
  <2>4. Buffer \in Nat
    BY StreamConstants
  <2>5. ASSUME NEW p \in Protocols
        PROVE  /\ accepted[p] <= Len(Out[p])
               /\ egress[p] \in Seq(1 .. Len(Out[p])) /\ Len(egress[p]) <= Buffer
    <3>1. accepted[p] = 0 /\ egress[p] = <<>>
      OBVIOUS
    <3> QED BY <3>1, <1>0, <2>1, <2>4
  <2> QED BY <2>2, <2>3, <2>5 DEF EgressT
<1>2. PendingT /\ WeightT
  BY StreamConstants DEF PendingT, WeightT
<1>3. WriterT
  BY <1>0, StreamConstants, SlotConstants DEF WriterT, WriterType, NewRound
<1>4. BearerT /\ ReaderT
  <2>1. arriving = <<>> /\ WireCapacity \in Nat
    BY StreamConstants
  <2>2. BearerT
    BY <1>0, <2>1 DEF BearerT
  <2> QED BY <2>2 DEF ReaderT, ReaderType
<1>5. IngressT
  BY <1>0, StreamConstants DEF IngressT
<1>6. WriterOK
  BY DEF WriterOK, NewRound
<1>7. HeldOK
  BY <1>0, FlattenEmpty DEF HeldOK, InHand
<1>8. SenderOK
  BY DEF SenderOK
<1> QED BY <1>1, <1>2, <1>3, <1>4, <1>5, <1>6, <1>7, <1>8, TypeParts DEF TypeInv

(* A weight is never zero. *)
LEMMA WeightFacts ==
    /\ \A p \in Protocols : Hot[p] \in Nat \ {0}
    /\ WeightT => \A p \in Protocols : weight[p] \in Nat \ {0}
<1>1. \A p \in Protocols : Hot[p] \in Nat \ {0}
  BY SlotConstants
<1>2. ASSUME WeightT, NEW p \in Protocols PROVE weight[p] \in Nat \ {0}
  <2>1. weight[p] = 1 \/ weight[p] = Hot[p]
    BY <1>2 DEF WeightT
  <2> QED BY <1>1, <2>1
<1> QED BY <1>1, <1>2

(* What a visit of a slot is about. *)
LEMMA TurnType == WriterT => Turn \in Protocols
<1> SUFFICES ASSUME WriterT PROVE Turn \in Protocols
  OBVIOUS
<1>1. writer.turn \in 1 .. Len(Slots)
  BY DEF WriterT, WriterType
<1> QED BY <1>1, SlotConstants DEF Turn


(* The drivers' calls. *)
LEMMA TypeDriver ==
    ASSUME TypeInv, NEW p \in Protocols, Send(p) \/ Enqueue(p) \/ Count(p) \/ SetWeight(p)
    PROVE  TypeInv'
<1>0. /\ EgressT /\ PendingT /\ WeightT /\ WriterT /\ BearerT /\ ReaderT /\ IngressT
      /\ WriterOK /\ HeldOK /\ SenderOK
  BY TypeParts DEF TypeInv
<1>1. /\ UNCHANGED <<open, writerVars, bearerVars, reader, ingressVars, cancel>>
  BY DEF Send, Enqueue, Count, SetWeight
<1>2. WriterT' /\ BearerT' /\ ReaderT' /\ IngressT' /\ WriterOK'
  BY <1>0, <1>1 DEF WriterT, BearerT, ReaderT, IngressT, WriterOK, Turn, writerVars, bearerVars, ingressVars
<1>3. HeldOK'
  BY <1>0, <1>1 DEF HeldOK, InHand, ingressVars
<1>4. CASE Send(p)
  <2>1. EgressT'
    BY <1>0, <1>4 DEF EgressT, Send
  <2>2. PendingT' /\ WeightT'
    BY <1>0, <1>4 DEF PendingT, WeightT, Send
  <2>3. SenderOK'
    BY <1>0, <1>4 DEF SenderOK, Send, EgressT
  <2> QED BY <1>2, <1>3, <2>1, <2>2, <2>3, TypePartsNext DEF TypeInv
<1>5. CASE Enqueue(p)
  <2>1. EgressT' /\ SenderOK'
    <3>1. CASE WriterRuns /\ Len(egress[p]) < Buffer
               /\ accepted' = [accepted EXCEPT ![p] = @ + 1]
               /\ egress' = [egress EXCEPT ![p] = Append(@, accepted[p] + 1)]
               /\ sender' = [sender EXCEPT ![p] = "queued"]
      <4> DEFINE n == accepted[p] + 1
      <4>1. accepted[p] < Len(Out[p]) /\ accepted[p] \in Nat /\ Len(Out[p]) \in Nat
        <5>1. Len(Out[p]) \in Nat
          BY StreamConstants, LenProperties DEF IsEnds
        <5> QED BY <1>0, <1>5, <5>1 DEF SenderOK, Enqueue, EgressT
      <4>2. n \in Nat /\ n \in 1 .. Len(Out[p]) /\ n <= Len(Out[p]) /\ n >= 1
        BY <4>1
      <4>3. egress[p] \in Seq(Nat) /\ egress[p] \in Seq(1 .. Len(Out[p]))
        BY <1>0 DEF EgressT
      <4>4. /\ Append(egress[p], n) \in Seq(Nat) /\ Append(egress[p], n) \in Seq(1 .. Len(Out[p]))
            /\ Len(Append(egress[p], n)) = Len(egress[p]) + 1
        BY <4>2, <4>3, AppendProperties
      <4>5. Len(Append(egress[p], n)) <= Buffer
        BY <3>1, <4>3, <4>4, StreamConstants, LenProperties
      <4>6. /\ accepted' = [accepted EXCEPT ![p] = n]
            /\ egress' = [egress EXCEPT ![p] = Append(egress[p], n)]
            /\ UNCHANGED <<open, permit>>
        BY <1>0, <1>5, <3>1 DEF EgressT, Enqueue
      <4> HIDE DEF n
      <4>7. EgressT'
        BY <1>0, <3>1, <4>2, <4>4, <4>5, <4>6, ZenonT(40) DEF EgressT
      <4>8. SenderOK'
        BY <1>0, <3>1, <4>2, <4>6 DEF SenderOK, EgressT
      <4> QED BY <4>7, <4>8
    <3>2. CASE sender' = [sender EXCEPT ![p] = "closed"] /\ UNCHANGED <<accepted, egress>>
      BY <1>0, <1>5, <3>2 DEF EgressT, Enqueue, SenderOK
    <3> QED BY <1>5, <3>1, <3>2 DEF Enqueue
  <2>2. PendingT' /\ WeightT'
    BY <1>0, <1>5 DEF PendingT, WeightT, Enqueue
  <2> QED BY <1>2, <1>3, <2>1, <2>2, TypePartsNext DEF TypeInv
<1>6. CASE Count(p)
  <2>1. EgressT'
    BY <1>0, <1>6 DEF EgressT, Count
  <2>2. PendingT'
    <3> DEFINE d == Size(Out[p], accepted[p])
    <3>1. d \in Nat
      <4>1. accepted[p] \in 1 .. Len(Out[p])
        <5>1. Len(Out[p]) \in Nat
          BY StreamConstants, LenProperties DEF IsEnds
        <5> QED BY <1>0, <1>6, <5>1 DEF SenderOK, Count, EgressT
      <4> QED BY <4>1, StreamConstants, MessageFacts
    <3>2. pending[p] + d \in Int /\ Modulus \in Nat \ {0}
      BY <1>0, <3>1, StreamConstants DEF PendingT
    <3>3. Plus(pending[p], d) \in 0 .. Modulus - 1
      BY <3>2, ModFacts DEF Plus
    <3>4. pending' = [pending EXCEPT ![p] = Plus(pending[p], d)]
      BY <1>0, <1>6 DEF Count, PendingT
    <3> HIDE DEF d
    <3> QED BY <1>0, <3>3, <3>4 DEF PendingT
  <2>3. WeightT'
    BY <1>0, <1>6 DEF WeightT, Count
  <2>4. SenderOK'
    BY <1>0, <1>6 DEF SenderOK, Count, EgressT
  <2> QED BY <1>2, <1>3, <2>1, <2>2, <2>3, <2>4, TypePartsNext DEF TypeInv
<1>7. CASE SetWeight(p)
  <2>1. EgressT' /\ PendingT' /\ SenderOK'
    BY <1>0, <1>7 DEF EgressT, PendingT, SenderOK, SetWeight, egressVars
  <2>2. WeightT'
    <3>1. PICK w \in {1, Hot[p]} : weight' = [weight EXCEPT ![p] = w]
      BY <1>7 DEF SetWeight
    <3>2. w \in Nat
      BY SlotConstants
    <3> QED BY <1>0, <3>1, <3>2 DEF WeightT
  <2> QED BY <1>2, <1>3, <2>1, <2>2, TypePartsNext DEF TypeInv
<1> QED BY <1>4, <1>5, <1>6, <1>7

(* The driver ends. *)
LEMMA TypeDrop ==
    ASSUME TypeInv, NEW p \in Protocols, DropHandle(p)
    PROVE  TypeInv'
<1>0. /\ EgressT /\ PendingT /\ WeightT /\ WriterT /\ BearerT /\ ReaderT /\ IngressT
      /\ WriterOK /\ HeldOK /\ SenderOK
  BY TypeParts DEF TypeInv
<1>1. EgressT' /\ PendingT' /\ WeightT' /\ SenderOK'
  BY <1>0 DEF EgressT, PendingT, WeightT, SenderOK, DropHandle
<1>2. WriterT' /\ BearerT' /\ ReaderT' /\ WriterOK'
  BY <1>0 DEF WriterT, BearerT, ReaderT, WriterOK, Turn, writerVars, bearerVars, DropHandle
<1>3. <<>> \in Seq(Nat) /\ <<>> \in Seq(Seq(Nat)) /\ Len(<<>>) = 0 /\ Buffer \in Nat
  BY EmptySeq, StreamConstants
<1>4. IngressT'
  BY <1>0, <1>3 DEF IngressT, DropHandle
<1>5. HeldOK'
  <2> SUFFICES ASSUME NEW q \in Protocols
               PROVE  (Len(FlattenSeq(ingress[q])) + Len(InHand(q)) <= held[q])'
    BY DEF HeldOK
  <2>1. InHand(q)' = InHand(q) /\ held' = held
    BY DEF InHand, DropHandle
  <2>2. Len(InHand(q)) \in Nat
    <3>1. InHand(q) \in Seq(Nat)
      BY <1>0, <1>3 DEF InHand, ReaderT, ReaderType, Sdus
    <3> QED BY <3>1, LenProperties
  <2>3. Len(FlattenSeq(ingress[q])) + Len(InHand(q)) <= held[q] /\ held[q] \in Nat
    BY <1>0 DEF HeldOK, IngressT
  <2>4. CASE q = p
    <3>1. ingress'[q] = <<>>
      BY <1>0, <2>4 DEF IngressT, DropHandle
    <3>2. Len(FlattenSeq(ingress[q])) \in Nat
      BY <1>0, FlattenType, LenProperties DEF IngressT
    <3> QED BY <2>1, <2>2, <2>3, <3>1, <3>2, <1>3, FlattenEmpty
  <2>5. CASE q # p
    <3>1. ingress'[q] = ingress[q]
      BY <1>0, <2>5 DEF IngressT, DropHandle
    <3> QED BY <2>1, <2>3, <3>1
  <2> QED BY <2>4, <2>5
<1> QED BY <1>1, <1>2, <1>4, <1>5, TypePartsNext DEF TypeInv

(* The writer. *)
LEMMA TypeTake ==
    ASSUME TypeInv, TakePayload
    PROVE  TypeInv'
<1>0. /\ EgressT /\ PendingT /\ WeightT /\ WriterT /\ BearerT /\ ReaderT /\ IngressT
      /\ WriterOK /\ HeldOK /\ SenderOK
  BY TypeParts DEF TypeInv
<1>1. Turn \in Protocols
  BY <1>0, TurnType
<1> DEFINE e == egress[Turn]
           m == Head(e)
<1>2. e \in Seq(Nat) /\ e \in Seq(1 .. Len(Out[Turn])) /\ e # <<>> /\ Len(e) <= Buffer
  BY <1>0, <1>1 DEF EgressT, TakePayload
<1>3. m \in 1 .. Len(Out[Turn]) /\ m \in Nat
  BY <1>2, HeadTailProperties
<1>4. /\ Tail(e) \in Seq(Nat) /\ Tail(e) \in Seq(1 .. Len(Out[Turn])) /\ Len(Tail(e)) <= Buffer
  <2>1. Len(Tail(e)) = Len(e) - 1 /\ Len(e) \in Nat /\ Buffer \in Nat
    BY <1>2, HeadTailProperties, LenProperties, StreamConstants
  <2>2. Tail(e) \in Seq(Nat) /\ Tail(e) \in Seq(1 .. Len(Out[Turn]))
    BY <1>2, HeadTailProperties
  <2>3. Len(Tail(e)) <= Buffer
    BY <1>2, <2>1
  <2> QED BY <2>2, <2>3
<1>5. Bytes(Out[Turn], m) \in Seq(Nat) /\ Bytes(Out[Turn], m) # <<>>
  BY <1>1, <1>3, StreamConstants, MessageFacts DEF Bs
<1>6. /\ egress' = [egress EXCEPT ![Turn] = Tail(e)]
      /\ writer' = [writer EXCEPT !.at = "write", !.msg = m, !.rest = Bytes(Out[Turn], m)]
      /\ UNCHANGED <<open, sender, accepted, pending, permit, weight, closed, written, overtaken,
                     transit, bearerVars, reader, ingressVars, cancel>>
  BY <1>0, <1>1 DEF TakePayload, EgressT
<1>7. Turn' = Turn
  BY <1>0, <1>6 DEF Turn, WriterT, WriterType
<1> HIDE DEF e, m
<1>8. EgressT' /\ PendingT' /\ WeightT' /\ SenderOK'
  BY <1>0, <1>1, <1>4, <1>6 DEF EgressT, PendingT, WeightT, SenderOK
<1>9. WriterT'
  <2>1. writer' \in WriterType
    BY <1>0, <1>3, <1>5, <1>6 DEF WriterT, WriterType
  <2> QED BY <1>0, <1>6, <2>1 DEF WriterT
<1>10. WriterOK'
  <2>1. writer'.at = "write" /\ writer'.msg = m /\ writer'.rest = Bytes(Out[Turn], m)
    BY <1>0, <1>6 DEF WriterT, WriterType
  <2> QED BY <1>3, <1>5, <1>7, <2>1 DEF WriterOK
<1>11. BearerT' /\ ReaderT' /\ IngressT' /\ HeldOK'
  BY <1>0, <1>6 DEF BearerT, ReaderT, IngressT, HeldOK, InHand, bearerVars, ingressVars
<1> QED BY <1>8, <1>9, <1>10, <1>11, TypePartsNext DEF TypeInv

(* The end of a visit, whatever comes next. *)
LEMMA AdvanceType ==
    ASSUME WriterT, WriterOK, writer.at = "round", NEW c, Advance(c)
    PROVE  /\ writer' \in WriterType
           /\ writer'.at \in {"round", "done", "wait"} /\ writer'.msg = 0 /\ writer'.rest = <<>>
<1>1. writer \in WriterType /\ writer.msg = 0 /\ writer.rest = <<>>
  BY DEF WriterT, WriterOK
<1>2. Len(Slots) \in Nat \ {0} /\ <<>> \in Seq(Nat)
  BY SlotConstants, EmptySeq
<1>3. CASE writer.turn < Len(Slots)
  <2>1. writer' = [writer EXCEPT !.turn = @ + 1, !.count = 0]
    BY <1>3, Zenon DEF Advance
  <2> DEFINE t == writer.turn + 1
  <2>2. t \in 1 .. Len(Slots)
    <3>1. writer.turn \in 1 .. Len(Slots)
      BY <1>1 DEF WriterType
    <3> QED BY <1>2, <1>3, <3>1
  <2>3. writer' = [writer EXCEPT !.turn = t, !.count = 0]
    BY <2>1, <1>1 DEF WriterType
  <2> HIDE DEF t
  <2> QED BY <1>1, <2>2, <2>3 DEF WriterType
<1>4. CASE ~(writer.turn < Len(Slots)) /\ \A p \in Protocols : c[p]
  <2>1. writer' = [writer EXCEPT !.at = "done"]
    BY <1>4, Zenon DEF Advance
  <2> QED BY <1>1, <2>1 DEF WriterType
<1>5. CASE ~(writer.turn < Len(Slots)) /\ ~(\A p \in Protocols : c[p])
  <2>1. writer' = NewRound(FALSE) \/ writer' = [NewRound(FALSE) EXCEPT !.at = "wait"]
    BY <1>5, Zenon DEF Advance
  <2>2. CASE writer' = NewRound(FALSE)
    BY <1>2, <2>2 DEF WriterType, NewRound
  <2>3. CASE writer' = [NewRound(FALSE) EXCEPT !.at = "wait"]
    <3> DEFINE w == NewRound(FALSE)
    <3>1. w \in WriterType /\ w.msg = 0 /\ w.rest = <<>>
      BY <1>2 DEF WriterType, NewRound
    <3>2. writer' = [w EXCEPT !.at = "wait"]
      BY <2>3
    <3> HIDE DEF w
    <3> QED BY <3>1, <3>2 DEF WriterType
  <2> QED BY <2>1, <2>2, <2>3
<1> QED BY <1>3, <1>4, <1>5

(* The writer goes on to the next slot. *)
LEMMA TypeLeave ==
    ASSUME TypeInv, LeaveSlot
    PROVE  TypeInv'
<1>0. /\ EgressT /\ PendingT /\ WeightT /\ WriterT /\ BearerT /\ ReaderT /\ IngressT
      /\ WriterOK /\ HeldOK /\ SenderOK
  BY TypeParts DEF TypeInv
<1>1. EgressT' /\ PendingT' /\ WeightT' /\ SenderOK' /\ BearerT' /\ ReaderT' /\ IngressT' /\ HeldOK'
  <2>1. UNCHANGED <<open, egressVars, weight, bearerVars, reader, ingressVars, cancel>>
    BY DEF LeaveSlot
  <2>2. EgressT' /\ PendingT' /\ WeightT' /\ SenderOK'
    BY <1>0, <2>1 DEF EgressT, PendingT, WeightT, SenderOK, egressVars
  <2>3. BearerT' /\ ReaderT' /\ IngressT' /\ HeldOK'
    BY <1>0, <2>1 DEF BearerT, ReaderT, IngressT, HeldOK, InHand, bearerVars, ingressVars
  <2> QED BY <2>2, <2>3
<1>2. /\ writer' \in WriterType
      /\ writer'.at \in {"round", "done", "wait"} /\ writer'.msg = 0 /\ writer'.rest = <<>>
  <2>1. writer.at = "round" /\ Advance(closed')
    BY DEF LeaveSlot
  <2> QED BY <1>0, <2>1, AdvanceType
<1>3. closed' \in [Protocols -> BOOLEAN]
  <2>1. closed \in [Protocols -> BOOLEAN] /\ open \in [Protocols -> BOOLEAN] /\ Turn \in Protocols
    BY <1>0, TurnType DEF WriterT, EgressT
  <2> QED BY <2>1 DEF LeaveSlot
<1>4. WriterT' /\ WriterOK'
  BY <1>0, <1>2, <1>3 DEF WriterT, WriterOK, LeaveSlot
<1> QED BY <1>1, <1>4, TypePartsNext DEF TypeInv

(* n bytes of the payload are written, the last ones or not. *)
Segment(n) ==
    /\ n <= MaxSegment
    /\ SubSeq(writer.rest, 1, n) \in Bs
    /\ SubSeq(writer.rest, n + 1, Len(writer.rest)) \in Bs
    /\ Len(SubSeq(writer.rest, n + 1, Len(writer.rest))) = Len(writer.rest) - n
    /\ overtaken' = Overtaking(Turn, n)
    /\ Cat(SubSeq(writer.rest, 1, n), SubSeq(writer.rest, n + 1, Len(writer.rest))) = writer.rest
    /\ written' = [written EXCEPT ![Turn] = Cat(@, SubSeq(writer.rest, 1, n))]
    /\ \/ /\ SubSeq(writer.rest, n + 1, Len(writer.rest)) # <<>>
          /\ writer' = [writer EXCEPT !.rest = SubSeq(writer.rest, n + 1, Len(writer.rest))]
          /\ UNCHANGED pending
       \/ /\ SubSeq(writer.rest, n + 1, Len(writer.rest)) = <<>>
          /\ writer' = [writer EXCEPT !.at = "round", !.count = @ + 1, !.wrote = TRUE,
                                      !.msg = 0, !.rest = <<>>]
          /\ pending' = [pending EXCEPT ![Turn] = Minus(@, Size(Out[Turn], writer.msg))]

(* One segment. *)
LEMMA SegmentFacts ==
    ASSUME TypeInv, WriteSegment
    PROVE  \E n \in 1 .. Len(writer.rest) : Segment(n)
<1>1. writer \in WriterType /\ writer.at = "write" /\ writer.rest # <<>>
  BY TypeParts DEF TypeInv, WriterT, WriterOK, WriteSegment
<1>2. writer.rest \in Bs /\ Len(writer.rest) \in Nat \ {0} /\ MaxSegment \in Nat \ {0}
  <2>1. writer.rest \in Seq(Nat)
    BY <1>1 DEF WriterType
  <2> QED BY <1>1, <2>1, EmptySeq, StreamConstants DEF Bs
<1> DEFINE n == IF Len(writer.rest) < MaxSegment THEN Len(writer.rest) ELSE MaxSegment
           left == SubSeq(writer.rest, n + 1, Len(writer.rest))
           seg == SubSeq(writer.rest, 1, n)
<1>3. n \in 1 .. Len(writer.rest) /\ n <= MaxSegment /\ n \in 0 .. Len(writer.rest)
  BY <1>2
<1>4. /\ written' = [written EXCEPT ![Turn] = @ \o seg]
      /\ writer' = IF left # <<>> THEN [writer EXCEPT !.rest = left]
                   ELSE [writer EXCEPT !.at = "round", !.count = @ + 1, !.wrote = TRUE,
                                       !.msg = 0, !.rest = <<>>]
      /\ pending' = IF left # <<>> THEN pending
                    ELSE [pending EXCEPT ![Turn] = Minus(@, Size(Out[Turn], writer.msg))]
      /\ overtaken' = Overtaking(Turn, n)
  BY Zenon DEF WriteSegment
<1> HIDE DEF n
<1>5. seg \in Bs /\ left \in Bs /\ Cat(seg, left) = writer.rest /\ Len(left) = Len(writer.rest) - n
  BY <1>2, <1>3, CutFacts
<1>6. written' = [written EXCEPT ![Turn] = Cat(@, seg)]
  BY <1>4 DEF Cat
<1>7. \/ /\ left # <<>>
         /\ writer' = [writer EXCEPT !.rest = left]
         /\ UNCHANGED pending
      \/ /\ left = <<>>
         /\ writer' = [writer EXCEPT !.at = "round", !.count = @ + 1, !.wrote = TRUE,
                                     !.msg = 0, !.rest = <<>>]
         /\ pending' = [pending EXCEPT ![Turn] = Minus(@, Size(Out[Turn], writer.msg))]
  <2> HIDE DEF left
  <2>1. CASE left # <<>>
    BY <1>4, <2>1, Zenon
  <2>2. CASE left = <<>>
    BY <1>4, <2>2, Zenon
  <2> QED BY <2>1, <2>2
<1>8. Segment(n)
  BY <1>3, <1>4, <1>5, <1>6, <1>7 DEF Segment
<1> QED BY <1>3, <1>8

(* The writer writes a segment. *)
LEMMA TypeSegment ==
    ASSUME TypeInv, WriteSegment
    PROVE  TypeInv'
<1>0. /\ EgressT /\ PendingT /\ WeightT /\ WriterT /\ BearerT /\ ReaderT /\ IngressT
      /\ WriterOK /\ HeldOK /\ SenderOK
  BY TypeParts DEF TypeInv
<1>1. /\ UNCHANGED <<open, sender, accepted, egress, permit, weight, closed, bearerVars, reader,
                     ingressVars, cancel>>
      /\ transit < WireCapacity /\ transit' = transit + 1 /\ writer.at = "write"
  BY DEF WriteSegment
<1>2. EgressT' /\ WeightT' /\ SenderOK'
  BY <1>0, <1>1 DEF EgressT, WeightT, SenderOK
<1>3. BearerT' /\ ReaderT' /\ IngressT' /\ HeldOK'
  BY <1>0, <1>1 DEF BearerT, ReaderT, IngressT, HeldOK, InHand, bearerVars, ingressVars
<1>4. PICK n \in 1 .. Len(writer.rest) : Segment(n)
  BY SegmentFacts
<1> DEFINE left == SubSeq(writer.rest, n + 1, Len(writer.rest))
           seg == SubSeq(writer.rest, 1, n)
<1>5. seg \in Bs /\ left \in Bs /\ written' = [written EXCEPT ![Turn] = Cat(@, seg)]
  BY <1>4 DEF Segment
<1>6. \/ /\ left # <<>>
         /\ writer' = [writer EXCEPT !.rest = left]
         /\ UNCHANGED pending
      \/ /\ left = <<>>
         /\ writer' = [writer EXCEPT !.at = "round", !.count = @ + 1, !.wrote = TRUE,
                                     !.msg = 0, !.rest = <<>>]
         /\ pending' = [pending EXCEPT ![Turn] = Minus(@, Size(Out[Turn], writer.msg))]
  BY <1>4 DEF Segment
<1> HIDE DEF left, seg
<1>7. Turn \in Protocols /\ writer.msg \in 1 .. Len(Out[Turn])
  BY <1>0, <1>1, TurnType DEF WriterOK
<1>8. written' \in [Protocols -> Seq(Nat)]
  <2>1. written \in [Protocols -> Seq(Nat)] /\ written[Turn] \in Bs
    BY <1>0, <1>7 DEF WriterT, Bs
  <2>2. Cat(written[Turn], seg) \in Seq(Nat)
    BY <1>5, <2>1, CatFacts DEF Bs
  <2> QED BY <1>5, <2>1, <2>2
<1>9. transit' \in 0 .. WireCapacity
  BY <1>0, <1>1, StreamConstants DEF WriterT
<1>o. overtaken' \in [Protocols -> [Protocols -> Nat]]
  <2>1. overtaken \in [Protocols -> [Protocols -> Nat]] /\ n \in Nat
    <3>1. writer.rest \in Seq(Nat)
      BY <1>0 DEF WriterT, WriterType
    <3> QED BY <1>0, <3>1, LenProperties DEF WriterT
  <2>2. ASSUME NEW p \in Protocols
        PROVE  [overtaken[p] EXCEPT ![Turn] = @ + n] \in [Protocols -> Nat]
    BY <2>1, <1>7
  <2>3. overtaken' = Overtaking(Turn, n)
    BY <1>4 DEF Segment
  <2> QED BY <2>2, <2>3 DEF Overtaking
<1>10. CASE left # <<>>
  <2>1. writer' = [writer EXCEPT !.rest = left] /\ UNCHANGED pending
    BY <1>6, <1>10
  <2>2. writer' \in WriterType /\ writer'.at = "write" /\ writer'.rest = left
        /\ writer'.msg = writer.msg /\ writer'.turn = writer.turn
    BY <1>0, <1>1, <1>5, <2>1 DEF WriterT, WriterType, Bs
  <2>3. WriterT'
    BY <1>0, <1>1, <1>8, <1>9, <1>o, <2>1, <2>2 DEF WriterT
  <2>4. WriterOK'
    BY <1>7, <1>10, <2>2 DEF WriterOK, Turn
  <2>5. PendingT'
    BY <1>0, <2>1 DEF PendingT
  <2> QED BY <1>2, <1>3, <2>3, <2>4, <2>5, TypePartsNext DEF TypeInv
<1>11. CASE left = <<>>
  <2>1. /\ writer' = [writer EXCEPT !.at = "round", !.count = @ + 1, !.wrote = TRUE,
                                    !.msg = 0, !.rest = <<>>]
        /\ pending' = [pending EXCEPT ![Turn] = Minus(@, Size(Out[Turn], writer.msg))]
    BY <1>6, <1>11
  <2>2. writer' \in WriterType /\ writer'.at = "round" /\ writer'.rest = <<>> /\ writer'.msg = 0
    <3> DEFINE c == writer.count + 1
    <3>1. writer \in WriterType /\ c \in Nat /\ <<>> \in Seq(Nat)
      BY <1>0, EmptySeq DEF WriterT, WriterType
    <3>2. writer' = [writer EXCEPT !.at = "round", !.count = c, !.wrote = TRUE,
                                   !.msg = 0, !.rest = <<>>]
      BY <2>1, <3>1 DEF WriterType
    <3> HIDE DEF c
    <3> QED BY <3>1, <3>2 DEF WriterType
  <2>4. WriterT'
    BY <1>0, <1>1, <1>8, <1>9, <1>o, <2>2 DEF WriterT
  <2>5. WriterOK'
    BY <2>2 DEF WriterOK
  <2>6. PendingT'
    <3> DEFINE d == Size(Out[Turn], writer.msg)
    <3>1. d \in Nat
      BY <1>7, StreamConstants, MessageFacts
    <3>2. pending[Turn] + Modulus - d \in Int /\ Modulus \in Nat \ {0}
      BY <1>0, <1>7, <3>1, StreamConstants DEF PendingT
    <3>3. Minus(pending[Turn], d) \in 0 .. Modulus - 1
      BY <3>2, ModFacts DEF Minus
    <3>4. pending' = [pending EXCEPT ![Turn] = Minus(pending[Turn], d)]
      BY <1>0, <2>1 DEF PendingT
    <3> HIDE DEF d
    <3> QED BY <1>0, <3>3, <3>4 DEF PendingT
  <2> QED BY <1>2, <1>3, <2>4, <2>5, <2>6, TypePartsNext DEF TypeInv
<1> QED BY <1>10, <1>11

(* The writer fails or waits, or the peer reads. *)
LEMMA TypeWriterRest ==
    ASSUME TypeInv, WriteFails \/ Wait \/ PeerReads
    PROVE  TypeInv'
<1>0. /\ EgressT /\ PendingT /\ WeightT /\ WriterT /\ BearerT /\ ReaderT /\ IngressT
      /\ WriterOK /\ HeldOK /\ SenderOK
  BY TypeParts DEF TypeInv
<1>1. UNCHANGED <<open, sender, accepted, egress, pending, weight, bearerVars, reader, ingressVars,
                  closed, written, overtaken>>
      /\ permit' \in BOOLEAN /\ cancel' \in BOOLEAN
  BY <1>0 DEF WriteFails, Wait, PeerReads, egressVars, EgressT, ReaderT
<1>2. EgressT' /\ PendingT' /\ WeightT' /\ SenderOK'
  BY <1>0, <1>1 DEF EgressT, PendingT, WeightT, SenderOK
<1>3. BearerT' /\ ReaderT' /\ IngressT' /\ HeldOK'
  BY <1>0, <1>1 DEF BearerT, ReaderT, IngressT, HeldOK, InHand, bearerVars, ingressVars
<1>4. writer' \in WriterType /\ transit' \in 0 .. WireCapacity /\ WriterOK'
  <2>1. writer \in WriterType
    BY <1>0 DEF WriterT
  <2>2. CASE WriteFails
    <3>1. writer' = [writer EXCEPT !.at = "failed"] /\ transit' = transit
      BY <2>2 DEF WriteFails
    <3>2. writer' \in WriterType /\ writer'.at = "failed"
      BY <2>1, <3>1 DEF WriterType
    <3> QED BY <1>0, <3>1, <3>2 DEF WriterT, WriterOK
  <2>3. CASE Wait
    <3>1. transit' = transit /\ (writer' = [writer EXCEPT !.at = "failed"] \/ writer' = NewRound(FALSE))
      BY <2>3 DEF Wait
    <3>2. CASE writer' = [writer EXCEPT !.at = "failed"]
      <4>1. writer' \in WriterType /\ writer'.at = "failed"
        BY <2>1, <3>2 DEF WriterType
      <4> QED BY <1>0, <3>1, <4>1 DEF WriterT, WriterOK
    <3>3. CASE writer' = NewRound(FALSE)
      <4>1. writer' \in WriterType /\ writer'.msg = 0 /\ writer'.rest = <<>> /\ writer'.at = "round"
        BY <3>3, SlotConstants, EmptySeq DEF WriterType, NewRound
      <4> QED BY <1>0, <3>1, <4>1 DEF WriterT, WriterOK
    <3> QED BY <3>1, <3>2, <3>3
  <2>4. CASE PeerReads
    <3>1. writer' = writer /\ transit > 0 /\ transit' = transit - 1
      BY <2>4 DEF PeerReads
    <3>2. WriterOK'
      BY <1>0, <3>1 DEF WriterOK, Turn
    <3>3. transit' \in 0 .. WireCapacity
      BY <1>0, <3>1, StreamConstants DEF WriterT
    <3> QED BY <2>1, <3>1, <3>2, <3>3
  <2> QED BY <2>2, <2>3, <2>4
<1>5. WriterT'
  BY <1>0, <1>1, <1>4 DEF WriterT
<1> QED BY <1>2, <1>3, <1>4, <1>5, TypePartsNext DEF TypeInv

(* The reader, the drivers' recv and the peer. *)
LEMMA InHandType ==
    ASSUME ReaderT, NEW p
    PROVE  InHand(p) \in Seq(Nat) /\ Len(InHand(p)) \in Nat
<1>1. InHand(p) \in Seq(Nat)
  BY EmptySeq DEF InHand, ReaderT, ReaderType, Sdus
<1> QED BY <1>1, LenProperties

(* The reader reads a header or fails. *)
LEMMA TypeReader ==
    ASSUME TypeInv, ReadHeader \/ ReadFails
    PROVE  TypeInv'
<1>0. /\ EgressT /\ PendingT /\ WeightT /\ WriterT /\ BearerT /\ ReaderT /\ IngressT
      /\ WriterOK /\ HeldOK /\ SenderOK
  BY TypeParts DEF TypeInv
<1>1. /\ UNCHANGED <<open, egressVars, weight, writerVars, peerAt, ingress, readBuf, received>>
      /\ reader.at = "header"
  BY DEF ReadHeader, ReadFails, bearerVars, ingressVars
<1>2. EgressT' /\ PendingT' /\ WeightT' /\ SenderOK' /\ WriterT' /\ WriterOK'
  <2>1. EgressT' /\ PendingT' /\ WeightT' /\ SenderOK'
    BY <1>0, <1>1 DEF EgressT, PendingT, WeightT, SenderOK, egressVars
  <2>2. WriterT' /\ WriterOK'
    BY <1>0, <1>1 DEF WriterT, WriterOK, Turn, writerVars
  <2> QED BY <2>1, <2>2
<1>3. \A p : InHand(p) = <<>>
  BY <1>1 DEF InHand
<1>5. \A p \in Protocols : Len(FlattenSeq(ingress[p])) <= held[p] /\ held[p] \in Nat
                           /\ Len(FlattenSeq(ingress[p])) \in Nat
  <2>1. \A p \in Protocols : Len(FlattenSeq(ingress[p])) \in Nat
    BY <1>0, FlattenType, LenProperties DEF IngressT
  <2> QED BY <1>0, <1>3, <2>1, EmptySeq DEF HeldOK, IngressT
<1>6. ASSUME Fail, held' = held, BearerT'
      PROVE  TypeInv'
  <2>1. reader' = [at |-> "failed", sdu |-> <<>>] /\ cancel' = TRUE
    BY <1>6 DEF Fail
  <2>2. ReaderT'
    BY <2>1 DEF ReaderT, ReaderType
  <2>3. \A p : InHand(p)' = <<>>
    BY <2>1 DEF InHand
  <2>4. IngressT'
    BY <1>0, <1>1, <1>6 DEF IngressT
  <2>5. HeldOK'
    BY <1>1, <1>5, <1>6, <2>3, EmptySeq DEF HeldOK
  <2> QED BY <1>2, <1>6, <2>2, <2>4, <2>5, TypePartsNext DEF TypeInv
<1>7. CASE ReadFails
  <2>1. Fail /\ held' = held /\ UNCHANGED bearerVars
    BY <1>7 DEF ReadFails, ingressVars
  <2>2. BearerT'
    BY <1>0, <2>1 DEF BearerT, bearerVars
  <2> QED BY <1>6, <2>1, <2>2
<1>8. CASE ReadHeader
  <2> DEFINE sdu == Head(arriving)
             p == sdu.protocol
             l == Len(sdu.payload)
  <2>1. arriving # <<>> /\ arriving' = Tail(arriving) /\ arriving \in Seq(Sdus)
    BY <1>0, <1>8 DEF ReadHeader, BearerT
  <2>2. BearerT'
    <3>1. Tail(arriving) \in Seq(Sdus) /\ Len(Tail(arriving)) = Len(arriving) - 1 /\ Len(arriving) \in Nat
      BY <2>1, HeadTailProperties, LenProperties
    <3>2. Len(Tail(arriving)) <= WireCapacity
      BY <1>0, <3>1, StreamConstants DEF BearerT
    <3> QED BY <1>0, <1>1, <2>1, <3>1, <3>2 DEF BearerT
  <2>3. sdu \in Sdus
    BY <2>1, HeadTailProperties
  <2>4. \/ Fail /\ UNCHANGED held
        \/ /\ ~(held[p] + l > IngressLimit)
           /\ held' = [held EXCEPT ![p] = @ + l]
           /\ reader' = [at |-> "payload", sdu |-> sdu]
           /\ UNCHANGED cancel
    BY <1>8 DEF ReadHeader
  <2> HIDE DEF sdu
  <2>5. p \in Protocols /\ sdu.payload \in Seq(Nat) /\ l \in Nat
    <3>1. p \in Protocols /\ sdu.payload \in Seq(Nat)
      BY <2>3 DEF Sdus
    <3> QED BY <3>1, LenProperties
  <2>6. CASE /\ ~(held[p] + l > IngressLimit)
             /\ held' = [held EXCEPT ![p] = @ + l]
             /\ reader' = [at |-> "payload", sdu |-> sdu]
             /\ UNCHANGED cancel
    <3>1. ReaderT'
      BY <1>0, <2>3, <2>6 DEF ReaderT, ReaderType
    <3> HIDE DEF p, l
    <3>2. IngressT'
      <4>1. held[p] + l \in 0 .. IngressLimit
        BY <1>0, <2>5, <2>6, StreamConstants DEF IngressT
      <4>2. held' \in [Protocols -> 0 .. IngressLimit]
        BY <1>0, <2>5, <2>6, <4>1 DEF IngressT
      <4> QED BY <1>0, <1>1, <4>2 DEF IngressT
    <3>3. HeldOK'
      <4> SUFFICES ASSUME NEW q \in Protocols
                   PROVE  (Len(FlattenSeq(ingress[q])) + Len(InHand(q)) <= held[q])'
        BY DEF HeldOK
      <4>1. CASE q = p
        <5>1. InHand(q)' = sdu.payload
          BY <2>6, <4>1 DEF InHand, p
        <5>2. held'[q] = held[q] + l /\ Len(InHand(q)') = l
          BY <1>0, <2>6, <4>1, <5>1 DEF IngressT, l
        <5> QED BY <1>1, <1>5, <2>5, <5>2
      <4>2. CASE q # p
        <5>1. InHand(q)' = <<>>
          BY <2>6, <4>2 DEF InHand, p
        <5>2. held'[q] = held[q]
          BY <1>0, <2>6, <4>2 DEF IngressT
        <5> QED BY <1>1, <1>5, <5>1, <5>2, EmptySeq
      <4> QED BY <4>1, <4>2
    <3> QED BY <1>2, <2>2, <3>1, <3>2, <3>3, TypePartsNext DEF TypeInv
  <2>7. CASE Fail /\ UNCHANGED held
    BY <1>6, <2>2, <2>7
  <2> QED BY <2>4, <2>6, <2>7
<1> QED BY <1>7, <1>8

(* The payload is read, or fails to be. *)
LEMMA TypePayload ==
    ASSUME TypeInv, ReadPayload \/ PayloadFails
    PROVE  TypeInv'
<1>0. /\ EgressT /\ PendingT /\ WeightT /\ WriterT /\ BearerT /\ ReaderT /\ IngressT
      /\ WriterOK /\ HeldOK /\ SenderOK
  BY TypeParts DEF TypeInv
<1>1. /\ UNCHANGED <<open, egressVars, weight, writerVars, bearerVars, ingressVars>>
      /\ reader.at = "payload"
  BY DEF ReadPayload, PayloadFails
<1>2. EgressT' /\ PendingT' /\ WeightT' /\ SenderOK'
  BY <1>0, <1>1 DEF EgressT, PendingT, WeightT, SenderOK, egressVars
<1>3. WriterT' /\ WriterOK' /\ BearerT' /\ IngressT'
  BY <1>0, <1>1 DEF WriterT, WriterOK, Turn, writerVars, BearerT, bearerVars, IngressT, ingressVars
<1>4. reader.sdu \in Sdus /\ reader = [at |-> "payload", sdu |-> reader.sdu]
  BY <1>0, <1>1 DEF ReaderT, ReaderType
<1>5. CASE ReadPayload
  <2>1. reader' = [at |-> "deliver", sdu |-> reader.sdu] /\ cancel' = cancel
    BY <1>4, <1>5 DEF ReadPayload
  <2>2. ReaderT'
    BY <1>0, <1>4, <2>1 DEF ReaderT, ReaderType
  <2>3. \A p : InHand(p)' = InHand(p)
    BY <1>1, <2>1 DEF InHand
  <2>4. HeldOK'
    BY <1>0, <1>1, <2>3 DEF HeldOK, ingressVars
  <2> QED BY <1>2, <1>3, <2>2, <2>4, TypePartsNext DEF TypeInv
<1>6. CASE PayloadFails
  <2>1. reader' = [at |-> "failed", sdu |-> <<>>] /\ cancel' = TRUE
    BY <1>6 DEF PayloadFails, Fail
  <2>2. ReaderT'
    BY <2>1 DEF ReaderT, ReaderType
  <2>3. HeldOK'
    <3> SUFFICES ASSUME NEW p \in Protocols
                 PROVE  (Len(FlattenSeq(ingress[p])) + Len(InHand(p)) <= held[p])'
      BY DEF HeldOK
    <3>1. InHand(p)' = <<>> /\ Len(<<>>) = 0
      BY <2>1, EmptySeq DEF InHand
    <3>2. Len(FlattenSeq(ingress[p])) \in Nat /\ Len(InHand(p)) \in Nat /\ held[p] \in Nat
      BY <1>0, FlattenType, LenProperties, InHandType DEF IngressT
    <3>3. Len(FlattenSeq(ingress[p])) + Len(InHand(p)) <= held[p]
      BY <1>0 DEF HeldOK
    <3>4. ingress' = ingress /\ held' = held
      BY <1>1 DEF ingressVars
    <3> QED BY <3>1, <3>2, <3>3, <3>4
  <2> QED BY <1>2, <1>3, <2>2, <2>3, TypePartsNext DEF TypeInv
<1> QED BY <1>5, <1>6

(* What a dispatched SDU leaves. *)
LEMMA TypeDeliver ==
    ASSUME TypeInv, Deliver
    PROVE  TypeInv'
<1>0. /\ EgressT /\ PendingT /\ WeightT /\ WriterT /\ BearerT /\ ReaderT /\ IngressT
      /\ WriterOK /\ HeldOK /\ SenderOK
  BY TypeParts DEF TypeInv
<1> DEFINE p == reader.sdu.protocol
           x == reader.sdu.payload
<1>1. /\ UNCHANGED <<open, egressVars, weight, writerVars, bearerVars, readBuf, received, cancel>>
      /\ reader.at = "deliver" /\ reader' = [at |-> "header", sdu |-> <<>>]
      /\ \/ /\ open[p] /\ Len(ingress[p]) < Buffer
            /\ ingress' = [ingress EXCEPT ![p] = Append(@, x)]
            /\ UNCHANGED held
         \/ /\ ~open[p]
            /\ held' = [held EXCEPT ![p] = @ - Len(x)]
            /\ UNCHANGED ingress
  BY DEF Deliver
<1>2. EgressT' /\ PendingT' /\ WeightT' /\ SenderOK' /\ WriterT' /\ WriterOK' /\ BearerT' /\ ReaderT'
  <2>1. EgressT' /\ PendingT' /\ WeightT' /\ SenderOK'
    BY <1>0, <1>1 DEF EgressT, PendingT, WeightT, SenderOK, egressVars
  <2>2. WriterT' /\ WriterOK' /\ BearerT'
    BY <1>0, <1>1 DEF WriterT, WriterOK, Turn, writerVars, BearerT, bearerVars
  <2>3. ReaderT'
    BY <1>0, <1>1 DEF ReaderT, ReaderType
  <2> QED BY <2>1, <2>2, <2>3
<1>3. p \in Protocols /\ x \in Seq(Nat) /\ Len(x) \in Nat
  <2>1. p \in Protocols /\ x \in Seq(Nat)
    BY <1>0, <1>1 DEF ReaderT, ReaderType, Sdus
  <2> QED BY <2>1, LenProperties
<1>4. InHand(p) = x /\ \A q : q # p => InHand(q) = <<>>
  BY <1>1 DEF InHand
<1>5. \A q : InHand(q)' = <<>>
  BY <1>1 DEF InHand
<1> HIDE DEF p, x
<1>6. \A q \in Protocols : /\ Len(FlattenSeq(ingress[q])) + Len(InHand(q)) <= held[q] /\ held[q] \in Nat
                           /\ Len(FlattenSeq(ingress[q])) \in Nat /\ FlattenSeq(ingress[q]) \in Bs
                           /\ held[q] <= IngressLimit
  BY <1>0, FlattenType, LenProperties DEF IngressT, HeldOK, Bs
<1>7. CASE /\ open[p] /\ Len(ingress[p]) < Buffer
           /\ ingress' = [ingress EXCEPT ![p] = Append(@, x)]
           /\ UNCHANGED held
  <2>1. ingress[p] \in Seq(Seq(Nat)) /\ Len(ingress[p]) \in Nat
    BY <1>0, <1>3, LenProperties DEF IngressT
  <2>2. Append(ingress[p], x) \in Seq(Seq(Nat)) /\ Len(Append(ingress[p], x)) = Len(ingress[p]) + 1
    BY <1>3, <2>1, AppendProperties
  <2>3. Len(Append(ingress[p], x)) <= Buffer
    BY <1>7, <2>1, <2>2, StreamConstants
  <2>4. IngressT'
    BY <1>0, <1>1, <1>7, <2>2, <2>3 DEF IngressT
  <2>5. HeldOK'
    <3> SUFFICES ASSUME NEW q \in Protocols
                 PROVE  (Len(FlattenSeq(ingress[q])) + Len(InHand(q)) <= held[q])'
      BY DEF HeldOK
    <3>1. CASE q = p
      <4>1. ingress'[q] = Append(ingress[p], x)
        BY <1>0, <1>7, <3>1 DEF IngressT
      <4>2. FlattenSeq(Append(ingress[p], x)) = Cat(FlattenSeq(ingress[p]), x)
        BY <1>3, <2>1, FlattenAppend DEF Cat
      <4>3. Len(Cat(FlattenSeq(ingress[p]), x)) = Len(FlattenSeq(ingress[p])) + Len(x)
        BY <1>3, <1>6, CatFacts DEF Bs
      <4> QED BY <1>3, <1>4, <1>5, <1>6, <1>7, <3>1, <4>1, <4>2, <4>3, EmptySeq
    <3>2. CASE q # p
      <4>1. ingress'[q] = ingress[q]
        BY <1>0, <1>7, <3>2 DEF IngressT
      <4> QED BY <1>4, <1>5, <1>6, <1>7, <3>2, <4>1
    <3> QED BY <3>1, <3>2
  <2> QED BY <1>2, <2>4, <2>5, TypePartsNext DEF TypeInv
<1>8. CASE /\ ~open[p]
           /\ held' = [held EXCEPT ![p] = @ - Len(x)]
           /\ UNCHANGED ingress
  <2>1. held[p] - Len(x) \in 0 .. IngressLimit
    BY <1>3, <1>4, <1>6, StreamConstants
  <2>2. held' \in [Protocols -> 0 .. IngressLimit]
    BY <1>0, <1>8, <2>1 DEF IngressT
  <2>3. IngressT'
    BY <1>0, <1>1, <1>8, <2>2 DEF IngressT
  <2>4. HeldOK'
    <3> SUFFICES ASSUME NEW q \in Protocols
                 PROVE  (Len(FlattenSeq(ingress[q])) + Len(InHand(q)) <= held[q])'
      BY DEF HeldOK
    <3>1. CASE q = p
      <4>1. held'[q] = held[p] - Len(x)
        BY <1>0, <1>8, <3>1 DEF IngressT
      <4> QED BY <1>3, <1>4, <1>5, <1>6, <1>8, <3>1, <4>1, EmptySeq
    <3>2. CASE q # p
      <4>1. held'[q] = held[q]
        BY <1>0, <1>8, <3>2 DEF IngressT
      <4> QED BY <1>4, <1>5, <1>6, <1>8, <3>2, <4>1
    <3> QED BY <3>1, <3>2
  <2> QED BY <1>2, <2>3, <2>4, TypePartsNext DEF TypeInv
<1> QED BY <1>1, <1>7, <1>8 DEF p, x

(* One turn of recv: the buffer it looks at, *)
Pulls(p, buf) ==
    \/ /\ buf = readBuf[p]
       /\ UNCHANGED <<ingress, held>>
    \/ /\ ingress[p] # <<>>
       /\ buf = Cat(readBuf[p], Head(ingress[p]))
       /\ held' = [held EXCEPT ![p] = @ - Len(Head(ingress[p]))]
       /\ ingress' = [ingress EXCEPT ![p] = Tail(@)]

(* and what it takes from it. *)
Keeps(p, buf) == readBuf' = [readBuf EXCEPT ![p] = buf] /\ UNCHANGED received
Returns(p, buf, n) ==
    /\ n \in ItemLength(In[p], Cuts[p], buf)
    /\ received' = [received EXCEPT ![p] = Append(@, SubSeq(buf, 1, n))]
    /\ readBuf' = [readBuf EXCEPT ![p] = SubSeq(buf, n + 1, Len(buf))]
Takes(p, buf) == Keeps(p, buf) \/ \E n \in 1 .. Len(buf) : Returns(p, buf, n)

(* What cbor_item_length returns lies in the buffer; without strings of        *)
(* indefinite length it is the length of the message the buffer begins with.   *)
LEMMA ItemFacts ==
    ASSUME NEW p \in Protocols, NEW buf \in Bs, NEW n \in ItemLength(In[p], Cuts[p], buf)
    PROVE  /\ n \in 1 .. Len(buf) /\ buf # <<>>
           /\ Cuts[p] = {} => \E i \in 1 .. Len(In[p]) : /\ Head(buf) = Before(In[p], i) + 1
                                                       /\ n = Size(In[p], i)
<1>1. /\ buf # <<>>
      /\ \/ n \in WholeItem(In[p], buf)
         \/ n \in CutItem(In[p], Cuts[p], buf)
         \/ n \in ChunkItem(In[p], Cuts[p], buf)
  BY DEF ItemLength
<1>2. Len(buf) \in Nat \ {0} /\ Head(buf) \in Nat /\ Last(buf) \in Nat
  <2>1. Len(buf) \in Nat /\ Len(buf) # 0
    BY <1>1, EmptySeq DEF Bs
  <2>2. 1 \in 1 .. Len(buf) /\ Len(buf) \in 1 .. Len(buf)
    BY <2>1
  <2>3. Head(buf) \in Nat
    BY <1>1, HeadTailProperties DEF Bs
  <2>4. buf[Len(buf)] \in Nat
    BY <2>2, ElementOfSeq DEF Bs
  <2> QED BY <2>1, <2>3, <2>4 DEF Last
<1>3. CASE n \in WholeItem(In[p], buf)
  <2>1. PICK i \in 1 .. Len(In[p]) : /\ Head(buf) = Before(In[p], i) + 1
                                     /\ Len(buf) >= Size(In[p], i) /\ n = Size(In[p], i)
    BY <1>3 DEF WholeItem
  <2>2. Size(In[p], i) \in Nat \ {0}
    BY StreamConstants, MessageFacts
  <2> QED BY <1>1, <1>2, <2>1, <2>2
<1>4. CASE n \in CutItem(In[p], Cuts[p], buf)
  <2>1. n = Len(buf) /\ Last(buf) \in Cuts[p]
    BY <1>4 DEF CutItem
  <2> QED BY <1>1, <1>2, <2>1
<1>5. CASE n \in ChunkItem(In[p], Cuts[p], buf)
  <2>1. PICK x \in Cuts[p] : /\ Head(buf) <= x /\ Len(buf) >= x - Head(buf) + 1
                              /\ n = x - Head(buf) + 1
    BY <1>5 DEF ChunkItem
  <2>2. x \in Nat
    BY StreamConstants
  <2> QED BY <1>1, <1>2, <2>1, <2>2
<1> QED BY <1>1, <1>3, <1>4, <1>5

(* recv pulls at most one payload into its buffer and returns at most one  *)
(* message from it.                                                        *)
LEMMA RecvFacts ==
    ASSUME TypeInv, NEW p \in Protocols, Recv(p)
    PROVE  \E buf \in Bs : Pulls(p, buf) /\ Takes(p, buf)
<1>0. IngressT
  BY TypeParts DEF TypeInv
<1>1. readBuf[p] \in Bs /\ ingress[p] \in Seq(Seq(Nat))
  BY <1>0 DEF IngressT, Bs
<1> DEFINE buf == Refilled(p)
<1>2. buf \in Bs /\ Pulls(p, buf)
  <2>1. CASE ItemLength(In[p], Cuts[p], readBuf[p]) # {}
    <3>1. buf = readBuf[p] /\ UNCHANGED <<ingress, held>>
      BY <2>1 DEF Refilled, Recv
    <3> HIDE DEF buf
    <3> QED BY <1>1, <3>1 DEF Pulls
  <2>2. CASE ItemLength(In[p], Cuts[p], readBuf[p]) = {}
    <3>1. /\ ingress[p] # <<>> /\ buf = Cat(readBuf[p], Head(ingress[p]))
          /\ held' = [held EXCEPT ![p] = @ - Len(Head(ingress[p]))]
          /\ ingress' = [ingress EXCEPT ![p] = Tail(@)]
      BY <2>2 DEF Refilled, Recv, Cat
    <3>2. Head(ingress[p]) \in Bs
      BY <1>1, <3>1, HeadTailProperties DEF Bs
    <3>3. Cat(readBuf[p], Head(ingress[p])) \in Bs
      BY <1>1, <3>2, CatFacts
    <3> HIDE DEF buf
    <3> QED BY <3>1, <3>3 DEF Pulls
  <2> QED BY <2>1, <2>2
<1>3. Takes(p, buf)
  <2>1. Extract(p, buf)
    BY DEF Recv
  <2> HIDE DEF buf
  <2>2. CASE ItemLength(In[p], Cuts[p], buf) = {}
    BY <2>1, <2>2 DEF Extract, Takes, Keeps
  <2>3. CASE ItemLength(In[p], Cuts[p], buf) # {}
    <3>1. PICK n \in ItemLength(In[p], Cuts[p], buf) :
            /\ received' = [received EXCEPT ![p] = Append(@, SubSeq(buf, 1, n))]
            /\ readBuf' = [readBuf EXCEPT ![p] = SubSeq(buf, n + 1, Len(buf))]
      BY <2>1, <2>3 DEF Extract
    <3>2. n \in 1 .. Len(buf)
      BY <1>2, <3>1, ItemFacts
    <3>3. Returns(p, buf, n)
      BY <3>1 DEF Returns
    <3> QED BY <3>2, <3>3 DEF Takes
  <2> QED BY <2>2, <2>3
<1> QED BY <1>2, <1>3

(* A protocol receives. *)
LEMMA TypeRecv ==
    ASSUME TypeInv, NEW p \in Protocols, Recv(p)
    PROVE  TypeInv'
<1>0. /\ EgressT /\ PendingT /\ WeightT /\ WriterT /\ BearerT /\ ReaderT /\ IngressT
      /\ WriterOK /\ HeldOK /\ SenderOK
  BY TypeParts DEF TypeInv
<1>1. UNCHANGED <<open, egressVars, weight, writerVars, bearerVars, reader, cancel>>
  BY DEF Recv
<1>2. EgressT' /\ PendingT' /\ WeightT' /\ SenderOK' /\ WriterT' /\ WriterOK' /\ BearerT' /\ ReaderT'
  <2>1. EgressT' /\ PendingT' /\ WeightT' /\ SenderOK'
    BY <1>0, <1>1 DEF EgressT, PendingT, WeightT, SenderOK, egressVars
  <2>2. WriterT' /\ WriterOK' /\ BearerT' /\ ReaderT'
    BY <1>0, <1>1 DEF WriterT, WriterOK, Turn, writerVars, BearerT, bearerVars, ReaderT
  <2> QED BY <2>1, <2>2
<1>3. PICK buf \in Bs : Pulls(p, buf) /\ Takes(p, buf)
  BY RecvFacts
<1>4. /\ readBuf' \in [Protocols -> Seq(Nat)] /\ received' \in [Protocols -> Seq(Seq(Nat))]
  <2>1. readBuf \in [Protocols -> Seq(Nat)] /\ received \in [Protocols -> Seq(Seq(Nat))]
    BY <1>0 DEF IngressT
  <2>2. CASE Keeps(p, buf)
    BY <2>1, <2>2 DEF Keeps, Bs
  <2>3. ASSUME NEW n \in 1 .. Len(buf), Returns(p, buf, n)
        PROVE  /\ readBuf' \in [Protocols -> Seq(Nat)] /\ received' \in [Protocols -> Seq(Seq(Nat))]
    <3>1. n \in 0 .. Len(buf)
      OBVIOUS
    <3>2. SubSeq(buf, 1, n) \in Seq(Nat) /\ SubSeq(buf, n + 1, Len(buf)) \in Seq(Nat)
      BY <3>1, CutFacts DEF Bs
    <3>3. Append(received[p], SubSeq(buf, 1, n)) \in Seq(Seq(Nat))
      BY <2>1, <3>2, AppendProperties
    <3>4. /\ received' = [received EXCEPT ![p] = Append(received[p], SubSeq(buf, 1, n))]
          /\ readBuf' = [readBuf EXCEPT ![p] = SubSeq(buf, n + 1, Len(buf))]
      BY <2>1, <2>3 DEF Returns
    <3> QED BY <2>1, <3>2, <3>3, <3>4
  <2> QED BY <1>3, <2>2, <2>3 DEF Takes
<1>5. \A q : InHand(q)' = InHand(q)
  BY <1>1 DEF InHand
<1>6. \A q \in Protocols : /\ Len(FlattenSeq(ingress[q])) + Len(InHand(q)) <= held[q] /\ held[q] \in Nat
                           /\ held[q] <= IngressLimit /\ Len(InHand(q)) \in Nat
  BY <1>0, InHandType DEF IngressT, HeldOK
<1>7. CASE UNCHANGED <<ingress, held>>
  <2>1. IngressT'
    BY <1>0, <1>4, <1>7 DEF IngressT
  <2>2. HeldOK'
    BY <1>5, <1>6, <1>7 DEF HeldOK
  <2> QED BY <1>2, <2>1, <2>2, TypePartsNext DEF TypeInv
<1>8. CASE /\ ingress[p] # <<>>
           /\ held' = [held EXCEPT ![p] = @ - Len(Head(ingress[p]))]
           /\ ingress' = [ingress EXCEPT ![p] = Tail(@)]
  <2> DEFINE x == Head(ingress[p])
             t == Tail(ingress[p])
  <2>1. ingress[p] \in Seq(Seq(Nat)) /\ Len(ingress[p]) <= Buffer
    BY <1>0 DEF IngressT
  <2>2. /\ x \in Bs /\ Len(x) \in Nat /\ t \in Seq(Seq(Nat)) /\ Len(t) <= Buffer
        /\ FlattenSeq(t) \in Bs /\ Len(FlattenSeq(t)) \in Nat
    <3>1. x \in Bs /\ t \in Seq(Seq(Nat)) /\ Len(t) = Len(ingress[p]) - 1
      BY <1>8, <2>1, HeadTailProperties DEF Bs
    <3>2. Len(t) <= Buffer
      BY <2>1, <3>1, StreamConstants, LenProperties
    <3> HIDE DEF x, t
    <3>3. FlattenSeq(t) \in Bs
      BY <3>1, FlattenType DEF Bs
    <3> QED BY <3>1, <3>2, <3>3, LenProperties DEF Bs
  <2>3. Len(FlattenSeq(ingress[p])) = Len(x) + Len(FlattenSeq(t))
    <3>1. FlattenSeq(ingress[p]) = Cat(x, FlattenSeq(t))
      BY <1>8, <2>1, FlattenHead DEF Cat
    <3> HIDE DEF x, t
    <3> QED BY <2>2, <3>1, CatFacts
  <2>4. held' = [held EXCEPT ![p] = held[p] - Len(x)] /\ ingress' = [ingress EXCEPT ![p] = t]
    BY <1>0, <1>8 DEF IngressT
  <2> HIDE DEF x, t
  <2>5. held[p] - Len(x) \in 0 .. IngressLimit
    BY <1>6, <2>2, <2>3, StreamConstants
  <2>6. IngressT'
    BY <1>0, <1>4, <2>2, <2>4, <2>5 DEF IngressT
  <2>7. HeldOK'
    <3> SUFFICES ASSUME NEW q \in Protocols
                 PROVE  (Len(FlattenSeq(ingress[q])) + Len(InHand(q)) <= held[q])'
      BY DEF HeldOK
    <3>1. CASE q = p
      <4>1. held'[q] = held[p] - Len(x) /\ ingress'[q] = t
        BY <1>0, <2>4, <3>1 DEF IngressT
      <4> QED BY <1>5, <1>6, <2>2, <2>3, <3>1, <4>1
    <3>2. CASE q # p
      <4>1. held'[q] = held[q] /\ ingress'[q] = ingress[q]
        BY <1>0, <2>4, <3>2 DEF IngressT
      <4> QED BY <1>5, <1>6, <4>1
    <3> QED BY <3>1, <3>2
  <2> QED BY <1>2, <2>6, <2>7, TypePartsNext DEF TypeInv
<1> QED BY <1>3, <1>7, <1>8 DEF Pulls

(* The peer sends an SDU. *)
LEMMA TypePeerSends ==
    ASSUME TypeInv, NEW p \in Protocols, NEW n \in 1 .. MaxSegment, PeerSends(p, n)
    PROVE  TypeInv'
<1>0. /\ EgressT /\ PendingT /\ WeightT /\ WriterT /\ BearerT /\ ReaderT /\ IngressT
      /\ WriterOK /\ HeldOK /\ SenderOK
  BY TypeParts DEF TypeInv
<1>1. /\ UNCHANGED <<open, egressVars, weight, writerVars, reader, ingressVars, cancel>>
      /\ Len(arriving) < WireCapacity
      /\ arriving' = Append(arriving, [protocol |-> p, payload |-> Run(peerAt[p], n)])
      /\ peerAt' = [peerAt EXCEPT ![p] = @ + n]
  BY DEF PeerSends, Run
<1>2. EgressT' /\ PendingT' /\ WeightT' /\ SenderOK' /\ WriterT' /\ WriterOK' /\ ReaderT'
  <2>1. EgressT' /\ PendingT' /\ WeightT' /\ SenderOK'
    BY <1>0, <1>1 DEF EgressT, PendingT, WeightT, SenderOK, egressVars
  <2>2. WriterT' /\ WriterOK' /\ ReaderT'
    BY <1>0, <1>1 DEF WriterT, WriterOK, Turn, writerVars, ReaderT
  <2> QED BY <2>1, <2>2
<1>3. IngressT' /\ HeldOK'
  BY <1>0, <1>1 DEF IngressT, HeldOK, InHand, ingressVars
<1>4. n \in Nat /\ peerAt[p] \in Nat
  BY <1>0, StreamConstants DEF BearerT
<1>5. [protocol |-> p, payload |-> Run(peerAt[p], n)] \in Sdus
  BY <1>4, RunFacts DEF Sdus, Bs
<1>6. BearerT'
  <2> DEFINE u == [protocol |-> p, payload |-> Run(peerAt[p], n)]
  <2>1. u \in Sdus /\ arriving' = Append(arriving, u)
    BY <1>1, <1>5
  <2> HIDE DEF u
  <2>2. arriving \in Seq(Sdus) /\ Len(arriving) \in Nat
    BY <1>0, LenProperties DEF BearerT
  <2>3. arriving' \in Seq(Sdus) /\ Len(arriving') = Len(arriving) + 1
    BY <2>1, <2>2, AppendProperties
  <2>4. Len(arriving') <= WireCapacity
    BY <1>1, <2>2, <2>3, StreamConstants
  <2>5. peerAt' \in [Protocols -> Nat]
    BY <1>0, <1>1, <1>4 DEF BearerT
  <2> QED BY <2>3, <2>4, <2>5 DEF BearerT
<1> QED BY <1>2, <1>3, <1>6, TypePartsNext DEF TypeInv

(* A step that changes nothing. *)
LEMMA TypeStutter == TypeInv /\ UNCHANGED vars => TypeInv'
<1> SUFFICES ASSUME TypeInv, UNCHANGED vars PROVE TypeInv'
  OBVIOUS
<1>0. /\ EgressT /\ PendingT /\ WeightT /\ WriterT /\ BearerT /\ ReaderT /\ IngressT
      /\ WriterOK /\ HeldOK /\ SenderOK
  BY TypeParts DEF TypeInv
<1>1. EgressT' /\ PendingT' /\ WeightT' /\ SenderOK'
  BY <1>0 DEF EgressT, PendingT, WeightT, SenderOK, vars, egressVars
<1>2. WriterT' /\ WriterOK' /\ BearerT' /\ ReaderT'
  BY <1>0 DEF WriterT, WriterOK, Turn, BearerT, ReaderT, vars, writerVars, bearerVars
<1>3. IngressT' /\ HeldOK'
  BY <1>0 DEF IngressT, HeldOK, InHand, vars, ingressVars
<1> QED BY <1>1, <1>2, <1>3, TypePartsNext DEF TypeInv

(* Every step keeps the types. *)
LEMMA TypeNext == TypeInv /\ [Next]_vars => TypeInv'
<1> SUFFICES ASSUME TypeInv, [Next]_vars PROVE TypeInv'
  OBVIOUS
<1>1. CASE TakePayload
  BY <1>1, TypeTake
<1>2. CASE LeaveSlot
  BY <1>2, TypeLeave
<1>3. CASE WriteSegment
  BY <1>3, TypeSegment
<1>4. CASE WriteFails \/ Wait \/ PeerReads
  BY <1>4, TypeWriterRest
<1>5. CASE ReadHeader \/ ReadFails
  BY <1>5, TypeReader
<1>p. CASE ReadPayload \/ PayloadFails
  BY <1>p, TypePayload
<1>6. CASE Deliver
  BY <1>6, TypeDeliver
<1>7. ASSUME NEW p \in Protocols, Driver(p) PROVE TypeInv'
  BY <1>7, TypeDriver, TypeDrop, TypeRecv DEF Driver
<1>8. ASSUME NEW p \in Protocols, SetWeight(p) PROVE TypeInv'
  BY <1>8, TypeDriver
<1>9. ASSUME NEW p \in Protocols, NEW n \in 1 .. MaxSegment, PeerSends(p, n) PROVE TypeInv'
  BY <1>9, TypePeerSends
<1>10. CASE UNCHANGED vars
  BY <1>10, TypeStutter
<1> QED BY <1>1, <1>2, <1>3, <1>4, <1>5, <1>p, <1>6, <1>7, <1>8, <1>9, <1>10 DEF Next, Writer, Reader

(* TypeInv is an invariant of the specification. *)
LEMMA TypeAlways == Spec => []TypeInv
  BY TypeInit, TypeNext, PTL DEF Spec

-----------------------------------------------------------------------------
(* No lost wakeup *)

(* A channel the writer may sleep over. *)
Settled(p) == egress[p] = <<>> \/ sender[p] = "queued"

(* As long as a round has written nothing and no permit is left, the channels *)
(* visited so far were found empty, and what has come since will be notified. *)
WakeInv ==
    /\ writer.at \in {"round", "write"} /\ ~writer.wrote => writer.count = 0
    /\ writer.at = "round" /\ ~writer.wrote /\ ~permit =>
          \A i \in 1 .. Len(Slots) : i < writer.turn => Settled(Slots[i])
    /\ NoLostWakeup

(* At the start the writer does not wait. *)
LEMMA WakeInit == Init => WakeInv
<1> SUFFICES ASSUME Init PROVE WakeInv
  OBVIOUS
<1>1. writer.at = "round" /\ writer.turn = 1 /\ writer.count = 0
  BY DEF Init, NewRound
<1>2. \A i \in 1 .. Len(Slots) : ~(i < 1)
  BY SlotConstants
<1> QED BY <1>1, <1>2 DEF WakeInv, NoLostWakeup

(* Nothing the writer looks at changes for the worse. *)
LEMMA WakeKept ==
    ASSUME TypeInv, WakeInv, writer' = writer,
           permit' = permit \/ permit' = TRUE,
           ~permit' => \A p \in Protocols : Settled(p) => Settled(p)'
    PROVE  WakeInv'
<1>1. ~permit' => ~permit
  BY TypeParts DEF TypeInv, EgressT
<1>2. \A i \in 1 .. Len(Slots) : Slots[i] \in Protocols
  BY SlotConstants
<1>3. \A p \in Protocols : NoLostWakeup /\ writer.at = "wait" /\ ~permit' => Settled(p)'
  BY <1>1 DEF NoLostWakeup, Settled
<1>4. NoLostWakeup'
  BY <1>3 DEF NoLostWakeup, Settled, WakeInv
<1>5. writer'.at = "round" /\ ~writer'.wrote /\ ~permit' =>
          \A i \in 1 .. Len(Slots) : i < writer'.turn => Settled(Slots[i])'
  BY <1>1, <1>2 DEF WakeInv
<1> QED BY <1>4, <1>5 DEF WakeInv

(* Every step keeps WakeInv. *)
LEMMA WakeNext == TypeInv /\ WakeInv /\ [Next]_vars => WakeInv'
<1> SUFFICES ASSUME TypeInv, WakeInv, [Next]_vars PROVE WakeInv'
  OBVIOUS
<1>0. EgressT /\ WeightT /\ WriterT /\ WriterOK
  BY TypeParts DEF TypeInv
<1>1. ASSUME UNCHANGED <<writer, permit, sender, egress>> PROVE WakeInv'
  <2>1. \A p \in Protocols : Settled(p) => Settled(p)'
    BY <1>1 DEF Settled
  <2> QED BY <1>1, <2>1, WakeKept
<1>2. ASSUME NEW p \in Protocols, Driver(p) PROVE WakeInv'
  <2>1. CASE Recv(p)
    BY <1>1, <2>1 DEF Recv, egressVars, writerVars
  <2>2. CASE Count(p)
    BY <2>2, WakeKept DEF Count, writerVars
  <2>3. CASE Send(p) \/ Enqueue(p) \/ DropHandle(p)
    <3>1. writer' = writer /\ permit' = permit
      BY <2>3 DEF Send, Enqueue, DropHandle, writerVars
    <3>2. \A q \in Protocols : Settled(q) => Settled(q)'
      <4> SUFFICES ASSUME NEW q \in Protocols, Settled(q) PROVE Settled(q)'
        OBVIOUS
      <4>1. CASE q # p
        BY <1>0, <2>3, <4>1 DEF Send, Enqueue, DropHandle, Settled, EgressT
      <4>2. CASE q = p
        BY <1>0, <2>3, <4>2 DEF Send, Enqueue, DropHandle, Settled, EgressT
      <4> QED BY <4>1, <4>2
    <3> QED BY <3>1, <3>2, WakeKept
  <2> QED BY <1>2, <2>1, <2>2, <2>3 DEF Driver
<1>3. CASE TakePayload
  <2>1. writer' \in WriterType /\ writer'.at = "write" /\ writer'.wrote = writer.wrote
        /\ writer'.count = writer.count /\ writer.at = "round"
    <3>1. TypeInv'
      BY TypeNext
    <3>2. writer' \in WriterType
      BY <3>1, TypePartsNext DEF TypeInv, WriterT
    <3> QED BY <1>0, <1>3, <3>2 DEF TakePayload, WriterT, WriterType
  <2> QED BY <2>1 DEF WakeInv, NoLostWakeup
<1>4. CASE LeaveSlot
  <2> DEFINE c == closed'
  <2>1. /\ writer.at = "round" /\ Advance(c) /\ UNCHANGED <<egress, sender, permit>>
        /\ writer.count >= weight[Turn] \/ egress[Turn] = <<>>
    BY <1>4 DEF LeaveSlot, egressVars
  <2>2. /\ writer \in WriterType /\ writer.turn \in 1 .. Len(Slots) /\ Len(Slots) \in Nat
        /\ Turn \in Protocols /\ weight[Turn] \in Nat \ {0}
    <3>1. writer \in WriterType /\ writer.turn \in 1 .. Len(Slots)
      BY <1>0 DEF WriterT, WriterType
    <3>2. Turn \in Protocols
      BY <1>0, TurnType
    <3>3. weight[Turn] \in Nat \ {0}
      BY <1>0, <3>2, WeightFacts
    <3> QED BY <3>1, <3>2, <3>3, SlotConstants
  <2>3. ASSUME ~writer.wrote, ~permit
        PROVE  \A i \in 1 .. Len(Slots) : i <= writer.turn => Settled(Slots[i])'
    <3>1. egress[Turn] = <<>>
      BY <2>1, <2>2, <2>3 DEF WakeInv
    <3>2. \A i \in 1 .. Len(Slots) : i < writer.turn => Settled(Slots[i])
      BY <2>1, <2>3 DEF WakeInv
    <3>3. Settled(Slots[writer.turn])
      BY <3>1 DEF Settled, Turn
    <3>4. \A i \in 1 .. Len(Slots) : i <= writer.turn => Settled(Slots[i])
      BY <2>2, <3>2, <3>3
    <3> QED BY <2>1, <3>4 DEF Settled
  <2> HIDE DEF c
  <2>4. CASE writer.turn < Len(Slots)
    <3>1. writer' = [writer EXCEPT !.turn = @ + 1, !.count = 0]
      BY <2>1, <2>4, Zenon DEF Advance
    <3>2. /\ writer'.at = "round" /\ writer'.turn = writer.turn + 1 /\ writer'.count = 0
          /\ writer'.wrote = writer.wrote
      BY <2>1, <2>2, <3>1 DEF WriterType
    <3> QED BY <2>1, <2>2, <2>3, <3>2 DEF WakeInv, NoLostWakeup
  <2>5. CASE ~(writer.turn < Len(Slots)) /\ \A p \in Protocols : c[p]
    <3>1. writer' = [writer EXCEPT !.at = "done"]
      BY <2>1, <2>5, Zenon DEF Advance
    <3>2. writer'.at = "done"
      BY <2>2, <3>1 DEF WriterType
    <3> QED BY <3>2 DEF WakeInv, NoLostWakeup
  <2>6. CASE ~(writer.turn < Len(Slots)) /\ ~(\A p \in Protocols : c[p])
    <3>1. CASE writer.wrote
      <4>1. writer' = NewRound(FALSE)
        BY <2>1, <2>6, <3>1, Zenon DEF Advance
      <4>2. writer'.at = "round" /\ writer'.turn = 1 /\ writer'.count = 0
        BY <4>1 DEF NewRound
      <4>3. \A i \in 1 .. Len(Slots) : ~(i < 1)
        BY SlotConstants
      <4> QED BY <4>2, <4>3 DEF WakeInv, NoLostWakeup
    <3>2. CASE ~writer.wrote
      <4>1. writer' = [NewRound(FALSE) EXCEPT !.at = "wait"]
        BY <2>1, <2>6, <3>2, Zenon DEF Advance
      <4>2. writer'.at = "wait"
        BY <4>1 DEF NewRound
      <4>3. ASSUME ~permit' PROVE \A p \in Protocols : Settled(p)'
        <5>1. \A i \in 1 .. Len(Slots) : Settled(Slots[i])'
          BY <2>1, <2>2, <2>3, <2>6, <3>2, <4>3
        <5>2. \A p \in Protocols : \E i \in 1 .. Len(Slots) : Slots[i] = p
          BY SlotConstants
        <5> QED BY <5>1, <5>2
      <4> QED BY <4>2, <4>3 DEF WakeInv, NoLostWakeup, Settled
    <3> QED BY <3>1, <3>2
  <2> QED BY <2>4, <2>5, <2>6
<1>5. CASE WriteSegment
  <2>1. PICK n \in 1 .. Len(writer.rest) : Segment(n)
    BY <1>5, SegmentFacts
  <2> DEFINE left == SubSeq(writer.rest, n + 1, Len(writer.rest))
  <2>2. \/ writer' = [writer EXCEPT !.rest = left]
        \/ writer' = [writer EXCEPT !.at = "round", !.count = @ + 1, !.wrote = TRUE,
                                    !.msg = 0, !.rest = <<>>]
    BY <2>1 DEF Segment
  <2> HIDE DEF left
  <2>3. writer \in WriterType /\ writer.at = "write"
    BY <1>0, <1>5 DEF WriterT, WriteSegment
  <2>4. CASE writer' = [writer EXCEPT !.rest = left]
    <3>1. writer'.at = "write" /\ writer'.count = writer.count /\ writer'.wrote = writer.wrote
      BY <2>3, <2>4 DEF WriterType
    <3> QED BY <2>3, <3>1 DEF WakeInv, NoLostWakeup
  <2>5. CASE writer' = [writer EXCEPT !.at = "round", !.count = @ + 1, !.wrote = TRUE,
                                    !.msg = 0, !.rest = <<>>]
    <3>1. writer'.at = "round" /\ writer'.wrote = TRUE
      BY <2>3, <2>5 DEF WriterType
    <3> QED BY <3>1 DEF WakeInv, NoLostWakeup
  <2> QED BY <2>2, <2>4, <2>5
<1>6. CASE WriteFails \/ Wait
  <2>1. writer' = [writer EXCEPT !.at = "failed"] \/ writer' = NewRound(FALSE)
    BY <1>6 DEF WriteFails, Wait
  <2>2. CASE writer' = [writer EXCEPT !.at = "failed"]
    <3>1. writer'.at = "failed"
      BY <1>0, <2>2 DEF WriterT, WriterType
    <3> QED BY <3>1 DEF WakeInv, NoLostWakeup
  <2>3. CASE writer' = NewRound(FALSE)
    <3>1. writer'.at = "round" /\ writer'.turn = 1 /\ writer'.count = 0
      BY <2>3 DEF NewRound
    <3>2. \A i \in 1 .. Len(Slots) : ~(i < 1)
      BY SlotConstants
    <3> QED BY <3>1, <3>2 DEF WakeInv, NoLostWakeup
  <2> QED BY <2>1, <2>2, <2>3
<1>7. CASE Reader \/ ReadPayload \/ PayloadFails \/ PeerReads
  BY <1>1, <1>7 DEF Reader, ReadHeader, ReadPayload, PayloadFails, Deliver, ReadFails, PeerReads, egressVars, writerVars
<1>8. ASSUME NEW p \in Protocols, SetWeight(p) PROVE WakeInv'
  BY <1>1, <1>8 DEF SetWeight, egressVars, writerVars
<1>9. ASSUME NEW p \in Protocols, NEW n \in 1 .. MaxSegment, PeerSends(p, n) PROVE WakeInv'
  BY <1>1, <1>9 DEF PeerSends, egressVars, writerVars
<1>10. CASE UNCHANGED vars
  BY <1>1, <1>10 DEF vars, egressVars, writerVars
<1> QED BY <1>2, <1>3, <1>4, <1>5, <1>6, <1>7, <1>8, <1>9, <1>10 DEF Next, Writer

(* notify_one and mux_loop: whatever the order of the calls of send, the     *)
(* rounds of the writer and its waits, the writer never sleeps over a        *)
(* message whose sender has finished its call.                               *)
THEOREM WakeupsAreKept == Spec => []NoLostWakeup
<1>1. WakeInv => NoLostWakeup
  BY DEF WakeInv
<1> QED BY WakeInit, WakeNext, TypeAlways, <1>1, PTL DEF Spec

-----------------------------------------------------------------------------
(* Bounded overtaking *)

(* Slot j has been visited since the last visit of slot i, now that slot t is. *)
Since(i, j, t) == IF t > i THEN i < j /\ j <= t ELSE j > i \/ j <= t

Passed(i, j) == overtaken[Slots[i]][Slots[j]]

(* The bytes of c payloads of slot j, at most. *)
Share(c, j) == c * Longest(Slots[j])

(* Bytes of slot j that slot i has let pass, the rest in hand included. *)
PassedOK(i, j) ==
    /\ egress[Slots[i]] = <<>> /\ ~(writer.at = "write" /\ writer.turn = i) => Passed(i, j) = 0
    /\ writer.turn = i /\ writer.count > 0 => Passed(i, j) = 0
    /\ Passed(i, j) # 0 => Since(i, j, writer.turn)
    /\ writer.turn = j =>
         IF writer.at = "write" THEN Passed(i, j) + Len(writer.rest) <= Share(writer.count + 1, j)
         ELSE Passed(i, j) <= Share(writer.count, j)

(* All were written in one visit of slot j, the one after the last of slot i. *)
TurnInv ==
    /\ BoundedOvertaking
    /\ WriterRuns => \A i, j \in 1 .. Len(Slots) : i # j => PassedOK(i, j)
    /\ writer.at = "wait" => writer.turn = 1 /\ writer.count = 0
    /\ WriterRuns => writer.count <= Hot[Turn]
    /\ writer.at = "write" => writer.count < Hot[Turn]

(* The greatest of a bounded set of numbers. *)
LEMMA GreatestOf ==
    ASSUME NEW n \in Nat, NEW S \in SUBSET (0 .. n), S # {}
    PROVE  Max(S) \in S /\ \A y \in S : y <= Max(S)
<1> DEFINE T == {k \in Nat : \A y \in S : y <= k}
<1>1. T \in SUBSET Nat /\ n \in T
  OBVIOUS
<1>2. PICK m \in T : \A k \in T : m <= k
  <2> HIDE DEF T
  <2> QED BY <1>1, LeastExists
<1>3. m \in Nat /\ \A y \in S : y <= m /\ y \in Nat
  BY <1>2
<1>4. m \in S
  <2> SUFFICES ASSUME m \notin S PROVE FALSE
    OBVIOUS
  <2>1. \A y \in S : y <= m - 1
    BY <1>3
  <2>2. PICK y \in S : TRUE
    OBVIOUS
  <2>3. m - 1 \in Nat
    BY <1>3, <2>1, <2>2
  <2>4. m - 1 \in T
    BY <2>1, <2>3
  <2> QED BY <1>2, <1>3, <2>4
<1>5. \A y \in S : m >= y
  BY <1>3
<1>6. /\ Max(S) \in S /\ \A y \in S : Max(S) >= y
  BY <1>4, <1>5 DEF Max
<1>7. Max(S) \in Nat
  BY <1>3, <1>6
<1> QED BY <1>3, <1>6, <1>7

(* No message is longer than the longest one. *)
LEMMA LongestFacts ==
    ASSUME NEW q \in Protocols
    PROVE  Longest(q) \in Nat /\ \A i \in 1 .. Len(Out[q]) : Size(Out[q], i) <= Longest(q)
<1> DEFINE e == Out[q]
           S == {0} \cup { Size(e, i) : i \in 1 .. Len(e) }
           n == IF Len(e) = 0 THEN 0 ELSE e[Len(e)]
<1>1. IsEnds(e) /\ Len(e) \in Nat
  BY StreamConstants, LenProperties DEF IsEnds
<1>2. \A i \in 1 .. Len(e) : /\ Size(e, i) \in Nat /\ Before(e, i) \in Nat /\ e[i] \in Nat
                             /\ e[i] = Before(e, i) + Size(e, i)
  BY <1>1, MessageFacts
<1>3. Len(e) # 0 => Len(e) \in 1 .. Len(e) /\ e[Len(e)] \in Nat
  BY <1>1, <1>2
<1>4. \A i \in 1 .. Len(e) : Size(e, i) <= n /\ n \in Nat
  <2> SUFFICES ASSUME NEW i \in 1 .. Len(e) PROVE Size(e, i) <= n /\ n \in Nat
    OBVIOUS
  <2>1. n = e[Len(e)] /\ n \in Nat /\ Len(e) \in 1 .. Len(e)
    BY <1>1, <1>3
  <2>2. e[i] <= e[Len(e)]
    <3>1. CASE i = Len(e)
      BY <1>2, <3>1
    <3>2. CASE i # Len(e)
      <4>1. i < Len(e)
        BY <1>1, <3>2
      <4>2. e[i] < e[Len(e)]
        <5>1. \A j, k \in 1 .. Len(e) : j < k => e[j] < e[k]
          BY <1>1 DEF IsEnds
        <5> HIDE DEF e
        <5> QED BY <2>1, <4>1, <5>1
      <4>3. e[i] \in Nat /\ e[Len(e)] \in Nat
        BY <1>2, <2>1
      <4> QED BY <4>2, <4>3
    <3> QED BY <3>1, <3>2
  <2>3. Size(e, i) <= e[i]
    BY <1>2
  <2> HIDE DEF n
  <2> QED BY <1>2, <2>1, <2>2, <2>3
<1>5. n \in Nat
  BY <1>3
<1>6. S \in SUBSET (0 .. n) /\ S # {}
  <2> HIDE DEF n
  <2> QED BY <1>2, <1>4, <1>5
<1>7. Longest(q) = Max(S)
  BY DEF Longest
<1> HIDE DEF n, S
<1>8. Max(S) \in S /\ \A y \in S : y <= Max(S)
  BY <1>5, <1>6, GreatestOf
<1>9. Max(S) \in Nat
  <2>1. Max(S) \in 0 .. n
    BY <1>6, <1>8, Zenon
  <2> QED BY <1>5, <2>1
<1>10. \A i \in 1 .. Len(e) : Size(e, i) \in S
  BY DEF S
<1> QED BY <1>7, <1>8, <1>9, <1>10

(* What a slot may write grows with the number of payloads. *)
LEMMA ShareFacts ==
    ASSUME NEW j \in 1 .. Len(Slots)
    PROVE  /\ Share(0, j) = 0
           /\ \A c \in Nat : /\ Share(c, j) \in Nat
                              /\ Share(c + 1, j) = Share(c, j) + Longest(Slots[j])
                              /\ \A h \in Nat : c <= h => Share(c, j) <= Share(h, j)
           /\ Share(Hot[Slots[j]], j) = Hot[Slots[j]] * Longest(Slots[j])
<1> DEFINE l == Longest(Slots[j])
<1>1. l \in Nat
  BY LongestFacts, SlotConstants
<1> HIDE DEF l
<1>2. 0 * l = 0
  BY <1>1
<1>3. ASSUME NEW c \in Nat
      PROVE  c * l \in Nat /\ (c + 1) * l = c * l + l
  BY <1>1, <1>3
<1>4. ASSUME NEW c \in Nat, NEW h \in Nat, c <= h
      PROVE  c * l <= h * l
  <2>1. PICK d \in Nat : h = c + d
    <3>1. h - c \in Nat /\ h = c + (h - c)
      BY <1>4
    <3> QED BY <3>1
  <2>2. (c + d) * l = c * l + d * l /\ d * l \in Nat /\ c * l \in Nat
    BY <1>1
  <2> QED BY <2>1, <2>2
<1> QED BY <1>2, <1>3, <1>4 DEF Share, l

(* At the start nothing has been overtaken. *)
LEMMA TurnInit == Init => TurnInv
<1> SUFFICES ASSUME Init PROVE TurnInv
  OBVIOUS
<1>1. writer.at = "round" /\ writer.turn = 1 /\ writer.count = 0
  BY DEF Init, NewRound
<1>2. \A p, q \in Protocols : overtaken[p][q] = 0
  BY DEF Init
<1>3. \A i \in 1 .. Len(Slots) : Slots[i] \in Protocols /\ i \in Nat
  BY SlotConstants
<1>4. Turn \in Protocols
  BY <1>1, <1>3, SlotConstants DEF Turn
<1>5. BoundedOvertaking
  <2>1. ASSUME NEW q \in Protocols PROVE 0 <= Hot[q] * Longest(q)
    <3>1. PICK j \in 1 .. Len(Slots) : Slots[j] = q
      BY SlotConstants
    <3>2. Hot[q] \in Nat
      BY SlotConstants
    <3>3. Share(Hot[Slots[j]], j) \in Nat /\ Share(Hot[Slots[j]], j) = Hot[q] * Longest(q)
      BY <3>1, <3>2, ShareFacts
    <3> QED BY <3>3
  <2> QED BY <1>2, <2>1 DEF BoundedOvertaking
<1>6. \A i, j \in 1 .. Len(Slots) : PassedOK(i, j)
  <2> SUFFICES ASSUME NEW i \in 1 .. Len(Slots), NEW j \in 1 .. Len(Slots) PROVE PassedOK(i, j)
    OBVIOUS
  <2>1. Passed(i, j) = 0
    BY <1>2, <1>3 DEF Passed
  <2>2. Share(0, j) = 0
    BY ShareFacts
  <2>3. Passed(i, j) <= Share(writer.count, j)
    BY <1>1, <2>1, <2>2
  <2> QED BY <1>1, <2>1, <2>3 DEF PassedOK
<1> QED BY <1>1, <1>4, <1>5, <1>6, SlotConstants DEF TurnInv

(* A step that leaves the writer and the counts alone and empties no channel. *)
LEMMA TurnKept ==
    ASSUME TypeInv, TurnInv, UNCHANGED <<writer, overtaken>>,
           \A p \in Protocols : egress'[p] = <<>> => egress[p] = <<>>
    PROVE  TurnInv'
<1>1. BoundedOvertaking'
  BY DEF TurnInv, BoundedOvertaking
<1>2. Turn' = Turn /\ WriterRuns' = WriterRuns
  BY DEF Turn, WriterRuns
<1>3. WriterRuns => \A i, j \in 1 .. Len(Slots) : i # j => PassedOK(i, j)'
  <2> SUFFICES ASSUME WriterRuns, NEW i \in 1 .. Len(Slots), NEW j \in 1 .. Len(Slots), i # j
               PROVE  PassedOK(i, j)'
    OBVIOUS
  <2>1. PassedOK(i, j) /\ Passed(i, j)' = Passed(i, j)
    BY DEF TurnInv, Passed
  <2>2. Slots[i] \in Protocols
    BY SlotConstants
  <2>3. egress'[Slots[i]] = <<>> => egress[Slots[i]] = <<>>
    BY <2>2
  <2> QED BY <2>1, <2>3 DEF PassedOK
<1> QED BY <1>1, <1>2, <1>3 DEF TurnInv

(* The writer moves on from slot t to slot u. *)
LEMMA TurnMoves ==
    ASSUME TypeInv, TurnInv, writer.at = "round", LeaveSlot,
           writer'.turn = (IF writer.turn < Len(Slots) THEN writer.turn + 1 ELSE 1),
           writer'.count = 0, writer'.at \in {"round", "wait"}
    PROVE  \A i, j \in 1 .. Len(Slots) : i # j => PassedOK(i, j)'
<1> DEFINE t == writer.turn
           u == writer'.turn
           N == Len(Slots)
<1>0. EgressT /\ WeightT /\ WriterT /\ WriterOK
  BY TypeParts DEF TypeInv
<1>1. /\ t \in 1 .. N /\ N \in Nat \ {0} /\ u = (IF t < N THEN t + 1 ELSE 1)
      /\ writer.count \in Nat
  BY <1>0, SlotConstants DEF WriterT, WriterType
<1>2. Turn \in Protocols /\ weight[Turn] \in Nat \ {0} /\ Turn = Slots[t]
  <2>1. Turn \in Protocols
    BY <1>0, TurnType
  <2>2. weight[Turn] \in Nat \ {0}
    BY <1>0, <2>1, WeightFacts
  <2> QED BY <2>1, <2>2 DEF Turn
<1>3. UNCHANGED <<egress, overtaken>> /\ (writer.count >= weight[Turn] \/ egress[Turn] = <<>>)
  BY DEF LeaveSlot, egressVars
<1>4. \A i, j \in 1 .. N : i # j => PassedOK(i, j)
  BY DEF TurnInv, WriterRuns
<1> SUFFICES ASSUME NEW i \in 1 .. N, NEW j \in 1 .. N, i # j PROVE PassedOK(i, j)'
  OBVIOUS
<1>5. Passed(i, j)' = Passed(i, j) /\ Passed(i, j) \in Nat
  <2>1. Slots[i] \in Protocols /\ Slots[j] \in Protocols
    BY SlotConstants
  <2> QED BY <1>0, <1>3, <2>1 DEF Passed, WriterT
<1>6. i = t => Passed(i, j) = 0
  <2> SUFFICES ASSUME i = t PROVE Passed(i, j) = 0
    OBVIOUS
  <2>1. PassedOK(i, j)
    BY <1>4
  <2>2. CASE writer.count >= weight[Turn]
    BY <1>1, <1>2, <2>1, <2>2 DEF PassedOK
  <2>3. CASE egress[Turn] = <<>>
    BY <1>2, <2>1, <2>3 DEF PassedOK
  <2> QED BY <1>3, <2>2, <2>3
<1>7. Passed(i, j) # 0 => Since(i, j, t)
  BY <1>4 DEF PassedOK
<1> HIDE DEF t, u, N
<1>8. Passed(i, j) # 0 => Since(i, j, u) /\ u # j
  BY <1>1, <1>6, <1>7 DEF Since
<1>9. egress'[Slots[i]] = <<>> => Passed(i, j)' = 0
  <2>1. PassedOK(i, j)
    BY <1>4
  <2> QED BY <1>3, <1>5, <2>1 DEF PassedOK
<1>10. u = j => Passed(i, j)' <= Share(0, j)
  <2>1. Share(0, j) = 0
    BY ShareFacts DEF N
  <2> QED BY <1>5, <1>8, <2>1
<1> QED BY <1>5, <1>8, <1>9, <1>10 DEF PassedOK, u

(* Every step keeps TurnInv. *)
LEMMA TurnNext == TypeInv /\ TurnInv /\ [Next]_vars => TurnInv'
<1> SUFFICES ASSUME TypeInv, TurnInv, [Next]_vars PROVE TurnInv'
  OBVIOUS
<1>0. EgressT /\ WeightT /\ WriterT /\ WriterOK
  BY TypeParts DEF TypeInv
<1>t. /\ writer \in WriterType /\ writer.turn \in 1 .. Len(Slots) /\ Turn \in Protocols
      /\ Turn = Slots[writer.turn] /\ writer.count \in Nat /\ Len(Slots) \in Nat \ {0}
      /\ Hot[Turn] \in Nat \ {0} /\ weight[Turn] \in {1, Hot[Turn]}
  <2>1. Turn \in Protocols
    BY <1>0, TurnType
  <2>2. writer \in WriterType /\ writer.turn \in 1 .. Len(Slots) /\ writer.count \in Nat
    BY <1>0 DEF WriterT, WriterType
  <2>3. weight[Turn] \in {1, Hot[Turn]}
    BY <1>0, <2>1 DEF WeightT
  <2> QED BY <2>1, <2>2, <2>3, SlotConstants DEF Turn
<1>b. BoundedOvertaking
  BY DEF TurnInv
<1>1. ASSUME UNCHANGED <<writer, overtaken, egress>> PROVE TurnInv'
  BY <1>1, TurnKept
<1>2. ASSUME NEW p \in Protocols, Driver(p) PROVE TurnInv'
  <2>1. CASE Recv(p) \/ Count(p) \/ Send(p) \/ DropHandle(p)
    BY <1>1, <2>1 DEF Recv, Count, Send, DropHandle, egressVars, writerVars
  <2>2. CASE Enqueue(p)
    <3>1. UNCHANGED <<writer, overtaken>>
      BY <2>2 DEF Enqueue, writerVars
    <3>2. \A q \in Protocols : egress'[q] = <<>> => egress[q] = <<>>
      <4> SUFFICES ASSUME NEW q \in Protocols, egress'[q] = <<>> PROVE egress[q] = <<>>
        OBVIOUS
      <4>1. \/ egress' = egress
            \/ egress' = [egress EXCEPT ![p] = Append(@, accepted[p] + 1)]
        BY <2>2 DEF Enqueue
      <4>2. egress[p] \in Seq(Nat) /\ accepted[p] + 1 \in Nat
        BY <1>0 DEF EgressT
      <4>3. Append(egress[p], accepted[p] + 1) # <<>>
        BY <4>2, AppendProperties
      <4> QED BY <1>0, <4>1, <4>3 DEF EgressT
    <3> QED BY <3>1, <3>2, TurnKept
  <2> QED BY <1>2, <2>1, <2>2 DEF Driver
<1>3. CASE TakePayload
  <2>1. /\ writer' = [writer EXCEPT !.at = "write", !.msg = Head(egress[Turn]),
                                    !.rest = Bytes(Out[Turn], Head(egress[Turn]))]
        /\ writer.count < weight[Turn] /\ overtaken' = overtaken /\ writer.at = "round"
        /\ egress' = [egress EXCEPT ![Turn] = Tail(@)]
    BY <1>3 DEF TakePayload
  <2>2. /\ writer'.at = "write" /\ writer'.turn = writer.turn /\ writer'.count = writer.count
        /\ Turn' = Turn
    BY <1>t, <2>1 DEF WriterType, Turn
  <2>3. writer.count < Hot[Turn]
    BY <1>t, <2>1
  <2>4. \A i, j \in 1 .. Len(Slots) : i # j => PassedOK(i, j)'
    <3> SUFFICES ASSUME NEW i \in 1 .. Len(Slots), NEW j \in 1 .. Len(Slots), i # j
                 PROVE  PassedOK(i, j)'
      OBVIOUS
    <3>1. PassedOK(i, j) /\ Passed(i, j)' = Passed(i, j)
      BY <2>1 DEF TurnInv, WriterRuns, Passed
    <3>2. i # writer.turn => egress'[Slots[i]] = egress[Slots[i]]
      BY <1>0, <1>t, <2>1, SlotConstants DEF EgressT
    <3>3. Passed(i, j) \in Nat
      <4>1. Slots[i] \in Protocols /\ Slots[j] \in Protocols
        BY SlotConstants
      <4> QED BY <1>0, <4>1 DEF Passed, WriterT
    <3>4. ASSUME writer.turn = j
          PROVE  Passed(i, j)' + Len(writer'.rest) <= Share(writer'.count + 1, j)
      <4> DEFINE m == Head(egress[Turn])
      <4>1. m \in 1 .. Len(Out[Turn]) /\ Slots[j] = Turn
        <5>1. egress[Turn] \in Seq(1 .. Len(Out[Turn])) /\ egress[Turn] # <<>>
          BY <1>0, <1>3, <1>t DEF EgressT, TakePayload
        <5> QED BY <1>t, <3>4, <5>1, HeadTailProperties
      <4>2. writer'.rest = Bytes(Out[Turn], m)
        BY <1>t, <2>1 DEF WriterType
      <4> HIDE DEF m
      <4>3. Len(writer'.rest) = Size(Out[Turn], m) /\ Size(Out[Turn], m) \in Nat
        BY <1>t, <4>1, <4>2, StreamConstants, MessageFacts
      <4>4. Size(Out[Turn], m) <= Longest(Slots[j]) /\ Longest(Slots[j]) \in Nat
        BY <1>t, <4>1, LongestFacts
      <4>5. /\ Share(writer.count + 1, j) = Share(writer.count, j) + Longest(Slots[j])
            /\ Share(writer.count, j) \in Nat
        BY <1>t, ShareFacts
      <4>6. Passed(i, j) <= Share(writer.count, j)
        BY <2>1, <3>1, <3>4 DEF PassedOK
      <4> QED BY <2>2, <3>1, <3>3, <4>3, <4>4, <4>5, <4>6
    <3> QED BY <2>1, <2>2, <3>1, <3>2, <3>4 DEF PassedOK
  <2>5. BoundedOvertaking'
    BY <1>b, <2>1 DEF BoundedOvertaking
  <2> QED BY <1>t, <2>2, <2>3, <2>4, <2>5 DEF TurnInv
<1>4. CASE LeaveSlot
  <2> DEFINE c == closed'
  <2>1. writer.at = "round" /\ Advance(c) /\ UNCHANGED <<egress, overtaken>>
    BY <1>4 DEF LeaveSlot, egressVars
  <2>2. BoundedOvertaking'
    BY <1>b, <2>1 DEF BoundedOvertaking
  <2> HIDE DEF c
  <2>3. ASSUME writer'.turn = (IF writer.turn < Len(Slots) THEN writer.turn + 1 ELSE 1),
               writer'.count = 0, writer'.at = "round" \/ (writer'.at = "wait" /\ writer'.turn = 1)
        PROVE  TurnInv'
    <3>1. \A i, j \in 1 .. Len(Slots) : i # j => PassedOK(i, j)'
      BY <1>4, <2>1, <2>3, TurnMoves
    <3>2. writer'.turn \in 1 .. Len(Slots)
      BY <1>t, <2>3
    <3>3. Turn' \in Protocols /\ Hot[Turn'] \in Nat
      BY <3>2, SlotConstants DEF Turn
    <3> QED BY <2>2, <2>3, <3>1, <3>3 DEF TurnInv
  <2>4. CASE writer.turn < Len(Slots)
    <3>1. writer' = [writer EXCEPT !.turn = @ + 1, !.count = 0]
      BY <2>1, <2>4, Zenon DEF Advance
    <3>2. writer'.at = "round" /\ writer'.turn = writer.turn + 1 /\ writer'.count = 0
      BY <1>t, <2>1, <3>1 DEF WriterType
    <3> QED BY <2>3, <2>4, <3>2
  <2>5. CASE ~(writer.turn < Len(Slots)) /\ \A p \in Protocols : c[p]
    <3>1. writer' = [writer EXCEPT !.at = "done"]
      BY <2>1, <2>5, Zenon DEF Advance
    <3>2. writer'.at = "done"
      BY <1>t, <3>1 DEF WriterType
    <3> QED BY <2>2, <3>2 DEF TurnInv, WriterRuns
  <2>6. CASE ~(writer.turn < Len(Slots)) /\ ~(\A p \in Protocols : c[p])
    <3>1. writer' = NewRound(FALSE) \/ writer' = [NewRound(FALSE) EXCEPT !.at = "wait"]
      BY <2>1, <2>6, Zenon DEF Advance
    <3>2. writer'.at \in {"round", "wait"} /\ writer'.turn = 1 /\ writer'.count = 0
      BY <3>1 DEF NewRound
    <3> QED BY <2>3, <2>6, <3>2
  <2> QED BY <2>4, <2>5, <2>6
<1>5. CASE WriteSegment
  <2>1. PICK n \in 1 .. Len(writer.rest) : Segment(n)
    BY <1>5, SegmentFacts
  <2> DEFINE left == SubSeq(writer.rest, n + 1, Len(writer.rest))
  <2>2. /\ \/ left # <<>> /\ writer' = [writer EXCEPT !.rest = left]
           \/ /\ left = <<>>
              /\ writer' = [writer EXCEPT !.at = "round", !.count = @ + 1, !.wrote = TRUE,
                                          !.msg = 0, !.rest = <<>>]
        /\ overtaken' = Overtaking(Turn, n) /\ Len(left) = Len(writer.rest) - n /\ left \in Bs
    BY <2>1 DEF Segment
  <2>n. n \in Nat \ {0} /\ Len(writer.rest) \in Nat /\ n <= Len(writer.rest) /\ Len(left) \in Nat
    <3>1. writer.rest \in Seq(Nat)
      BY <1>t DEF WriterType
    <3>2. Len(writer.rest) \in Nat
      BY <3>1, LenProperties
    <3> QED BY <2>2, <3>2
  <2> HIDE DEF left
  <2>3. writer.at = "write" /\ egress' = egress /\ writer.count < Hot[Turn]
    BY <1>5 DEF WriteSegment, TurnInv
  <2>4. /\ writer'.turn = writer.turn /\ Turn' = Turn
        /\ \/ /\ writer'.at = "write" /\ writer'.count = writer.count
              /\ Len(writer'.rest) = Len(writer.rest) - n
           \/ /\ writer'.at = "round" /\ writer'.count = writer.count + 1
              /\ n = Len(writer.rest)
    <3>1. CASE left # <<>> /\ writer' = [writer EXCEPT !.rest = left]
      <4>1. /\ writer'.turn = writer.turn /\ writer'.at = "write" /\ writer'.count = writer.count
            /\ writer'.rest = left
        BY <1>t, <2>3, <3>1 DEF WriterType
      <4> QED BY <2>2, <4>1 DEF Turn
    <3>2. CASE left = <<>> /\ writer' = [writer EXCEPT !.at = "round", !.count = @ + 1,
                                            !.wrote = TRUE, !.msg = 0, !.rest = <<>>]
      <4>1. writer'.turn = writer.turn /\ writer'.at = "round" /\ writer'.count = writer.count + 1
        BY <1>t, <3>2 DEF WriterType
      <4>2. Len(left) = 0
        BY <3>2, EmptySeq
      <4>3. n = Len(writer.rest)
        BY <2>2, <2>n, <4>2
      <4> QED BY <4>1, <4>3 DEF Turn
    <3> QED BY <2>2, <3>1, <3>2
  <2>5. ASSUME NEW i \in 1 .. Len(Slots), NEW j \in 1 .. Len(Slots), i # j
        PROVE  PassedOK(i, j)' /\ (Passed(i, j) <= Share(Hot[Slots[j]], j))'
    <3>1. PassedOK(i, j) /\ Slots[i] \in Protocols /\ Slots[j] \in Protocols /\ Slots[i] # Slots[j]
      BY <2>3, <2>5, SlotConstants DEF TurnInv, WriterRuns
    <3>2. /\ Passed(i, j) \in Nat /\ Passed(i, j) <= Share(Hot[Slots[j]], j)
          /\ Share(Hot[Slots[j]], j) \in Nat /\ Hot[Slots[j]] \in Nat
      <4>1. Hot[Slots[j]] \in Nat
        BY <3>1, WeightFacts
      <4>2. Passed(i, j) \in Nat /\ Passed(i, j) <= Hot[Slots[j]] * Longest(Slots[j])
        BY <1>0, <1>b, <3>1 DEF Passed, WriterT, BoundedOvertaking
      <4>3. /\ Share(Hot[Slots[j]], j) \in Nat
            /\ Share(Hot[Slots[j]], j) = Hot[Slots[j]] * Longest(Slots[j])
        BY <4>1, ShareFacts
      <4> QED BY <4>1, <4>2, <4>3
    <3>3. ASSUME writer.turn = j
          PROVE  /\ Passed(i, j) + Len(writer.rest) <= Share(writer.count + 1, j)
                 /\ Share(writer.count + 1, j) \in Nat
                 /\ Share(writer.count + 1, j) <= Share(Hot[Slots[j]], j)
      <4>1. Slots[j] = Turn /\ writer.count + 1 \in Nat /\ writer.count + 1 <= Hot[Slots[j]]
        BY <1>t, <2>3, <3>3
      <4>2. Passed(i, j) + Len(writer.rest) <= Share(writer.count + 1, j)
        BY <2>3, <3>1, <3>3 DEF PassedOK
      <4> QED BY <3>2, <4>1, <4>2, ShareFacts
    <3>4. CASE i = writer.turn \/ egress[Slots[i]] = <<>>
      <4>1. overtaken'[Slots[i]] = [r \in Protocols |-> 0]
        BY <1>t, <2>2, <3>1, <3>4 DEF Overtaking
      <4>2. Passed(i, j)' = 0
        BY <3>1, <4>1 DEF Passed
      <4>3. writer.turn = j =>
              IF writer'.at = "write" THEN 0 + Len(writer'.rest) <= Share(writer'.count + 1, j)
              ELSE 0 <= Share(writer'.count, j)
        <5> SUFFICES ASSUME writer.turn = j
                     PROVE  IF writer'.at = "write" THEN 0 + Len(writer'.rest) <= Share(writer'.count + 1, j)
                            ELSE 0 <= Share(writer'.count, j)
          OBVIOUS
        <5>1. Passed(i, j) + Len(writer.rest) <= Share(writer.count + 1, j)
              /\ Share(writer.count + 1, j) \in Nat
          BY <3>3
        <5>2. CASE writer'.at = "write"
          <6>1. writer'.count = writer.count /\ Len(writer'.rest) = Len(writer.rest) - n
            BY <2>4, <5>2
          <6> QED BY <2>n, <3>2, <5>1, <5>2, <6>1
        <5>3. CASE writer'.at # "write"
          <6>1. writer'.count = writer.count + 1
            BY <2>4, <5>3
          <6> QED BY <5>1, <5>3, <6>1
        <5> QED BY <5>2, <5>3
      <4> QED BY <2>4, <3>2, <4>2, <4>3 DEF PassedOK
    <3>5. CASE i # writer.turn /\ egress[Slots[i]] # <<>>
      <4>1. Slots[i] # Turn
        BY <1>t, <3>5, SlotConstants
      <4>2. overtaken'[Slots[i]] = [overtaken[Slots[i]] EXCEPT ![Turn] = @ + n]
        BY <2>2, <3>1, <3>5, <4>1 DEF Overtaking
      <4>3. CASE j = writer.turn
        <5>1. Passed(i, j)' = Passed(i, j) + n
          BY <1>0, <1>t, <3>1, <4>2, <4>3 DEF Passed, WriterT
        <5>2. Since(i, j, writer.turn)
          BY <3>5, <4>3 DEF Since
        <5>3. /\ Passed(i, j) + Len(writer.rest) <= Share(writer.count + 1, j)
              /\ Share(writer.count + 1, j) \in Nat
              /\ Share(writer.count + 1, j) <= Share(Hot[Slots[j]], j)
          BY <3>3, <4>3
        <5>4. IF writer'.at = "write" THEN Passed(i, j)' + Len(writer'.rest) <= Share(writer'.count + 1, j)
              ELSE Passed(i, j)' <= Share(writer'.count, j)
          <6>1. CASE writer'.at = "write"
            <7>1. writer'.count = writer.count /\ Len(writer'.rest) = Len(writer.rest) - n
              BY <2>4, <6>1
            <7> QED BY <2>n, <3>2, <5>1, <5>3, <6>1, <7>1
          <6>2. CASE writer'.at # "write"
            <7>1. writer'.count = writer.count + 1 /\ n = Len(writer.rest)
              BY <2>4, <6>2
            <7> QED BY <2>n, <3>2, <5>1, <5>3, <6>2, <7>1
          <6> QED BY <6>1, <6>2
        <5>5. Passed(i, j)' <= Share(Hot[Slots[j]], j)
          BY <2>n, <3>2, <5>1, <5>3
        <5> QED BY <2>3, <2>4, <3>5, <4>3, <5>2, <5>4, <5>5 DEF PassedOK
      <4>4. CASE j # writer.turn
        <5>1. Slots[j] # Turn
          BY <1>t, <4>4, SlotConstants
        <5>2. Passed(i, j)' = Passed(i, j)
          BY <1>0, <1>t, <3>1, <4>2, <5>1 DEF Passed, WriterT
        <5> QED BY <2>3, <2>4, <3>1, <3>2, <3>5, <4>4, <5>2 DEF PassedOK
      <4> QED BY <4>3, <4>4
    <3> QED BY <3>4, <3>5
  <2>6. BoundedOvertaking'
    <3> SUFFICES ASSUME NEW p \in Protocols, NEW q \in Protocols, p # q
                 PROVE  overtaken'[p][q] <= Hot[q] * Longest(q)
      BY DEF BoundedOvertaking
    <3>1. PICK i \in 1 .. Len(Slots) : Slots[i] = p
      BY SlotConstants
    <3>2. PICK j \in 1 .. Len(Slots) : Slots[j] = q
      BY SlotConstants
    <3>3. i # j
      BY <3>1, <3>2
    <3>4. (Passed(i, j) <= Share(Hot[Slots[j]], j))'
      BY <2>5, <3>3
    <3>5. Share(Hot[Slots[j]], j) = Hot[q] * Longest(q)
      BY <3>2, ShareFacts
    <3> QED BY <3>1, <3>2, <3>4, <3>5 DEF Passed
  <2>7. writer'.count <= Hot[Turn] /\ (writer'.at = "write" => writer'.count < Hot[Turn])
        /\ writer'.at # "wait"
    BY <1>t, <2>3, <2>4
  <2> QED BY <2>4, <2>5, <2>6, <2>7 DEF TurnInv
<1>6. CASE WriteFails \/ Wait
  <2>1. UNCHANGED <<overtaken, egress>>
    BY <1>6 DEF WriteFails, Wait, egressVars
  <2>2. BoundedOvertaking'
    BY <1>b, <2>1 DEF BoundedOvertaking
  <2>3. \/ writer' = [writer EXCEPT !.at = "failed"]
        \/ writer.at = "wait" /\ writer' = NewRound(FALSE)
    BY <1>6 DEF WriteFails, Wait
  <2>4. CASE writer' = [writer EXCEPT !.at = "failed"]
    <3>1. writer'.at = "failed"
      BY <1>t, <2>4 DEF WriterType
    <3> QED BY <2>2, <3>1 DEF TurnInv, WriterRuns
  <2>5. CASE writer.at = "wait" /\ writer' = NewRound(FALSE)
    <3>1. writer'.at = "round" /\ writer'.turn = writer.turn /\ writer'.count = writer.count
      BY <2>5 DEF NewRound, TurnInv
    <3>2. Turn' = Turn
      BY <3>1 DEF Turn
    <3>3. \A i, j \in 1 .. Len(Slots) : i # j => PassedOK(i, j)'
      <4> SUFFICES ASSUME NEW i \in 1 .. Len(Slots), NEW j \in 1 .. Len(Slots), i # j
                   PROVE  PassedOK(i, j)'
        OBVIOUS
      <4>1. PassedOK(i, j) /\ Passed(i, j)' = Passed(i, j)
        BY <2>1, <2>5 DEF TurnInv, WriterRuns, Passed
      <4> QED BY <2>1, <2>5, <3>1, <4>1 DEF PassedOK
    <3> QED BY <2>2, <2>5, <3>1, <3>2, <3>3 DEF TurnInv, WriterRuns
  <2> QED BY <2>3, <2>4, <2>5
<1>7. CASE Reader \/ ReadPayload \/ PayloadFails \/ PeerReads
  BY <1>1, <1>7 DEF Reader, ReadHeader, ReadPayload, PayloadFails, Deliver, ReadFails, PeerReads, egressVars, writerVars
<1>8. ASSUME NEW p \in Protocols, SetWeight(p) PROVE TurnInv'
  BY <1>1, <1>8 DEF SetWeight, egressVars, writerVars
<1>9. ASSUME NEW p \in Protocols, NEW n \in 1 .. MaxSegment, PeerSends(p, n) PROVE TurnInv'
  BY <1>1, <1>9 DEF PeerSends, egressVars, writerVars
<1>10. CASE UNCHANGED vars
  BY <1>1, <1>10 DEF vars, egressVars, writerVars
<1> QED BY <1>2, <1>3, <1>4, <1>5, <1>6, <1>7, <1>8, <1>9, <1>10 DEF Next, Writer

(* The weighted round robin of mux_loop: while a payload of p waits, another   *)
(* protocol q writes at most its hot weight in payloads of its longest size,   *)
(* however many protocols there are and whenever the governor changes weights. *)
THEOREM OvertakingIsBounded == Spec => []BoundedOvertaking
<1>1. TurnInv => BoundedOvertaking
  BY DEF TurnInv
<1> QED BY TurnInit, TurnNext, TypeAlways, <1>1, PTL DEF Spec

-----------------------------------------------------------------------------
(* Streams come through whole *)

(* The streams of the elements of e, one after the other. *)
FlatMap(f, e) == FlattenSeq([i \in 1 .. Len(e) |-> f[e[i]]])

(* Concatenating an image of each element, from either end. *)
LEMMA FlatMapFacts ==
    ASSUME NEW S, NEW f \in [S -> Bs], NEW e \in Seq(S)
    PROVE  /\ FlatMap(f, e) \in Bs
           /\ FlatMap(f, <<>>) = <<>>
           /\ \A x \in S : FlatMap(f, Append(e, x)) = Cat(FlatMap(f, e), f[x])
           /\ e # <<>> => FlatMap(f, e) = Cat(f[Head(e)], FlatMap(f, Tail(e)))
<1> DEFINE M(d) == [i \in 1 .. Len(d) |-> f[d[i]]]
<1>1. \A d \in Seq(S) : /\ M(d) \in Seq(Seq(Nat)) /\ Len(M(d)) = Len(d) /\ Len(d) \in Nat
                        /\ \A i \in 1 .. Len(d) : M(d)[i] = f[d[i]] /\ d[i] \in S
  <2> SUFFICES ASSUME NEW d \in Seq(S)
               PROVE  /\ M(d) \in Seq(Seq(Nat)) /\ Len(M(d)) = Len(d) /\ Len(d) \in Nat
                      /\ \A i \in 1 .. Len(d) : M(d)[i] = f[d[i]] /\ d[i] \in S
    OBVIOUS
  <2>1. Len(d) \in Nat /\ \A i \in 1 .. Len(d) : d[i] \in S
    BY LenProperties, ElementOfSeq
  <2>2. \A i \in 1 .. Len(d) : f[d[i]] \in Seq(Nat)
    BY <2>1 DEF Bs
  <2> QED BY <2>1, <2>2
<1>2. \A d \in Seq(S) : FlatMap(f, d) = FlattenSeq(M(d))
  BY DEF FlatMap
<1> HIDE DEF M
<1>3. FlatMap(f, e) \in Bs
  BY <1>1, <1>2, FlattenType DEF Bs
<1>4. FlatMap(f, <<>>) = <<>>
  <2>1. <<>> \in Seq(S) /\ Len(<<>>) = 0
    BY EmptySeq
  <2>2. M(<<>>) \in Seq(Seq(Nat)) /\ Len(M(<<>>)) = 0
    BY <1>1, <2>1
  <2>3. M(<<>>) = <<>>
    BY <2>2, EmptySeq
  <2> QED BY <1>2, <2>1, <2>3, FlattenEmpty
<1>5. ASSUME NEW x \in S PROVE FlatMap(f, Append(e, x)) = Cat(FlatMap(f, e), f[x])
  <2> DEFINE d == Append(e, x)
             l == M(d)
             r == Append(M(e), f[x])
  <2>1. /\ d \in Seq(S) /\ Len(d) = Len(e) + 1 /\ d[Len(e) + 1] = x
        /\ \A i \in 1 .. Len(e) : d[i] = e[i]
    BY AppendProperties
  <2>2. f[x] \in Seq(Nat) /\ M(e) \in Seq(Seq(Nat)) /\ Len(M(e)) = Len(e) /\ Len(e) \in Nat
    BY <1>1 DEF Bs
  <2>3. /\ r \in Seq(Seq(Nat)) /\ Len(r) = Len(e) + 1 /\ r[Len(e) + 1] = f[x]
        /\ \A i \in 1 .. Len(e) : r[i] = M(e)[i]
    <3> DEFINE k == M(e)
    <3>1. k \in Seq(Seq(Nat)) /\ f[x] \in Seq(Nat) /\ Len(k) = Len(e)
      BY <2>2
    <3> HIDE DEF k
    <3>2. /\ Append(k, f[x]) \in Seq(Seq(Nat)) /\ Len(Append(k, f[x])) = Len(k) + 1
          /\ Append(k, f[x])[Len(k) + 1] = f[x]
          /\ \A i \in 1 .. Len(k) : Append(k, f[x])[i] = k[i]
      BY <3>1, AppendProperties
    <3> QED BY <3>1, <3>2 DEF k
  <2> HIDE DEF d
  <2>4. l \in Seq(Seq(Nat)) /\ Len(l) = Len(e) + 1 /\ \A i \in 1 .. Len(e) + 1 : l[i] = f[d[i]]
    BY <1>1, <2>1
  <2>5. \A i \in 1 .. Len(e) : M(e)[i] = f[e[i]]
    BY <1>1
  <2> HIDE DEF l, r
  <2>6. \A i \in 1 .. Len(l) : l[i] = r[i]
    <3> SUFFICES ASSUME NEW i \in 1 .. Len(e) + 1 PROVE l[i] = r[i]
      BY <2>4
    <3>1. CASE i = Len(e) + 1
      BY <2>1, <2>3, <2>4, <3>1
    <3>2. CASE i # Len(e) + 1
      <4>1. i \in 1 .. Len(e)
        BY <2>2, <3>2
      <4> QED BY <2>1, <2>3, <2>4, <2>5, <4>1
    <3> QED BY <3>1, <3>2
  <2>7. l = r
    BY <2>3, <2>4, <2>6, SeqEqual
  <2>8. FlattenSeq(r) = Cat(FlattenSeq(M(e)), f[x])
    BY <2>2, FlattenAppend DEF r, Cat
  <2> QED BY <1>2, <2>1, <2>7, <2>8 DEF l, d
<1>6. ASSUME e # <<>> PROVE FlatMap(f, e) = Cat(f[Head(e)], FlatMap(f, Tail(e)))
  <2> DEFINE d == Tail(e)
             l == M(d)
             m == M(e)
             r == Tail(m)
  <2>1. /\ d \in Seq(S) /\ Len(d) = Len(e) - 1 /\ Head(e) = e[1] /\ Len(e) \in Nat \ {0}
        /\ \A i \in 1 .. Len(d) : d[i] = e[i + 1]
    BY <1>6, HeadTailProperties, EmptySeq
  <2>2. m \in Seq(Seq(Nat)) /\ Len(m) = Len(e) /\ \A i \in 1 .. Len(e) : m[i] = f[e[i]]
    BY <1>1
  <2>3. m # <<>>
    BY <2>1, <2>2
  <2>4. /\ Head(m) = f[Head(e)]
    BY <2>1, <2>2, <2>3
  <2> HIDE DEF m, d
  <2>5. /\ r \in Seq(Seq(Nat)) /\ Len(r) = Len(e) - 1
        /\ \A i \in 1 .. Len(r) : r[i] = m[i + 1]
    BY <2>2, <2>3, HeadTailProperties
  <2>6. l \in Seq(Seq(Nat)) /\ Len(l) = Len(e) - 1 /\ \A i \in 1 .. Len(e) - 1 : l[i] = f[d[i]]
    BY <1>1, <2>1
  <2> HIDE DEF l, r
  <2>7. \A i \in 1 .. Len(l) : l[i] = r[i]
    <3> SUFFICES ASSUME NEW i \in 1 .. Len(e) - 1 PROVE l[i] = r[i]
      BY <2>6
    <3>1. i + 1 \in 1 .. Len(e) /\ i \in 1 .. Len(d) /\ i \in 1 .. Len(r)
      BY <2>1, <2>5
    <3>2. l[i] = f[d[i]] /\ d[i] = e[i + 1]
      BY <2>1, <2>6, <3>1
    <3>3. r[i] = m[i + 1] /\ m[i + 1] = f[e[i + 1]]
      BY <2>2, <2>5, <3>1
    <3> QED BY <3>2, <3>3
  <2>8. l = r
    BY <2>5, <2>6, <2>7, SeqEqual
  <2>9. FlattenSeq(m) = Cat(Head(m), FlattenSeq(r))
    BY <2>2, <2>3, FlattenHead DEF r, Cat
  <2>10. FlatMap(f, e) = FlattenSeq(m) /\ FlatMap(f, d) = FlattenSeq(l)
    BY <1>2, <2>1 DEF m, l
  <2> QED BY <2>4, <2>8, <2>9, <2>10 DEF d
<1> QED BY <1>3, <1>4, <1>5, <1>6

(* The bytes of the messages of p. *)
MessageOf(p) == [i \in 1 .. Len(Out[p]) |-> Bytes(Out[p], i)]

QueuedOf(p, e) == FlattenSeq([i \in 1 .. Len(e) |-> Bytes(Out[p], e[i])])

(* The bytes of the messages in a channel. *)
LEMMA QueuedFacts ==
    ASSUME NEW p \in Protocols, NEW e \in Seq(1 .. Len(Out[p]))
    PROVE  /\ QueuedOf(p, e) \in Bs /\ QueuedOf(p, <<>>) = <<>>
           /\ \A n \in 1 .. Len(Out[p]) :
                 QueuedOf(p, Append(e, n)) = Cat(QueuedOf(p, e), Bytes(Out[p], n))
           /\ e # <<>> => QueuedOf(p, e) = Cat(Bytes(Out[p], Head(e)), QueuedOf(p, Tail(e)))
<1> DEFINE S == 1 .. Len(Out[p])
           f == MessageOf(p)
<1>1. f \in [S -> Bs] /\ \A n \in S : f[n] = Bytes(Out[p], n)
  <2>1. \A i \in 1 .. Len(Out[p]) : Bytes(Out[p], i) \in Bs
    BY StreamConstants, MessageFacts
  <2> QED BY <2>1 DEF MessageOf
<1>2. ASSUME NEW d \in Seq(S) PROVE QueuedOf(p, d) = FlatMap(f, d)
  <2>1. \A i \in 1 .. Len(d) : d[i] \in S
    BY ElementOfSeq
  <2>2. \A i \in 1 .. Len(d) : f[d[i]] = Bytes(Out[p], d[i])
    BY <1>1, <2>1
  <2>3. [i \in 1 .. Len(d) |-> Bytes(Out[p], d[i])] = [i \in 1 .. Len(d) |-> f[d[i]]]
    BY <2>2
  <2> QED BY <2>3 DEF QueuedOf, FlatMap
<1>3. e \in Seq(S)
  OBVIOUS
<1> HIDE DEF S, f
<1>4. QueuedOf(p, e) \in Bs /\ QueuedOf(p, <<>>) = <<>>
  <2>1. <<>> \in Seq(S)
    BY EmptySeq
  <2>2. FlatMap(f, e) \in Bs /\ FlatMap(f, <<>>) = <<>>
    BY <1>1, <1>3, FlatMapFacts
  <2> QED BY <1>2, <1>3, <2>1, <2>2
<1>5. ASSUME NEW n \in S PROVE QueuedOf(p, Append(e, n)) = Cat(QueuedOf(p, e), Bytes(Out[p], n))
  <2>1. Append(e, n) \in Seq(S)
    BY <1>3, AppendProperties
  <2>2. FlatMap(f, Append(e, n)) = Cat(FlatMap(f, e), f[n])
    BY <1>1, <1>3, FlatMapFacts
  <2> QED BY <1>1, <1>2, <1>3, <2>1, <2>2
<1>6. ASSUME e # <<>> PROVE QueuedOf(p, e) = Cat(Bytes(Out[p], Head(e)), QueuedOf(p, Tail(e)))
  <2>1. Tail(e) \in Seq(S) /\ Head(e) \in S
    BY <1>3, <1>6, HeadTailProperties
  <2>2. FlatMap(f, e) = Cat(f[Head(e)], FlatMap(f, Tail(e)))
    BY <1>1, <1>3, <1>6, FlatMapFacts
  <2> QED BY <1>1, <1>2, <1>3, <2>1, <2>2
<1> QED BY <1>4, <1>5, <1>6 DEF S

(* The last byte of the messages taken so far. *)
EndOf(e, n) == IF n = 0 THEN 0 ELSE e[n]

(* What p has written, has in the writer's hand and has queued. *)
Sent(w, b, q) == Cat(Cat(w, b), q)

(* WrittenIsSent in the terms of the lemmas. *)
LEMMA SentFacts ==
    /\ WrittenIsSent <=> \A p \in Protocols :
          Sent(written[p], BeingWritten(p), QueuedOf(p, egress[p])) = Prefix(EndOf(Out[p], accepted[p]))
    /\ WrittenIsSent' <=> \A p \in Protocols :
          Sent(written'[p], BeingWritten(p)', QueuedOf(p, egress'[p]))
              = Prefix(EndOf(Out[p], accepted'[p]))
  BY DEF WrittenIsSent, Sent, Cat, Queued, QueuedOf, EndOf

(* Regrouping the parts. *)
LEMMA SentGroups ==
    ASSUME NEW w \in Bs, NEW b \in Bs, NEW q \in Bs, NEW m \in Bs
    PROVE  /\ Sent(w, <<>>, Cat(m, q)) = Sent(w, m, q)
           /\ Sent(w, b, Cat(q, m)) = Cat(Sent(w, b, q), m)
           /\ Sent(w, Cat(m, b), q) = Sent(Cat(w, m), b, q)
<1>1. /\ Cat(w, b) \in Bs /\ Cat(m, q) \in Bs /\ Cat(q, m) \in Bs /\ Cat(m, b) \in Bs
      /\ Cat(w, <<>>) = w
  BY CatFacts
<1>2. Cat(w, Cat(m, q)) = Cat(Cat(w, m), q)
  BY CatAssoc
<1>3. Cat(Cat(w, b), Cat(q, m)) = Cat(Cat(Cat(w, b), q), m)
  BY <1>1, CatAssoc
<1>4. Cat(w, Cat(m, b)) = Cat(Cat(w, m), b)
  BY CatAssoc
<1> QED BY <1>1, <1>2, <1>3, <1>4 DEF Sent

(* At the start nothing was sent. *)
LEMMA WrittenInit == Init => WrittenIsSent
<1> SUFFICES ASSUME Init, NEW p \in Protocols
             PROVE  Sent(written[p], BeingWritten(p), QueuedOf(p, egress[p]))
                       = Prefix(EndOf(Out[p], accepted[p]))
  BY SentFacts
<1>1. written[p] = <<>> /\ egress[p] = <<>> /\ accepted[p] = 0 /\ BeingWritten(p) = <<>>
  BY DEF Init, BeingWritten, NewRound
<1>2. QueuedOf(p, <<>>) = <<>> /\ <<>> \in Bs
  BY QueuedFacts, EmptySeq DEF Bs
<1>3. Cat(<<>>, <<>>) = <<>>
  BY <1>2, CatFacts
<1>4. Prefix(0) \in Bs /\ Len(Prefix(0)) = 0
  BY RunFacts
<1>5. Prefix(0) = <<>>
  BY <1>4, EmptySeq DEF Bs
<1> QED BY <1>1, <1>2, <1>3, <1>5 DEF Sent, EndOf

(* Every step keeps WrittenIsSent. *)
LEMMA WrittenNext == TypeInv /\ WrittenIsSent /\ [Next]_vars => WrittenIsSent'
<1> SUFFICES ASSUME TypeInv, WrittenIsSent, [Next]_vars PROVE WrittenIsSent'
  OBVIOUS
<1>0. EgressT /\ WriterT /\ WriterOK /\ SenderOK
  BY TypeParts DEF TypeInv
<1>n. TypeInv' /\ WriterT' /\ WriterOK'
  BY TypeNext, TypePartsNext DEF TypeInv
<1>p. ASSUME NEW p \in Protocols
      PROVE  /\ written[p] \in Bs /\ BeingWritten(p) \in Bs /\ <<>> \in Bs
             /\ egress[p] \in Seq(1 .. Len(Out[p])) /\ QueuedOf(p, egress[p]) \in Bs
             /\ Sent(written[p], BeingWritten(p), QueuedOf(p, egress[p]))
                    = Prefix(EndOf(Out[p], accepted[p]))
  <2>1. <<>> \in Bs /\ writer.rest \in Bs
    BY <1>0, EmptySeq DEF WriterT, WriterType, Bs
  <2>2. written[p] \in Bs /\ egress[p] \in Seq(1 .. Len(Out[p]))
    BY <1>0 DEF WriterT, EgressT, Bs
  <2>3. QueuedOf(p, egress[p]) \in Bs
    BY <2>2, QueuedFacts
  <2>4. BeingWritten(p) \in Bs
    BY <2>1 DEF BeingWritten
  <2> QED BY <2>1, <2>2, <2>3, <2>4, SentFacts
<1>t. Turn \in Protocols
  BY <1>0, TurnType
<1>1. ASSUME UNCHANGED <<written, egress, accepted>>, \A p \in Protocols : BeingWritten(p)' = BeingWritten(p)
      PROVE  WrittenIsSent'
  BY <1>1, <1>p, SentFacts
<1>2. ASSUME UNCHANGED <<written, egress, accepted, writer>> PROVE WrittenIsSent'
  BY <1>1, <1>2 DEF BeingWritten, Turn
<1>3. ASSUME NEW p \in Protocols, Driver(p) PROVE WrittenIsSent'
  <2>1. CASE Recv(p) \/ Count(p) \/ Send(p) \/ DropHandle(p)
    BY <1>2, <2>1 DEF Recv, Count, Send, DropHandle, egressVars, writerVars
  <2>2. CASE Enqueue(p)
    <3>1. UNCHANGED <<writer, written>>
      BY <2>2 DEF Enqueue, writerVars
    <3>2. CASE UNCHANGED <<accepted, egress>>
      BY <1>2, <3>1, <3>2
    <3>3. CASE /\ accepted' = [accepted EXCEPT ![p] = @ + 1]
               /\ egress' = [egress EXCEPT ![p] = Append(@, accepted[p] + 1)]
      <4> DEFINE n == accepted[p] + 1
                 m == Bytes(Out[p], n)
      <4>1. n \in 1 .. Len(Out[p]) /\ accepted[p] \in Nat
        <5>1. Len(Out[p]) \in Nat
          BY StreamConstants, LenProperties DEF IsEnds
        <5> QED BY <1>0, <2>2, <5>1 DEF SenderOK, Enqueue, EgressT
      <4>2. /\ m \in Bs /\ Cat(Prefix(Before(Out[p], n)), m) = Prefix(Out[p][n])
        BY <4>1, StreamConstants, MessageFacts
      <4>3. Before(Out[p], n) = EndOf(Out[p], accepted[p]) /\ EndOf(Out[p], n) = Out[p][n]
        BY <4>1 DEF Before, EndOf
      <4>4. QueuedOf(p, Append(egress[p], n)) = Cat(QueuedOf(p, egress[p]), m)
        BY <1>p, <4>1, QueuedFacts
      <4>5. /\ accepted'[p] = n /\ egress'[p] = Append(egress[p], n)
            /\ \A q \in Protocols : q # p => accepted'[q] = accepted[q] /\ egress'[q] = egress[q]
        BY <1>0, <3>3 DEF EgressT
      <4>6. \A q : BeingWritten(q)' = BeingWritten(q)
        BY <3>1 DEF BeingWritten, Turn
      <4> HIDE DEF n, m
      <4>7. Sent(written[p], BeingWritten(p), Cat(QueuedOf(p, egress[p]), m))
              = Cat(Sent(written[p], BeingWritten(p), QueuedOf(p, egress[p])), m)
        BY <1>p, <4>2, SentGroups
      <4>8. Sent(written'[p], BeingWritten(p)', QueuedOf(p, egress'[p]))
              = Prefix(EndOf(Out[p], accepted'[p]))
        BY <1>p, <3>1, <4>2, <4>3, <4>4, <4>5, <4>6, <4>7
      <4>9. ASSUME NEW q \in Protocols, q # p
            PROVE  Sent(written'[q], BeingWritten(q)', QueuedOf(q, egress'[q]))
                      = Prefix(EndOf(Out[q], accepted'[q]))
        BY <1>p, <3>1, <4>5, <4>6, <4>9
      <4> QED BY <4>8, <4>9, SentFacts
    <3> QED BY <2>2, <3>2, <3>3 DEF Enqueue
  <2> QED BY <1>3, <2>1, <2>2 DEF Driver
<1>4. CASE TakePayload
  <2> DEFINE e == egress[Turn]
             m == Bytes(Out[Turn], Head(e))
  <2>1. /\ egress' = [egress EXCEPT ![Turn] = Tail(@)] /\ e # <<>>
        /\ writer' = [writer EXCEPT !.at = "write", !.msg = Head(e), !.rest = m]
        /\ UNCHANGED <<written, accepted>> /\ writer.at = "round"
    BY <1>4 DEF TakePayload
  <2>2. writer'.rest = m /\ Turn' = Turn /\ writer.rest = <<>>
    BY <1>0, <2>1 DEF WriterT, WriterType, Turn, WriterOK
  <2>3. \A q \in Protocols : q # Turn => /\ BeingWritten(q)' = BeingWritten(q)
                                         /\ egress'[q] = egress[q]
    BY <1>0, <2>1, <2>2 DEF BeingWritten, EgressT
  <2>4. BeingWritten(Turn) = <<>> /\ egress'[Turn] = Tail(e)
    BY <1>0, <1>t, <2>1, <2>2 DEF BeingWritten, EgressT
  <2>5. e \in Seq(1 .. Len(Out[Turn]))
    BY <1>p, <1>t
  <2>6. Head(e) \in 1 .. Len(Out[Turn]) /\ Tail(e) \in Seq(1 .. Len(Out[Turn]))
    BY <2>1, <2>5, HeadTailProperties
  <2>7. m \in Bs /\ QueuedOf(Turn, Tail(e)) \in Bs
    BY <1>t, <2>6, StreamConstants, MessageFacts, QueuedFacts
  <2>8. QueuedOf(Turn, e) = Cat(m, QueuedOf(Turn, Tail(e)))
    BY <1>t, <2>1, <2>5, QueuedFacts
  <2> HIDE DEF m, e
  <2>9. ASSUME NEW q \in Protocols
        PROVE  Sent(written'[q], BeingWritten(q)', QueuedOf(q, egress'[q]))
                  = Prefix(EndOf(Out[q], accepted'[q]))
    <3>1. CASE q = Turn
      <4>1. BeingWritten(q)' = m
        BY <2>2, <3>1 DEF BeingWritten
      <4>2. written[q] \in Bs
        BY <1>p
      <4>3. Sent(written[q], <<>>, Cat(m, QueuedOf(q, Tail(e)))) = Sent(written[q], m, QueuedOf(q, Tail(e)))
        BY <2>7, <3>1, <4>2, SentGroups
      <4>4. Sent(written[q], <<>>, QueuedOf(q, e)) = Prefix(EndOf(Out[q], accepted[q]))
        BY <1>p, <2>4, <3>1 DEF e
      <4> QED BY <2>1, <2>4, <2>8, <3>1, <4>1, <4>3, <4>4
    <3>2. CASE q # Turn
      BY <1>p, <2>1, <2>3, <3>2
    <3> QED BY <3>1, <3>2
  <2> QED BY <2>9, SentFacts
<1>5. CASE LeaveSlot \/ Wait
  <2>1. UNCHANGED <<written, egress, accepted>> /\ writer.rest = <<>> /\ writer'.rest = <<>>
    <3>1. CASE LeaveSlot
      <4>1. writer.at = "round" /\ Advance(closed')
        BY <3>1 DEF LeaveSlot
      <4>2. writer'.rest = <<>>
        BY <1>0, <4>1, AdvanceType
      <4> QED BY <1>0, <3>1, <4>1, <4>2 DEF LeaveSlot, egressVars, WriterOK
    <3>2. CASE Wait
      <4>1. writer.rest = <<>> /\ UNCHANGED <<written, egress, accepted>>
        BY <1>0, <3>2 DEF Wait, WriterOK
      <4>2. writer' = [writer EXCEPT !.at = "failed"] \/ writer' = NewRound(FALSE)
        BY <3>2 DEF Wait
      <4> QED BY <1>0, <4>1, <4>2 DEF WriterT, WriterType, NewRound
    <3> QED BY <1>5, <3>1, <3>2
  <2> QED BY <1>1, <2>1 DEF BeingWritten
<1>6. CASE WriteSegment
  <2>1. PICK n \in 1 .. Len(writer.rest) : Segment(n)
    BY <1>6, SegmentFacts
  <2> DEFINE left == SubSeq(writer.rest, n + 1, Len(writer.rest))
             seg == SubSeq(writer.rest, 1, n)
  <2>2. /\ seg \in Bs /\ left \in Bs /\ Cat(seg, left) = writer.rest
        /\ written' = [written EXCEPT ![Turn] = Cat(@, seg)]
        /\ \/ left # <<>> /\ writer' = [writer EXCEPT !.rest = left]
           \/ left = <<>> /\ writer' = [writer EXCEPT !.at = "round", !.count = @ + 1, !.wrote = TRUE,
                                                      !.msg = 0, !.rest = <<>>]
    BY <2>1 DEF Segment
  <2> HIDE DEF left, seg
  <2>3. writer'.rest = left /\ Turn' = Turn
    BY <1>0, <2>2 DEF WriterT, WriterType, Turn
  <2>4. UNCHANGED <<egress, accepted>>
    BY <1>6 DEF WriteSegment
  <2>5. written \in [Protocols -> Seq(Nat)]
    BY <1>0 DEF WriterT
  <2>6. ASSUME NEW q \in Protocols
        PROVE  Sent(written'[q], BeingWritten(q)', QueuedOf(q, egress'[q]))
                  = Prefix(EndOf(Out[q], accepted'[q]))
    <3>1. CASE q = Turn
      <4>1. BeingWritten(q)' = left /\ BeingWritten(q) = Cat(seg, left)
        BY <2>2, <2>3, <3>1 DEF BeingWritten
      <4>2. written'[q] = Cat(written[q], seg)
        BY <1>t, <2>2, <2>5, <3>1
      <4>3. written[q] \in Bs /\ QueuedOf(q, egress[q]) \in Bs
        BY <1>p
      <4>4. Sent(written[q], Cat(seg, left), QueuedOf(q, egress[q]))
              = Sent(Cat(written[q], seg), left, QueuedOf(q, egress[q]))
        BY <2>2, <4>3, SentGroups
      <4> QED BY <1>p, <2>4, <4>1, <4>2, <4>4
    <3>2. CASE q # Turn
      <4>1. BeingWritten(q)' = BeingWritten(q)
        BY <2>3, <3>2 DEF BeingWritten
      <4>2. written'[q] = written[q]
        BY <2>2, <2>5, <3>2
      <4> QED BY <1>p, <2>4, <4>1, <4>2
    <3> QED BY <3>1, <3>2
  <2> QED BY <2>6, SentFacts
<1>7. CASE WriteFails
  <2>1. writer' = [writer EXCEPT !.at = "failed"] /\ UNCHANGED <<written, egress, accepted>>
    BY <1>7 DEF WriteFails, egressVars
  <2>2. writer'.rest = writer.rest /\ Turn' = Turn
    BY <1>0, <2>1 DEF WriterT, WriterType, Turn
  <2> QED BY <1>1, <2>1, <2>2 DEF BeingWritten
<1>8. CASE Reader \/ ReadPayload \/ PayloadFails \/ PeerReads
  BY <1>2, <1>8 DEF Reader, ReadHeader, ReadPayload, PayloadFails, Deliver, ReadFails, PeerReads, egressVars, writerVars
<1>9. ASSUME NEW p \in Protocols, SetWeight(p) PROVE WrittenIsSent'
  BY <1>2, <1>9 DEF SetWeight, egressVars, writerVars
<1>10. ASSUME NEW p \in Protocols, NEW n \in 1 .. MaxSegment, PeerSends(p, n) PROVE WrittenIsSent'
  BY <1>2, <1>10 DEF PeerSends, egressVars, writerVars
<1>11. CASE UNCHANGED vars
  BY <1>2, <1>11 DEF vars, egressVars, writerVars
<1> QED BY <1>3, <1>4, <1>5, <1>6, <1>7, <1>8, <1>9, <1>10, <1>11 DEF Next, Writer

(* What an SDU brings for p. *)
PartFor(p, u) == IF u.protocol = p THEN u.payload ELSE <<>>
ArrivingOf(p, a) == FlattenSeq([i \in 1 .. Len(a) |-> PartFor(p, a[i])])

(* The bytes on the wire for one protocol. *)
LEMMA ArrivingFacts ==
    ASSUME NEW p, NEW a \in Seq(Sdus)
    PROVE  /\ ArrivingOf(p, a) \in Bs /\ ArrivingOf(p, <<>>) = <<>>
           /\ \A u \in Sdus : ArrivingOf(p, Append(a, u)) = Cat(ArrivingOf(p, a), PartFor(p, u))
           /\ a # <<>> => ArrivingOf(p, a) = Cat(PartFor(p, Head(a)), ArrivingOf(p, Tail(a)))
<1> DEFINE f == [u \in Sdus |-> PartFor(p, u)]
<1>1. f \in [Sdus -> Bs] /\ \A u \in Sdus : f[u] = PartFor(p, u)
  <2>1. \A u \in Sdus : PartFor(p, u) \in Bs
    BY EmptySeq DEF PartFor, Sdus, Bs
  <2> QED BY <2>1
<1>2. ASSUME NEW d \in Seq(Sdus) PROVE ArrivingOf(p, d) = FlatMap(f, d)
  <2>1. \A i \in 1 .. Len(d) : d[i] \in Sdus
    BY ElementOfSeq
  <2>2. \A i \in 1 .. Len(d) : f[d[i]] = PartFor(p, d[i])
    BY <1>1, <2>1
  <2>3. [i \in 1 .. Len(d) |-> PartFor(p, d[i])] = [i \in 1 .. Len(d) |-> f[d[i]]]
    BY <2>2
  <2> QED BY <2>3 DEF ArrivingOf, FlatMap
<1> HIDE DEF f
<1>4. ArrivingOf(p, a) \in Bs /\ ArrivingOf(p, <<>>) = <<>>
  <2>1. <<>> \in Seq(Sdus)
    BY EmptySeq
  <2>2. FlatMap(f, a) \in Bs /\ FlatMap(f, <<>>) = <<>>
    BY <1>1, FlatMapFacts
  <2> QED BY <1>2, <2>1, <2>2
<1>5. ASSUME NEW u \in Sdus PROVE ArrivingOf(p, Append(a, u)) = Cat(ArrivingOf(p, a), PartFor(p, u))
  <2>1. Append(a, u) \in Seq(Sdus)
    BY AppendProperties
  <2>2. FlatMap(f, Append(a, u)) = Cat(FlatMap(f, a), f[u])
    BY <1>1, FlatMapFacts
  <2> QED BY <1>1, <1>2, <2>1, <2>2
<1>6. ASSUME a # <<>> PROVE ArrivingOf(p, a) = Cat(PartFor(p, Head(a)), ArrivingOf(p, Tail(a)))
  <2>1. Tail(a) \in Seq(Sdus) /\ Head(a) \in Sdus
    BY <1>6, HeadTailProperties
  <2>2. FlatMap(f, a) = Cat(f[Head(a)], FlatMap(f, Tail(a)))
    BY <1>1, <1>6, FlatMapFacts
  <2> QED BY <1>1, <1>2, <2>1, <2>2
<1> QED BY <1>4, <1>5, <1>6

(* What recv has had: returned, buffered or still in the channel. *)
PulledOf(r, b, i) == Cat(Cat(FlattenSeq(r), b), FlattenSeq(i))
Pulled(p) == PulledOf(received[p], readBuf[p], ingress[p])

(* The messages returned so far are those of the peer, unless some end with *)
(* a string of indefinite length.                                           *)
Whole(p) ==
    Cuts[p] = {} =>
       /\ Len(received[p]) <= Len(In[p])
       /\ \A i \in 1 .. Len(received[p]) : received[p][i] = Bytes(In[p], i)

(* What recv has had begins at the first byte also after the reader has failed, *)
(* and until then nothing of what the peer has sent is missing.                 *)
ReceiveOK(p) ==
    /\ Whole(p)
    /\ open[p] => Pulled(p) = Prefix(Len(Pulled(p)))
    /\ open[p] /\ ReaderRuns =>
         /\ Cat(Cat(Pulled(p), InHand(p)), ArrivingOf(p, arriving)) = Prefix(peerAt[p])
         /\ held[p] = Len(FlattenSeq(ingress[p])) + Len(InHand(p))
ReceiveInv == \A p \in Protocols : ReceiveOK(p)

(* What ReceiveInv says of the streams. *)
LEMMA ReceiveMeans == ReceiveInv => ReceivedIsSent /\ IngressAccounted
<1>1. \A p \in Protocols : ArrivingFor(p) = ArrivingOf(p, arriving)
  BY DEF ArrivingFor, ArrivingOf, PartFor
<1>2. ReceiveInv => ReceivedIsSent
  BY <1>1 DEF ReceiveInv, ReceiveOK, ReceivedIsSent, Whole, Pulled, PulledOf, Cat
<1>3. ReceiveInv => IngressAccounted
  BY DEF ReceiveInv, ReceiveOK, IngressAccounted
<1> QED BY <1>2, <1>3

(* The messages returned so far are the beginning of the peer's stream. *)
LEMMA WholeIsPrefix ==
    ASSUME NEW e, IsEnds(e), NEW r \in Seq(Seq(Nat)), Len(r) <= Len(e),
           \A i \in 1 .. Len(r) : r[i] = Bytes(e, i)
    PROVE  FlattenSeq(r) = Prefix(EndOf(e, Len(r)))
<1>1. PICK g : Flattens(g, r, Nat) /\ FlattenSeq(r) = g[Len(r)]
  BY FlattenUnfolds DEF HasFlattening
<1>2. Len(r) \in Nat /\ Len(e) \in Nat
  BY LenProperties DEF IsEnds
<1> DEFINE U == {n \in Nat : n <= Len(r) => g[n] = Prefix(EndOf(e, n))}
<1>3. 0 \in U
  <2>1. Prefix(0) \in Bs /\ Len(Prefix(0)) = 0
    BY RunFacts
  <2>2. Prefix(0) = <<>>
    BY <2>1, EmptySeq DEF Bs
  <2>3. g[0] = Prefix(EndOf(e, 0))
    BY <1>1, <2>2 DEF Flattens, EndOf
  <2> QED BY <2>3
<1>4. ASSUME NEW n \in Nat, n \in U PROVE n + 1 \in U
  <2> SUFFICES ASSUME n + 1 <= Len(r) PROVE g[n + 1] = Prefix(EndOf(e, n + 1))
    OBVIOUS
  <2>1. n + 1 \in 1 .. Len(r) /\ n + 1 \in 1 .. Len(e) /\ n <= Len(r) /\ (n + 1) - 1 = n /\ n + 1 # 0
    BY <1>2
  <2>2. g[n + 1] = Cat(g[n], r[n + 1])
    BY <1>1, <2>1 DEF Flattens, Cat
  <2>3. g[n] = Prefix(EndOf(e, n)) /\ r[n + 1] = Bytes(e, n + 1)
    BY <1>4, <2>1
  <2>4. EndOf(e, n) = Before(e, n + 1) /\ EndOf(e, n + 1) = e[n + 1]
    BY <2>1 DEF EndOf, Before
  <2>5. Cat(Prefix(Before(e, n + 1)), Bytes(e, n + 1)) = Prefix(e[n + 1])
    BY <2>1, MessageFacts
  <2> QED BY <2>2, <2>3, <2>4, <2>5
<1>5. Len(r) \in U
  <2> HIDE DEF U
  <2> QED BY <1>2, <1>3, <1>4, NatInductionOnSet
<1> QED BY <1>1, <1>2, <1>5

(* A message begins only where it begins. *)
LEMMA BeginsOnce ==
    ASSUME NEW e, IsEnds(e), NEW n \in 0 .. Len(e), NEW i \in 1 .. Len(e),
           EndOf(e, n) = Before(e, i)
    PROVE  i = n + 1
<1>1. Len(e) \in Nat /\ \A j \in 1 .. Len(e) : e[j] \in Nat \ {0}
  BY LenProperties, ElementOfSeq DEF IsEnds
<1>2. \A j, k \in 1 .. Len(e) : j < k => e[j] < e[k]
  BY DEF IsEnds
<1>3. CASE n = 0
  <2>1. i # 1 => i - 1 \in 1 .. Len(e)
    BY <1>1
  <2> QED BY <1>1, <1>3, <2>1 DEF EndOf, Before
<1>4. CASE n # 0 /\ i = 1
  <2>1. n \in 1 .. Len(e)
    BY <1>1, <1>4
  <2> QED BY <1>1, <1>4, <2>1 DEF EndOf, Before
<1>5. CASE n # 0 /\ i # 1
  <2>1. n \in 1 .. Len(e) /\ i - 1 \in 1 .. Len(e)
    BY <1>1, <1>5
  <2>2. e[n] = e[i - 1]
    BY <1>5 DEF EndOf, Before
  <2>3. ~(n < i - 1) /\ ~(i - 1 < n)
    BY <1>1, <1>2, <2>1, <2>2
  <2> QED BY <1>1, <2>1, <2>3
<1> QED BY <1>3, <1>4, <1>5

(* The messages r are the first ones of the peer. *)
WholeOf(p, r) ==
    Cuts[p] = {} =>
       /\ Len(r) <= Len(In[p])
       /\ \A i \in 1 .. Len(r) : r[i] = Bytes(In[p], i)

(* Taking a payload from the channel moves it from one part to the next. *)
LEMMA PullKeeps ==
    ASSUME NEW r \in Seq(Seq(Nat)), NEW b \in Bs, NEW c \in Seq(Seq(Nat)), c # <<>>
    PROVE  PulledOf(r, Cat(b, Head(c)), Tail(c)) = PulledOf(r, b, c)
<1> DEFINE F == FlattenSeq(r)
           G == FlattenSeq(Tail(c))
           h == Head(c)
<1>1. h \in Bs /\ Tail(c) \in Seq(Seq(Nat))
  BY HeadTailProperties DEF Bs
<1>2. F \in Bs /\ G \in Bs
  BY <1>1, FlattenType DEF Bs
<1>3. FlattenSeq(c) = Cat(h, G)
  BY FlattenHead DEF Cat
<1> HIDE DEF F, G, h
<1>4. Cat(F, b) \in Bs /\ Cat(b, h) \in Bs
  BY <1>1, <1>2, CatFacts
<1>5. Cat(F, Cat(b, h)) = Cat(Cat(F, b), h)
  BY <1>1, <1>2, CatAssoc
<1>6. Cat(Cat(Cat(F, b), h), G) = Cat(Cat(F, b), Cat(h, G))
  BY <1>1, <1>2, <1>4, CatAssoc
<1>7. Cat(Cat(F, Cat(b, h)), G) = Cat(Cat(F, b), FlattenSeq(c))
  BY <1>3, <1>5, <1>6
<1> QED BY <1>7 DEF PulledOf, F, G, h

(* Whatever recv takes from its buffer, nothing is lost. *)
LEMMA CutKeeps ==
    ASSUME NEW r \in Seq(Seq(Nat)), NEW buf \in Bs, NEW c \in Seq(Seq(Nat)), NEW n \in 1 .. Len(buf)
    PROVE  PulledOf(Append(r, SubSeq(buf, 1, n)), SubSeq(buf, n + 1, Len(buf)), c)
             = PulledOf(r, buf, c)
<1> DEFINE F == FlattenSeq(r)
           G == FlattenSeq(c)
           m == SubSeq(buf, 1, n)
           t == SubSeq(buf, n + 1, Len(buf))
<1>1. n \in 0 .. Len(buf)
  BY LenProperties DEF Bs
<1>2. m \in Bs /\ t \in Bs /\ Cat(m, t) = buf
  BY <1>1, CutFacts
<1>3. F \in Bs
  BY FlattenType DEF Bs
<1> HIDE DEF F, G, m, t
<1>4. FlattenSeq(Append(r, m)) = Cat(F, m)
  BY <1>2, FlattenAppend DEF Cat, F, Bs
<1>5. Cat(Cat(F, m), t) = Cat(F, Cat(m, t))
  BY <1>2, <1>3, CatAssoc
<1>6. Cat(Cat(FlattenSeq(Append(r, m)), t), G) = Cat(Cat(F, buf), G)
  BY <1>2, <1>4, <1>5
<1> QED BY <1>6 DEF PulledOf, F, G, m, t

(* The message recv returns is the next one of the peer. *)
LEMMA TakeKeeps ==
    ASSUME NEW p \in Protocols, NEW r \in Seq(Seq(Nat)), NEW buf \in Bs, NEW c \in Seq(Seq(Nat)),
           Cuts[p] = {}, WholeOf(p, r), NEW n \in Nat, PulledOf(r, buf, c) = Prefix(n),
           NEW i \in 1 .. Len(In[p]), buf # <<>>, Head(buf) = Before(In[p], i) + 1,
           Size(In[p], i) <= Len(buf)
    PROVE  WholeOf(p, Append(r, SubSeq(buf, 1, Size(In[p], i))))
<1> DEFINE e == In[p]
           s == Size(e, i)
           F == FlattenSeq(r)
           G == FlattenSeq(c)
           m == SubSeq(buf, 1, s)
           t == SubSeq(buf, s + 1, Len(buf))
<1>1. IsEnds(e) /\ i \in 1 .. Len(e)
  BY StreamConstants
<1>2. /\ s \in Nat \ {0} /\ Before(e, i) \in Nat /\ Bytes(e, i) = Run(Before(e, i), s)
      /\ Len(buf) \in Nat /\ Len(r) \in Nat /\ Len(e) \in Nat
  BY <1>1, MessageFacts, LenProperties DEF Bs, IsEnds
<1>3. s \in 0 .. Len(buf)
  BY <1>2
<1>4. m \in Bs /\ t \in Bs /\ Len(m) = s /\ Cat(m, t) = buf
  BY <1>3, CutFacts
<1>5. F \in Bs /\ G \in Bs
  BY FlattenType DEF Bs
<1>6. Len(r) <= Len(e) /\ \A j \in 1 .. Len(r) : r[j] = Bytes(e, j)
  BY DEF WholeOf
<1>7. F = Prefix(EndOf(e, Len(r)))
  BY <1>1, <1>6, WholeIsPrefix
<1>8. EndOf(e, Len(r)) \in Nat
  <2>1. CASE Len(r) = 0
    BY <2>1 DEF EndOf
  <2>2. CASE Len(r) # 0
    <3>1. Len(r) \in 1 .. Len(e)
      BY <1>2, <1>6, <2>2
    <3>2. e[Len(r)] \in Nat
      BY <1>1, <3>1, MessageFacts
    <3> QED BY <2>2, <3>2 DEF EndOf
  <2> QED BY <2>1, <2>2
<1>h. Cat(Cat(F, buf), G) = Prefix(n)
  BY DEF PulledOf
<1>g. \A j \in 1 .. s : m[j] = buf[j]
  BY <1>2, <1>3 DEF Bs
<1>i. Head(buf) = buf[1] /\ Head(buf) = Before(e, i) + 1
  BY DEF Bs
<1> HIDE DEF e, s, F, G, m, t
<1>9. Len(F) = EndOf(e, Len(r)) /\ Len(F) \in Nat
  BY <1>7, <1>8, RunFacts
<1>10. Cat(F, buf) \in Bs
  BY <1>5, CatFacts
<1>11. Cat(F, buf) = Prefix(Len(Cat(F, buf))) /\ Len(Cat(F, buf)) \in Nat
  BY <1>5, <1>10, <1>h, PrefixParts, LenProperties DEF Bs
<1>12. buf = Run(Len(F), Len(buf))
  BY <1>5, <1>11, PrefixParts
<1>13. \A j \in 1 .. Len(buf) : buf[j] = Len(F) + j
  <2> SUFFICES ASSUME NEW j \in 1 .. Len(buf) PROVE buf[j] = Len(F) + j
    OBVIOUS
  <2>1. Run(Len(F), Len(buf))[j] = Len(F) + j
    BY DEF Run
  <2> QED BY <1>12, <2>1
<1>14. EndOf(e, Len(r)) = Before(e, i)
  <2>1. 1 \in 1 .. Len(buf)
    BY <1>2, <1>3
  <2>2. buf[1] = Len(F) + 1
    BY <1>13, <2>1
  <2> QED BY <1>2, <1>9, <1>i, <2>2
<1>15. i = Len(r) + 1
  <2>1. Len(r) \in 0 .. Len(e)
    BY <1>2, <1>6
  <2> QED BY <1>1, <1>14, <2>1, BeginsOnce
<1>16. m = Bytes(e, i)
  <2>1. Run(Before(e, i), s) \in Seq(Nat) /\ Len(Run(Before(e, i), s)) = s
    BY <1>2, RunFacts DEF Bs
  <2>2. \A j \in 1 .. s : m[j] = Run(Before(e, i), s)[j]
    <3> SUFFICES ASSUME NEW j \in 1 .. s PROVE m[j] = Run(Before(e, i), s)[j]
      OBVIOUS
    <3>1. j \in 1 .. Len(buf)
      BY <1>2, <1>3
    <3>2. Run(Before(e, i), s)[j] = Before(e, i) + j
      BY DEF Run
    <3> QED BY <1>9, <1>13, <1>14, <1>g, <3>1, <3>2
  <2> QED BY <1>2, <1>4, <2>1, <2>2, SeqEqual DEF Bs
<1>17. WholeOf(p, Append(r, m))
  <2>1. /\ Len(Append(r, m)) = Len(r) + 1
        /\ \A j \in 1 .. Len(r) : Append(r, m)[j] = r[j]
        /\ Append(r, m)[Len(r) + 1] = m
    BY <1>4, AppendProperties DEF Bs
  <2>2. Len(Append(r, m)) <= Len(e)
    BY <1>1, <1>2, <1>15, <2>1
  <2>3. \A j \in 1 .. Len(Append(r, m)) : Append(r, m)[j] = Bytes(e, j)
    <3> SUFFICES ASSUME NEW j \in 1 .. Len(r) + 1 PROVE Append(r, m)[j] = Bytes(e, j)
      BY <2>1
    <3>1. j \in 1 .. Len(r) \/ j = Len(r) + 1
      BY <1>2
    <3> QED BY <1>6, <1>15, <1>16, <2>1, <3>1
  <2> QED BY <2>2, <2>3 DEF WholeOf, e
<1> QED BY <1>17 DEF e, s, m

(* Before the first step. *)
LEMMA ReceiveInit == Init => ReceiveInv
<1> SUFFICES ASSUME Init, NEW p \in Protocols PROVE ReceiveOK(p)
  BY DEF ReceiveInv
<1>1. /\ received[p] = <<>> /\ readBuf[p] = <<>> /\ ingress[p] = <<>> /\ arriving = <<>>
      /\ peerAt[p] = 0 /\ held[p] = 0 /\ InHand(p) = <<>>
  BY DEF Init, InHand
<1>2. <<>> \in Bs /\ Len(<<>>) = 0 /\ <<>> \in Seq(Sdus)
  BY EmptySeq DEF Bs
<1>3. Cat(<<>>, <<>>) = <<>>
  BY <1>2, CatFacts
<1>4. Prefix(0) = <<>>
  <2>1. Prefix(0) \in Bs /\ Len(Prefix(0)) = 0
    BY RunFacts
  <2> QED BY <2>1, EmptySeq DEF Bs
<1>5. Pulled(p) = <<>>
  BY <1>1, <1>3, FlattenEmpty DEF Pulled, PulledOf
<1>6. ArrivingOf(p, arriving) = <<>>
  BY <1>1, <1>2, ArrivingFacts
<1>7. Whole(p)
  <2>1. Len(In[p]) \in Nat
    BY StreamConstants, LenProperties DEF IsEnds
  <2>2. Len(received[p]) = 0
    BY <1>1, <1>2
  <2> QED BY <2>1, <2>2 DEF Whole
<1> QED BY <1>1, <1>2, <1>3, <1>4, <1>5, <1>6, <1>7, FlattenEmpty DEF ReceiveOK

(* One protocol is out of the step's way. *)
Apart(p) ==
    /\ received'[p] = received[p] /\ readBuf'[p] = readBuf[p] /\ ingress'[p] = ingress[p]
    /\ open'[p] = open[p] /\ held'[p] = held[p] /\ peerAt'[p] = peerAt[p]
    /\ InHand(p)' = InHand(p) /\ ArrivingOf(p, arriving') = ArrivingOf(p, arriving)
    /\ ReaderRuns' => ReaderRuns

(* A step that does not touch a protocol keeps its stream. *)
LEMMA ApartKeeps ==
    ASSUME NEW p \in Protocols, ReceiveOK(p), Apart(p)
    PROVE  ReceiveOK(p)'
<1>1. Pulled(p)' = Pulled(p)
  BY DEF Apart, Pulled
<1>2. Whole(p)'
  BY DEF Apart, Whole, ReceiveOK
<1>3. (open[p] => Pulled(p) = Prefix(Len(Pulled(p))))'
  BY <1>1 DEF Apart, ReceiveOK
<1>4. ASSUME open'[p], ReaderRuns'
      PROVE  /\ Cat(Cat(Pulled(p)', InHand(p)'), ArrivingOf(p, arriving')) = Prefix(peerAt'[p])
             /\ held'[p] = Len(FlattenSeq(ingress'[p])) + Len(InHand(p)')
  BY <1>1, <1>4 DEF Apart, ReceiveOK
<1> QED BY <1>2, <1>3, <1>4 DEF ReceiveOK

(* The pieces of the invariant are streams. *)
LEMMA ReceiveTypes ==
    ASSUME IngressT, BearerT, ReaderT, NEW p \in Protocols
    PROVE  /\ received[p] \in Seq(Seq(Nat)) /\ readBuf[p] \in Bs /\ ingress[p] \in Seq(Seq(Nat))
           /\ FlattenSeq(ingress[p]) \in Bs /\ Pulled(p) \in Bs /\ InHand(p) \in Bs
           /\ Len(FlattenSeq(ingress[p])) \in Nat /\ Len(Pulled(p)) \in Nat
           /\ ArrivingOf(p, arriving) \in Bs /\ peerAt[p] \in Nat /\ held[p] \in Nat
<1>1. /\ received[p] \in Seq(Seq(Nat)) /\ readBuf[p] \in Bs /\ ingress[p] \in Seq(Seq(Nat))
      /\ held[p] \in Nat
  BY DEF IngressT, Bs
<1>2. FlattenSeq(ingress[p]) \in Bs /\ FlattenSeq(received[p]) \in Bs
  BY <1>1, FlattenType DEF Bs
<1>3. Cat(FlattenSeq(received[p]), readBuf[p]) \in Bs
  BY <1>1, <1>2, CatFacts
<1>4. Pulled(p) \in Bs
  BY <1>2, <1>3, CatFacts DEF Pulled, PulledOf
<1>5. InHand(p) \in Bs
  BY InHandType DEF Bs
<1>6. ArrivingOf(p, arriving) \in Bs /\ peerAt[p] \in Nat
  BY ArrivingFacts DEF BearerT
<1>7. Len(FlattenSeq(ingress[p])) \in Nat /\ Len(Pulled(p)) \in Nat
  BY <1>2, <1>4, LenProperties DEF Bs
<1> QED BY <1>1, <1>2, <1>4, <1>5, <1>6, <1>7

(* recv *)
LEMMA ReceiveRecv ==
    ASSUME TypeInv, ReceiveInv, NEW p \in Protocols, Recv(p)
    PROVE  ReceiveInv'
<1> SUFFICES ASSUME NEW q \in Protocols PROVE ReceiveOK(q)'
  BY DEF ReceiveInv
<1>0. IngressT /\ BearerT /\ ReaderT /\ ReceiveOK(q)
  BY TypeParts DEF TypeInv, ReceiveInv
<1>1. UNCHANGED <<open, arriving, peerAt, reader>> /\ open[p]
  BY DEF Recv, bearerVars
<1>2. PICK buf \in Bs : Pulls(p, buf) /\ Takes(p, buf)
  BY RecvFacts
<1>3. InHand(q)' = InHand(q) /\ (ReaderRuns' <=> ReaderRuns)
  BY <1>1 DEF InHand, ReaderRuns
<1>4. CASE q # p
  <2>1. /\ received'[q] = received[q] /\ readBuf'[q] = readBuf[q] /\ ingress'[q] = ingress[q]
        /\ held'[q] = held[q]
    BY <1>0, <1>2, <1>4 DEF Pulls, Takes, Keeps, Returns, IngressT
  <2>2. Apart(q)
    BY <1>1, <1>3, <2>1 DEF Apart
  <2> QED BY <1>0, <2>2, ApartKeeps
<1>5. CASE q = p
  <2>1. /\ received[p] \in Seq(Seq(Nat)) /\ readBuf[p] \in Bs /\ ingress[p] \in Seq(Seq(Nat))
        /\ FlattenSeq(ingress[p]) \in Bs /\ Pulled(p) \in Bs /\ InHand(p) \in Bs
        /\ Len(FlattenSeq(ingress[p])) \in Nat /\ Len(Pulled(p)) \in Nat
        /\ held[p] \in Nat
    BY <1>0, ReceiveTypes
  <2>2. /\ ingress'[p] \in Seq(Seq(Nat))
        /\ PulledOf(received[p], buf, ingress'[p]) = Pulled(p)
        /\ held'[p] - Len(FlattenSeq(ingress'[p])) = held[p] - Len(FlattenSeq(ingress[p]))
        /\ Len(FlattenSeq(ingress'[p])) \in Nat /\ held'[p] \in Int
    <3>1. CASE buf = readBuf[p] /\ UNCHANGED <<ingress, held>>
      BY <2>1, <3>1 DEF Pulled
    <3>2. CASE /\ ingress[p] # <<>>
               /\ buf = Cat(readBuf[p], Head(ingress[p]))
               /\ held' = [held EXCEPT ![p] = @ - Len(Head(ingress[p]))]
               /\ ingress' = [ingress EXCEPT ![p] = Tail(@)]
      <4> DEFINE h == Head(ingress[p])
                 t == Tail(ingress[p])
      <4>1. held'[p] = held[p] - Len(h) /\ ingress'[p] = t
        BY <1>0, <3>2 DEF IngressT
      <4>2. h \in Bs /\ t \in Seq(Seq(Nat))
        BY <2>1, <3>2, HeadTailProperties DEF Bs
      <4>3. PulledOf(received[p], Cat(readBuf[p], h), t) = Pulled(p)
        BY <2>1, <3>2, PullKeeps DEF Pulled
      <4>4. FlattenSeq(ingress[p]) = Cat(h, FlattenSeq(t))
        BY <2>1, <3>2, FlattenHead DEF Cat
      <4> HIDE DEF h, t
      <4>5. FlattenSeq(t) \in Bs
        BY <4>2, FlattenType DEF Bs
      <4>6. Len(FlattenSeq(ingress[p])) = Len(h) + Len(FlattenSeq(t)) /\ Len(h) \in Nat
            /\ Len(FlattenSeq(t)) \in Nat
        BY <4>2, <4>4, <4>5, CatFacts, LenProperties DEF Bs
      <4>7. held'[p] - Len(FlattenSeq(ingress'[p])) = held[p] - Len(FlattenSeq(ingress[p]))
        BY <2>1, <4>1, <4>6
      <4>8. buf = Cat(readBuf[p], h)
        BY <3>2 DEF h
      <4>9. held'[p] \in Int
        BY <2>1, <4>1, <4>6
      <4> QED BY <4>1, <4>2, <4>3, <4>6, <4>7, <4>8, <4>9
    <3> QED BY <1>2, <3>1, <3>2 DEF Pulls
  <2>3. Whole(p)' /\ Pulled(p)' = Pulled(p)
    <3>1. WholeOf(p, received[p]) /\ Pulled(p) = Prefix(Len(Pulled(p)))
      BY <1>0, <1>1, <1>5 DEF ReceiveOK, Whole, WholeOf
    <3>2. CASE Keeps(p, buf)
      <4>1. received'[p] = received[p] /\ readBuf'[p] = buf
        BY <1>0, <3>2 DEF Keeps, IngressT
      <4> QED BY <2>2, <3>1, <4>1 DEF Whole, WholeOf, Pulled
    <3>3. ASSUME NEW n \in 1 .. Len(buf), Returns(p, buf, n)
          PROVE  Whole(p)' /\ Pulled(p)' = Pulled(p)
      <4>1. /\ n \in ItemLength(In[p], Cuts[p], buf)
            /\ received'[p] = Append(received[p], SubSeq(buf, 1, n))
            /\ readBuf'[p] = SubSeq(buf, n + 1, Len(buf))
        BY <1>0, <3>3 DEF Returns, IngressT
      <4>2. PulledOf(received'[p], readBuf'[p], ingress'[p])
              = PulledOf(received[p], buf, ingress'[p])
        <5>1. received[p] \in Seq(Seq(Nat)) /\ ingress'[p] \in Seq(Seq(Nat))
          BY <2>1, <2>2
        <5>2. PulledOf(Append(received[p], SubSeq(buf, 1, n)), SubSeq(buf, n + 1, Len(buf)), ingress'[p])
                = PulledOf(received[p], buf, ingress'[p])
          BY <5>1, CutKeeps
        <5> QED BY ONLY <4>1, <5>2
      <4>3. Whole(p)'
        <5> SUFFICES ASSUME Cuts[p] = {} PROVE Whole(p)'
          BY DEF Whole
        <5>1. buf # <<>> /\ \E i \in 1 .. Len(In[p]) : /\ Head(buf) = Before(In[p], i) + 1
                                                        /\ n = Size(In[p], i)
          BY <4>1, ItemFacts
        <5>2. PICK i \in 1 .. Len(In[p]) : Head(buf) = Before(In[p], i) + 1 /\ n = Size(In[p], i)
          BY <5>1
        <5>3. Size(In[p], i) <= Len(buf)
          BY <5>2, LenProperties DEF Bs
        <5>4. PulledOf(received[p], buf, ingress'[p]) = Prefix(Len(Pulled(p)))
          BY <2>2, <3>1
        <5>5. WholeOf(p, Append(received[p], SubSeq(buf, 1, Size(In[p], i))))
          <6> DEFINE r == received[p]
                     c == ingress'[p]
                     k == Len(Pulled(p))
          <6>1. /\ r \in Seq(Seq(Nat)) /\ c \in Seq(Seq(Nat)) /\ k \in Nat /\ WholeOf(p, r)
                /\ PulledOf(r, buf, c) = Prefix(k)
            BY <2>1, <2>2, <3>1, <5>4
          <6> HIDE DEF r, c, k
          <6>2. WholeOf(p, Append(r, SubSeq(buf, 1, Size(In[p], i))))
            BY <5>1, <5>2, <5>3, <6>1, TakeKeeps
          <6> QED BY <6>2 DEF r
        <5>6. WholeOf(p, received'[p])
          BY <4>1, <5>2, <5>5
        <5> QED BY <5>6 DEF Whole, WholeOf
      <4>4. Pulled(p)' = PulledOf(received'[p], readBuf'[p], ingress'[p])
        BY DEF Pulled
      <4>5. PulledOf(received[p], buf, ingress'[p]) = Pulled(p)
        BY <2>2
      <4> QED BY <4>2, <4>3, <4>4, <4>5
    <3> QED BY <1>2, <3>2, <3>3 DEF Takes
  <2>4. (open[p] => Pulled(p) = Prefix(Len(Pulled(p))))'
    BY <1>0, <1>1, <1>5, <2>3 DEF ReceiveOK
  <2>5. ASSUME open'[p], ReaderRuns'
        PROVE  /\ Cat(Cat(Pulled(p)', InHand(p)'), ArrivingOf(p, arriving')) = Prefix(peerAt'[p])
               /\ held'[p] = Len(FlattenSeq(ingress'[p])) + Len(InHand(p)')
    <3>1. /\ Cat(Cat(Pulled(p), InHand(p)), ArrivingOf(p, arriving)) = Prefix(peerAt[p])
          /\ held[p] = Len(FlattenSeq(ingress[p])) + Len(InHand(p))
      BY <1>0, <1>1, <1>3, <1>5, <2>5 DEF ReceiveOK
    <3>2. Len(InHand(p)) \in Nat
      BY <2>1, LenProperties DEF Bs
    <3>3. InHand(p)' = InHand(p) /\ arriving' = arriving /\ peerAt' = peerAt
      BY <1>1, <1>3, <1>5
    <3>4. held'[p] = Len(FlattenSeq(ingress'[p])) + Len(InHand(p))
      <4> DEFINE fl == Len(FlattenSeq(ingress[p]))
                 fn == Len(FlattenSeq(ingress'[p]))
                 ih == Len(InHand(p))
      <4>1. /\ fl \in Nat /\ fn \in Nat /\ ih \in Nat /\ held'[p] \in Int /\ held[p] \in Nat
            /\ held'[p] - fn = held[p] - fl /\ held[p] = fl + ih
        BY <2>1, <2>2, <3>1, <3>2
      <4> HIDE DEF fl, fn, ih
      <4>2. held'[p] = fn + ih
        BY <4>1
      <4> QED BY <4>2 DEF fn, ih
    <3> QED BY <2>3, <3>1, <3>3, <3>4
  <2> QED BY <1>5, <2>3, <2>4, <2>5 DEF ReceiveOK
<1> QED BY <1>4, <1>5

(* Moving a part from one place to the next, in a stream of parts. *)
LEMMA ReceiveGroups ==
    ASSUME NEW u \in Bs, NEW x \in Bs, NEW a \in Bs
    PROVE  /\ Cat(Cat(u, <<>>), Cat(x, a)) = Cat(Cat(u, x), a)
           /\ Cat(Cat(Cat(u, x), <<>>), a) = Cat(Cat(u, x), a)
<1>1. Cat(u, <<>>) = u /\ Cat(u, x) \in Bs
  BY CatFacts
<1>2. Cat(Cat(u, x), <<>>) = Cat(u, x)
  BY <1>1, CatFacts
<1>3. Cat(u, Cat(x, a)) = Cat(Cat(u, x), a)
  BY CatAssoc
<1> QED BY <1>1, <1>2, <1>3

(* The reader takes an SDU from the bearer. *)
LEMMA ReceiveHeader ==
    ASSUME TypeInv, ReceiveInv, ReadHeader
    PROVE  ReceiveInv'
<1> SUFFICES ASSUME NEW q \in Protocols PROVE ReceiveOK(q)'
  BY DEF ReceiveInv
<1>0. IngressT /\ BearerT /\ ReaderT /\ ReceiveOK(q)
  BY TypeParts DEF TypeInv, ReceiveInv
<1> DEFINE u == Head(arriving)
           p == u.protocol
<1>1. /\ UNCHANGED <<open, peerAt, ingress, readBuf, received>>
      /\ reader.at = "header" /\ arriving # <<>> /\ arriving' = Tail(arriving)
      /\ \/ reader' = [at |-> "failed", sdu |-> <<>>]
         \/ /\ held' = [held EXCEPT ![p] = @ + Len(u.payload)]
            /\ reader' = [at |-> "payload", sdu |-> u]
  BY DEF ReadHeader, Fail
<1>2. u \in Sdus /\ ArrivingOf(q, arriving) = Cat(PartFor(q, u), ArrivingOf(q, arriving'))
      /\ ArrivingOf(q, arriving') \in Bs
  <2>1. arriving \in Seq(Sdus)
    BY <1>0 DEF BearerT
  <2>2. Head(arriving) \in Sdus /\ Tail(arriving) \in Seq(Sdus)
    BY <1>1, <2>1, HeadTailProperties
  <2>3. ArrivingOf(q, arriving) = Cat(PartFor(q, Head(arriving)), ArrivingOf(q, Tail(arriving)))
    BY <1>1, <2>1, ArrivingFacts
  <2>4. ArrivingOf(q, Tail(arriving)) \in Bs
    BY <2>2, ArrivingFacts
  <2> QED BY <1>1, <2>2, <2>3, <2>4
<1> HIDE DEF u
<1>3. Pulled(q)' = Pulled(q) /\ Pulled(q) \in Bs /\ held[q] \in Nat
      /\ Len(FlattenSeq(ingress[q])) \in Nat
  BY <1>0, <1>1, ReceiveTypes DEF Pulled
<1>4. Whole(q)' /\ (open[q] => Pulled(q) = Prefix(Len(Pulled(q))))'
  BY <1>0, <1>1, <1>3 DEF ReceiveOK, Whole
<1>5. CASE reader' = [at |-> "failed", sdu |-> <<>>]
  <2>1. reader'.at = "failed"
    BY <1>5
  <2>2. ~ReaderRuns'
    BY <2>1 DEF ReaderRuns
  <2> QED BY <1>4, <2>2 DEF ReceiveOK
<1>6. CASE /\ held' = [held EXCEPT ![p] = @ + Len(u.payload)]
           /\ reader' = [at |-> "payload", sdu |-> u]
  <2> DEFINE x == PartFor(q, u)
  <2>1. InHand(q) = <<>> /\ InHand(q)' = x /\ ReaderRuns
    BY <1>1, <1>6 DEF InHand, ReaderRuns, PartFor
  <2>2. x \in Bs /\ Len(x) \in Nat
    <3>1. x \in Seq(Nat)
      BY <1>2, EmptySeq DEF PartFor, Sdus
    <3> QED BY <3>1, LenProperties DEF Bs
  <2>3. held'[q] = held[q] + Len(x)
    <3>1. CASE p = q
      BY <1>0, <1>6, <3>1 DEF PartFor, IngressT
    <3>2. CASE p # q
      BY <1>0, <1>3, <1>6, <3>2, EmptySeq DEF PartFor, IngressT
    <3> QED BY <3>1, <3>2
  <2> HIDE DEF x
  <2>4. ASSUME open[q]
        PROVE  /\ Cat(Cat(Pulled(q), x), ArrivingOf(q, arriving')) = Prefix(peerAt[q])
               /\ held'[q] = Len(FlattenSeq(ingress[q])) + Len(x)
    <3>1. /\ Cat(Cat(Pulled(q), <<>>), ArrivingOf(q, arriving)) = Prefix(peerAt[q])
          /\ held[q] = Len(FlattenSeq(ingress[q])) + Len(<<>>)
      BY <1>0, <2>1, <2>4 DEF ReceiveOK
    <3>2. Cat(Cat(Pulled(q), <<>>), Cat(x, ArrivingOf(q, arriving')))
             = Cat(Cat(Pulled(q), x), ArrivingOf(q, arriving'))
      BY <1>2, <1>3, <2>2, ReceiveGroups
    <3>3. held[q] = Len(FlattenSeq(ingress[q]))
      BY <1>3, <3>1, EmptySeq
    <3>4. Cat(Cat(Pulled(q), x), ArrivingOf(q, arriving')) = Prefix(peerAt[q])
      BY <1>2, <3>1, <3>2 DEF x
    <3> QED BY <2>3, <3>3, <3>4
  <2> QED BY <1>1, <1>3, <1>4, <2>1, <2>4 DEF ReceiveOK
<1> QED BY <1>1, <1>5, <1>6

(* The reader puts a payload into the channel of its protocol. *)
LEMMA ReceiveDeliver ==
    ASSUME TypeInv, ReceiveInv, Deliver
    PROVE  ReceiveInv'
<1> SUFFICES ASSUME NEW q \in Protocols PROVE ReceiveOK(q)'
  BY DEF ReceiveInv
<1>0. IngressT /\ BearerT /\ ReaderT /\ ReceiveOK(q)
  BY TypeParts DEF TypeInv, ReceiveInv
<1> DEFINE p == reader.sdu.protocol
           x == reader.sdu.payload
<1>1. /\ UNCHANGED <<open, arriving, peerAt, readBuf, received>>
      /\ reader.at = "deliver" /\ reader' = [at |-> "header", sdu |-> <<>>]
      /\ \/ /\ open[p]
            /\ ingress' = [ingress EXCEPT ![p] = Append(@, x)]
            /\ UNCHANGED held
         \/ /\ ~open[p]
            /\ held' = [held EXCEPT ![p] = @ - Len(x)]
            /\ UNCHANGED ingress
  BY DEF Deliver, bearerVars
<1>2. p \in Protocols /\ x \in Bs
  BY <1>0, <1>1 DEF ReaderT, ReaderType, Sdus, Bs
<1>3. /\ ReaderRuns /\ ReaderRuns' /\ InHand(q)' = <<>>
      /\ (q = p => InHand(q) = x) /\ (q # p => InHand(q) = <<>>)
  BY <1>1 DEF InHand, ReaderRuns
<1>t. /\ received[q] \in Seq(Seq(Nat)) /\ readBuf[q] \in Bs /\ ingress[q] \in Seq(Seq(Nat))
      /\ FlattenSeq(ingress[q]) \in Bs /\ Pulled(q) \in Bs
      /\ Len(FlattenSeq(ingress[q])) \in Nat /\ Len(Pulled(q)) \in Nat
      /\ ArrivingOf(q, arriving) \in Bs /\ peerAt[q] \in Nat /\ held[q] \in Nat
  BY <1>0, ReceiveTypes
<1> HIDE DEF p, x
<1>4. CASE q # p
  <2>1. ingress'[q] = ingress[q] /\ held'[q] = held[q]
    BY <1>0, <1>1, <1>4 DEF IngressT
  <2>2. Apart(q)
    BY <1>1, <1>3, <1>4, <2>1 DEF Apart
  <2> QED BY <1>0, <2>2, ApartKeeps
<1>5. CASE q = p /\ ~open[p]
  <2>1. ~open'[q] /\ Whole(q)'
    BY <1>0, <1>1, <1>5 DEF ReceiveOK, Whole
  <2> QED BY <2>1 DEF ReceiveOK
<1>6. CASE q = p /\ open[p]
  <2>1. ingress'[q] = Append(ingress[q], x) /\ held'[q] = held[q]
    BY <1>0, <1>1, <1>6 DEF IngressT
  <2>2. FlattenSeq(ingress'[q]) = Cat(FlattenSeq(ingress[q]), x)
    BY <1>2, <1>t, <2>1, FlattenAppend DEF Cat, Bs
  <2>3. Len(FlattenSeq(ingress'[q])) = Len(FlattenSeq(ingress[q])) + Len(x) /\ Len(x) \in Nat
    BY <1>2, <1>t, <2>2, CatFacts, LenProperties DEF Bs
  <2>4. Pulled(q)' = Cat(Pulled(q), x)
    <3> DEFINE f == Cat(FlattenSeq(received[q]), readBuf[q])
    <3>1. f \in Bs
      <4>1. FlattenSeq(received[q]) \in Bs
        BY <1>t, FlattenType DEF Bs
      <4> QED BY <1>t, <4>1, CatFacts
    <3>2. Pulled(q)' = Cat(f, FlattenSeq(ingress'[q])) /\ Pulled(q) = Cat(f, FlattenSeq(ingress[q]))
      BY <1>1 DEF Pulled, PulledOf
    <3> HIDE DEF f
    <3>3. Cat(f, Cat(FlattenSeq(ingress[q]), x)) = Cat(Cat(f, FlattenSeq(ingress[q])), x)
      BY <1>2, <1>t, <3>1, CatAssoc
    <3> QED BY <2>2, <3>2, <3>3
  <2>5. /\ Cat(Cat(Pulled(q), x), ArrivingOf(q, arriving)) = Prefix(peerAt[q])
        /\ held[q] = Len(FlattenSeq(ingress[q])) + Len(x)
    BY <1>0, <1>3, <1>6 DEF ReceiveOK
  <2>6. Whole(q)'
    BY <1>0, <1>1 DEF ReceiveOK, Whole
  <2>7. Cat(Pulled(q), x) \in Bs
    BY <1>2, <1>t, CatFacts
  <2>8. Cat(Pulled(q), x) = Prefix(Len(Cat(Pulled(q), x)))
    BY <1>t, <2>5, <2>7, PrefixParts
  <2>9. Cat(Cat(Pulled(q)', <<>>), ArrivingOf(q, arriving')) = Prefix(peerAt'[q])
    <3>1. Cat(Cat(Cat(Pulled(q), x), <<>>), ArrivingOf(q, arriving))
            = Cat(Cat(Pulled(q), x), ArrivingOf(q, arriving))
      BY <1>2, <1>t, ReceiveGroups
    <3> QED BY <1>1, <2>4, <2>5, <3>1
  <2>10. held'[q] = Len(FlattenSeq(ingress'[q])) + Len(<<>>)
    BY <1>t, <2>1, <2>3, <2>5, EmptySeq
  <2> QED BY <1>3, <2>4, <2>6, <2>8, <2>9, <2>10 DEF ReceiveOK
<1> QED BY <1>4, <1>5, <1>6

(* The peer sends the bytes that come next. *)
LEMMA ReceivePeerSends ==
    ASSUME TypeInv, ReceiveInv, NEW p \in Protocols, NEW n \in 1 .. MaxSegment, PeerSends(p, n)
    PROVE  ReceiveInv'
<1> SUFFICES ASSUME NEW q \in Protocols PROVE ReceiveOK(q)'
  BY DEF ReceiveInv
<1>0. IngressT /\ BearerT /\ ReaderT /\ ReceiveOK(q)
  BY TypeParts DEF TypeInv, ReceiveInv
<1> DEFINE x == Run(peerAt[p], n)
           u == [protocol |-> p, payload |-> x]
<1>1. /\ UNCHANGED <<open, reader, ingress, held, readBuf, received>>
      /\ arriving' = Append(arriving, u)
      /\ peerAt' = [peerAt EXCEPT ![p] = @ + n]
  BY DEF PeerSends, Run, ingressVars
<1>t. /\ Pulled(q) \in Bs /\ InHand(q) \in Bs /\ ArrivingOf(q, arriving) \in Bs
      /\ arriving \in Seq(Sdus) /\ peerAt[p] \in Nat /\ n \in Nat
  <2>1. Pulled(q) \in Bs /\ InHand(q) \in Bs /\ ArrivingOf(q, arriving) \in Bs /\ peerAt[p] \in Nat
    BY <1>0, ReceiveTypes
  <2> QED BY <1>0, <2>1, StreamConstants DEF BearerT
<1>2. x \in Bs
  BY <1>t, RunFacts
<1>3. u \in Sdus /\ PartFor(q, u) = IF p = q THEN x ELSE <<>>
  BY <1>2 DEF Sdus, Bs, PartFor
<1> HIDE DEF u, x
<1>4. ArrivingOf(q, arriving') = Cat(ArrivingOf(q, arriving), IF p = q THEN x ELSE <<>>)
  BY <1>1, <1>3, <1>t, ArrivingFacts
<1>5. InHand(q)' = InHand(q) /\ (ReaderRuns' <=> ReaderRuns) /\ Pulled(q)' = Pulled(q)
  BY <1>1 DEF InHand, ReaderRuns, Pulled
<1>6. CASE q # p
  <2>1. peerAt'[q] = peerAt[q]
    BY <1>0, <1>1, <1>6 DEF BearerT
  <2>2. ArrivingOf(q, arriving') = ArrivingOf(q, arriving)
    <3>1. Cat(ArrivingOf(q, arriving), <<>>) = ArrivingOf(q, arriving)
      BY <1>t, CatFacts
    <3> QED BY <1>4, <1>6, <3>1
  <2>3. Apart(q)
    BY <1>1, <1>5, <2>1, <2>2 DEF Apart
  <2> QED BY <1>0, <2>3, ApartKeeps
<1>7. CASE q = p
  <2>1. peerAt'[q] = peerAt[p] + n /\ ArrivingOf(q, arriving') = Cat(ArrivingOf(q, arriving), x)
    BY <1>0, <1>1, <1>4, <1>7 DEF BearerT
  <2>2. Whole(q)' /\ (open[q] => Pulled(q) = Prefix(Len(Pulled(q))))'
    BY <1>0, <1>1, <1>5 DEF ReceiveOK, Whole
  <2>3. ASSUME open[q], ReaderRuns
        PROVE  /\ Cat(Cat(Pulled(q), InHand(q)), ArrivingOf(q, arriving')) = Prefix(peerAt'[q])
               /\ held[q] = Len(FlattenSeq(ingress[q])) + Len(InHand(q))
    <3> DEFINE a == ArrivingOf(q, arriving)
               f == Cat(Pulled(q), InHand(q))
    <3>1. Cat(f, a) = Prefix(peerAt[p]) /\ held[q] = Len(FlattenSeq(ingress[q])) + Len(InHand(q))
      BY <1>0, <1>7, <2>3 DEF ReceiveOK
    <3>2. f \in Bs /\ a \in Bs
      BY <1>t, CatFacts
    <3>3. ArrivingOf(q, arriving') = Cat(a, x)
      BY <2>1
    <3> HIDE DEF f, a
    <3>4. Cat(f, Cat(a, x)) = Cat(Cat(f, a), x)
      BY <1>2, <3>2, CatAssoc
    <3>5. Cat(Prefix(peerAt[p]), x) = Prefix(peerAt[p] + n)
      BY <1>t, RunFacts DEF x
    <3>6. Cat(f, ArrivingOf(q, arriving')) = Prefix(peerAt'[q])
      BY <2>1, <3>1, <3>3, <3>4, <3>5
    <3> QED BY <3>1, <3>6 DEF f
  <2> QED BY <1>1, <1>5, <2>2, <2>3 DEF ReceiveOK
<1> QED BY <1>6, <1>7

(* Every step. *)
LEMMA ReceiveNext == TypeInv /\ ReceiveInv /\ [Next]_vars => ReceiveInv'
<1> SUFFICES ASSUME TypeInv, ReceiveInv, [Next]_vars PROVE ReceiveInv'
  OBVIOUS
<1>0. IngressT /\ BearerT /\ ReaderT /\ EgressT
  BY TypeParts DEF TypeInv
<1>1. ASSUME UNCHANGED <<open, received, readBuf, ingress, held, peerAt, arriving, reader>>
      PROVE  ReceiveInv'
  <2> SUFFICES ASSUME NEW q \in Protocols PROVE ReceiveOK(q)'
    BY DEF ReceiveInv
  <2>1. Apart(q)
    BY <1>1 DEF Apart, InHand, ReaderRuns
  <2> QED BY <2>1, ApartKeeps DEF ReceiveInv
<1>2. CASE Writer \/ WriteFails \/ PeerReads
  BY <1>1, <1>2 DEF Writer, TakePayload, LeaveSlot, WriteSegment, Wait, WriteFails, PeerReads,
                    bearerVars, ingressVars
<1>3. CASE Deliver
  BY <1>3, ReceiveDeliver
<1>4. CASE ReadHeader
  BY <1>4, ReceiveHeader
<1>p. CASE ReadPayload
  <2> SUFFICES ASSUME NEW q \in Protocols PROVE ReceiveOK(q)'
    BY DEF ReceiveInv
  <2>1. UNCHANGED <<open, received, readBuf, ingress, held, peerAt, arriving>>
        /\ reader.at = "payload" /\ reader' = [reader EXCEPT !.at = "deliver"]
    BY <1>p DEF ReadPayload, bearerVars, ingressVars
  <2>2. reader'.at = "deliver" /\ reader'.sdu = reader.sdu
    BY <1>0, <2>1 DEF ReaderT, ReaderType
  <2>3. Apart(q)
    BY <2>1, <2>2 DEF Apart, InHand, ReaderRuns
  <2> QED BY <2>3, ApartKeeps DEF ReceiveInv
<1>5. CASE ReadFails \/ PayloadFails
  <2> SUFFICES ASSUME NEW q \in Protocols PROVE ReceiveOK(q)'
    BY DEF ReceiveInv
  <2>1. UNCHANGED <<open, received, readBuf, ingress, held, peerAt, arriving>>
        /\ reader' = [at |-> "failed", sdu |-> <<>>]
    BY <1>5 DEF ReadFails, PayloadFails, Fail, bearerVars, ingressVars
  <2>2. ReceiveOK(q) /\ ~ReaderRuns' /\ Pulled(q)' = Pulled(q)
    BY <2>1 DEF ReceiveInv, ReaderRuns, Pulled
  <2>3. Whole(q)'
    BY <2>1, <2>2 DEF ReceiveOK, Whole
  <2> QED BY <2>1, <2>2, <2>3 DEF ReceiveOK
<1>6. ASSUME NEW p \in Protocols, Driver(p) PROVE ReceiveInv'
  <2>1. CASE Send(p) \/ Enqueue(p) \/ Count(p)
    BY <1>1, <2>1 DEF Send, Enqueue, Count, bearerVars, ingressVars
  <2>2. CASE Recv(p)
    BY <2>2, ReceiveRecv
  <2>3. CASE DropHandle(p)
    <3> SUFFICES ASSUME NEW q \in Protocols PROVE ReceiveOK(q)'
      BY DEF ReceiveInv
    <3>1. /\ UNCHANGED <<held, received, peerAt, arriving, reader>>
          /\ open' = [open EXCEPT ![p] = FALSE]
          /\ ingress' = [ingress EXCEPT ![p] = <<>>]
          /\ readBuf' = [readBuf EXCEPT ![p] = <<>>]
      BY <2>3 DEF DropHandle, bearerVars
    <3>2. CASE q # p
      <4>1. open'[q] = open[q] /\ ingress'[q] = ingress[q] /\ readBuf'[q] = readBuf[q]
        BY <1>0, <3>1, <3>2 DEF IngressT, EgressT
      <4>2. Apart(q)
        BY <3>1, <4>1 DEF Apart, InHand, ReaderRuns
      <4> QED BY <4>2, ApartKeeps DEF ReceiveInv
    <3>3. CASE q = p
      <4>1. ~open'[q]
        BY <1>0, <3>1, <3>3 DEF EgressT
      <4>2. Whole(q)'
        BY <3>1 DEF ReceiveInv, ReceiveOK, Whole
      <4> QED BY <4>1, <4>2 DEF ReceiveOK
    <3> QED BY <3>2, <3>3
  <2> QED BY <1>6, <2>1, <2>2, <2>3 DEF Driver
<1>7. ASSUME NEW p \in Protocols, SetWeight(p) PROVE ReceiveInv'
  BY <1>1, <1>7 DEF SetWeight, bearerVars, ingressVars
<1>8. ASSUME NEW p \in Protocols, NEW n \in 1 .. MaxSegment, PeerSends(p, n) PROVE ReceiveInv'
  BY <1>8, ReceivePeerSends
<1>9. CASE UNCHANGED vars
  BY <1>1, <1>9 DEF vars, bearerVars, ingressVars
<1> QED BY <1>2, <1>3, <1>4, <1>p, <1>5, <1>6, <1>7, <1>8, <1>9 DEF Next, Reader

(* mux_loop, write_sdu, demux_loop and recv: in both directions the streams of   *)
(* all protocols come through whole and in order, for every list of messages,    *)
(* every segment size and every way the peer cuts its streams into SDUs; what    *)
(* recv returns is one message each, unless messages of that protocol end with   *)
(* strings of indefinite length; ingress_bytes is exactly what is held.          *)
THEOREM StreamsAreIntact == Spec => []StreamsIntact
<1>1. TypeInv /\ WrittenIsSent /\ ReceiveInv => StreamsIntact
  BY ReceiveMeans DEF StreamsIntact, TypeInv
<1>2. Spec => []TypeInv
  BY TypeAlways
<1>3. Spec => []WrittenIsSent
  BY WrittenInit, WrittenNext, TypeAlways, PTL DEF Spec
<1>4. Spec => []ReceiveInv
  BY ReceiveInit, ReceiveNext, TypeAlways, PTL DEF Spec
<1> QED BY <1>1, <1>2, <1>3, <1>4, PTL

-----------------------------------------------------------------------------
(* The egress limit *)

(* r bytes are there, n are counted and u have still to be: the difference is *)
(* a multiple of what AtomicUsize counts to.                                  *)
Balance(r, n, u) == \E k \in Int : r = n + u + k * Modulus

(* An arithmetic fact: multiples may be added. *)
LEMMA Multiples ==
    ASSUME NEW M \in Nat \ {0}, NEW j \in Int, NEW k \in Int
    PROVE  /\ (j + k) * M = j * M + k * M /\ j * M \in Int
           /\ k < 0 => k * M <= -M
<1>1. (j + k) * M = j * M + k * M /\ j * M \in Int
  OBVIOUS
<1>2. ASSUME k < 0 PROVE k * M <= -M
  <2>1. (k + 1) * M <= 0
    BY <1>2
  <2>2. (k + 1) * M = k * M + M
    OBVIOUS
  <2> QED BY <2>1, <2>2
<1> QED BY <1>1, <1>2

(* The steps of the account: a message is queued, counted, written. *)
LEMMA BalanceFacts ==
    ASSUME NEW r \in Nat, NEW n \in 0 .. Modulus - 1, NEW u \in Nat, NEW d \in Nat, Balance(r, n, u)
    PROVE  /\ u = 0 => Balance(r + d, n, d)
           /\ u = d => Balance(r, Plus(n, d), 0)
           /\ Balance(r - d, Minus(n, d), u)
           /\ u = 0 => n <= r
<1>1. Modulus \in Nat \ {0} /\ n \in Nat /\ n < Modulus
  BY StreamConstants
<1>2. PICK k \in Int : r = n + u + k * Modulus
  BY DEF Balance
<1>3. k * Modulus \in Int
  BY <1>1
<1>4. u = 0 => Balance(r + d, n, d)
  <2>1. u = 0 => r + d = n + d + k * Modulus
    BY <1>1, <1>2, <1>3
  <2> QED BY <2>1 DEF Balance
<1>5. ASSUME u = d PROVE Balance(r, Plus(n, d), 0)
  <2> DEFINE a == n + d
  <2>1. a \in Int
    BY <1>1
  <2> HIDE DEF a
  <2>2. PICK q \in Int : a = q * Modulus + (a % Modulus)
    BY <1>1, <2>1, ModFacts
  <2>3. a % Modulus \in Int /\ q * Modulus \in Int
    BY <1>1, <2>1, ModFacts
  <2>4. (q + k) * Modulus = q * Modulus + k * Modulus
    BY <1>1, Multiples
  <2>5. r = (a % Modulus) + 0 + (q + k) * Modulus
    <3>1. r = a + k * Modulus
      BY <1>1, <1>2, <1>3, <1>5 DEF a
    <3> QED BY <1>3, <2>2, <2>3, <2>4, <3>1
  <2>6. q + k \in Int
    OBVIOUS
  <2>7. Balance(r, a % Modulus, 0)
    BY <2>5, <2>6 DEF Balance
  <2> QED BY <2>7 DEF a, Plus
<1>6. Balance(r - d, Minus(n, d), u)
  <2> DEFINE a == n + Modulus - d
  <2>1. a \in Int
    BY <1>1
  <2>0. n = a - Modulus + d
    BY <1>1
  <2> HIDE DEF a
  <2>2. PICK q \in Int : a = q * Modulus + (a % Modulus)
    BY <1>1, <2>1, ModFacts
  <2>3. a % Modulus \in Int /\ q * Modulus \in Int
    BY <1>1, <2>1, ModFacts
  <2>4. (q + k) * Modulus = q * Modulus + k * Modulus
    BY <1>1, Multiples
  <2>5. q + k \in Int /\ q + k - 1 \in Int
    OBVIOUS
  <2>6. ((q + k - 1) + 1) * Modulus = (q + k - 1) * Modulus + 1 * Modulus
    BY <1>1, <2>5, Multiples
  <2>7. (q + k - 1) + 1 = q + k /\ 1 * Modulus = Modulus
    BY <1>1, <2>5
  <2>8. r - d = (a % Modulus) + u + (q + k - 1) * Modulus
    <3> DEFINE x == (q + k - 1) * Modulus
               y == k * Modulus
               z == q * Modulus
               m == a % Modulus
    <3>1. x \in Int
      BY <1>1, <2>5
    <3>2. z + y = x + Modulus
      BY <2>4, <2>6, <2>7
    <3>3. r = n + u + y /\ a = z + m /\ y \in Int /\ z \in Int /\ m \in Int
      BY <1>2, <1>3, <2>2, <2>3
    <3> HIDE DEF x, y, z, m
    <3>4. r - d = m + u + x
      BY <1>1, <2>0, <2>1, <3>1, <3>2, <3>3
    <3> QED BY <3>4 DEF m, x
  <2>9. Balance(r - d, a % Modulus, u)
    BY <2>5, <2>8 DEF Balance
  <2> QED BY <2>9 DEF a, Minus
<1>7. ASSUME u = 0 PROVE n <= r
  <2>1. ~(k < 0)
    <3> SUFFICES ASSUME k < 0 PROVE FALSE
      OBVIOUS
    <3>1. k * Modulus <= -Modulus
      BY <1>1, Multiples
    <3> QED BY <1>1, <1>2, <1>3, <1>7, <3>1
  <2>2. k >= 0 => k * Modulus >= 0
    BY <1>1
  <2> QED BY <1>1, <1>2, <1>3, <1>7, <2>1, <2>2
<1> QED BY <1>4, <1>5, <1>6, <1>7

(* The bytes of p in the channel and in the writer's hand, and those its sender *)
(* has queued and not counted.                                                  *)
BeingSize(p) == IF writer.msg # 0 /\ Turn = p THEN Size(Out[p], writer.msg) ELSE 0
RealSize(p) == Len(QueuedOf(p, egress[p])) + BeingSize(p)
Uncounted(p) == IF sender[p] = "queued" THEN Size(Out[p], accepted[p]) ELSE 0
PendInv ==
    /\ writer.msg # 0 => writer.msg \in 1 .. Len(Out[Turn])
    /\ \A p \in Protocols : Balance(RealSize(p), pending[p], Uncounted(p))

(* Their types. *)
LEMMA PendTypes ==
    ASSUME TypeInv, PendInv, NEW p \in Protocols
    PROVE  /\ Len(QueuedOf(p, egress[p])) \in Nat /\ BeingSize(p) \in Nat /\ RealSize(p) \in Nat
           /\ Uncounted(p) \in Nat /\ pending[p] \in 0 .. Modulus - 1
           /\ egress[p] \in Seq(1 .. Len(Out[p]))
           /\ Balance(RealSize(p), pending[p], Uncounted(p))
<1>0. EgressT /\ PendingT /\ SenderOK
  BY TypeParts DEF TypeInv
<1>1. egress[p] \in Seq(1 .. Len(Out[p])) /\ pending[p] \in 0 .. Modulus - 1
  BY <1>0 DEF EgressT, PendingT
<1>2. Len(QueuedOf(p, egress[p])) \in Nat
  BY <1>1, QueuedFacts, LenProperties DEF Bs
<1>3. BeingSize(p) \in Nat
  <2>1. CASE writer.msg # 0 /\ Turn = p
    <3>1. writer.msg \in 1 .. Len(Out[p])
      BY <2>1 DEF PendInv
    <3>2. Size(Out[p], writer.msg) \in Nat
      BY <3>1, StreamConstants, MessageFacts
    <3> QED BY <2>1, <3>2 DEF BeingSize
  <2>2. CASE ~(writer.msg # 0 /\ Turn = p)
    BY <2>2 DEF BeingSize
  <2> QED BY <2>1, <2>2
<1>4. Uncounted(p) \in Nat
  <2>1. CASE sender[p] = "queued"
    <3>1. accepted[p] \in 1 .. Len(Out[p])
      <4>1. accepted[p] \in Nat /\ accepted[p] <= Len(Out[p]) /\ Len(Out[p]) \in Nat
        BY <1>0, StreamConstants, LenProperties DEF EgressT, IsEnds
      <4> QED BY <1>0, <2>1, <4>1 DEF SenderOK
    <3>2. Size(Out[p], accepted[p]) \in Nat
      BY <3>1, StreamConstants, MessageFacts
    <3> QED BY <2>1, <3>2 DEF Uncounted
  <2>2. CASE sender[p] # "queued"
    BY <2>2 DEF Uncounted
  <2> QED BY <2>1, <2>2
<1> QED BY <1>1, <1>2, <1>3, <1>4 DEF RealSize, PendInv

(* Before the first step. *)
LEMMA PendInit == Init => PendInv
<1> SUFFICES ASSUME Init PROVE PendInv
  OBVIOUS
<1>1. writer.msg = 0
  BY DEF Init, NewRound
<1>2. ASSUME NEW p \in Protocols PROVE Balance(RealSize(p), pending[p], Uncounted(p))
  <2>1. egress[p] = <<>> /\ pending[p] = 0 /\ sender[p] = "idle"
    BY DEF Init
  <2>2. <<>> \in Seq(1 .. Len(Out[p]))
    BY EmptySeq
  <2>3. QueuedOf(p, <<>>) = <<>>
    BY <2>2, QueuedFacts
  <2>4. RealSize(p) = 0 /\ Uncounted(p) = 0
    BY <1>1, <2>1, <2>3, EmptySeq DEF RealSize, BeingSize, Uncounted
  <2>5. 0 = 0 + 0 + 0 * Modulus /\ 0 \in Int
    BY StreamConstants
  <2>6. Balance(0, 0, 0)
    BY <2>5 DEF Balance
  <2> QED BY <2>1, <2>4, <2>6
<1> QED BY <1>1, <1>2 DEF PendInv

(* Every step: Enqueue adds to what is there, Count to what is counted, and the *)
(* last segment of a payload takes it from both.                                *)
LEMMA PendNext == TypeInv /\ PendInv /\ [Next]_vars => PendInv'
<1> SUFFICES ASSUME TypeInv, PendInv, [Next]_vars PROVE PendInv'
  OBVIOUS
<1>0. EgressT /\ PendingT /\ WriterT /\ WriterOK /\ SenderOK
  BY TypeParts DEF TypeInv
<1>t. Turn \in Protocols
  BY <1>0, TurnType
<1>p. ASSUME NEW p \in Protocols
      PROVE  /\ Len(QueuedOf(p, egress[p])) \in Nat /\ BeingSize(p) \in Nat /\ RealSize(p) \in Nat
             /\ Uncounted(p) \in Nat /\ pending[p] \in 0 .. Modulus - 1
             /\ egress[p] \in Seq(1 .. Len(Out[p]))
             /\ Balance(RealSize(p), pending[p], Uncounted(p))
  BY PendTypes
<1>1. ASSUME NEW p \in Protocols, RealSize(p)' = RealSize(p), pending'[p] = pending[p],
             Uncounted(p)' = Uncounted(p)
      PROVE  Balance(RealSize(p), pending[p], Uncounted(p))'
  BY <1>1, <1>p DEF Balance
<1>2. ASSUME UNCHANGED <<egress, pending, sender, accepted>>, writer'.msg = writer.msg,
             writer.msg = 0 \/ writer'.turn = writer.turn
      PROVE  PendInv'
  <2>1. writer.msg # 0 => Turn' = Turn
    BY <1>2 DEF Turn
  <2>2. ASSUME NEW p \in Protocols PROVE Balance(RealSize(p), pending[p], Uncounted(p))'
    <3>1. BeingSize(p)' = BeingSize(p)
      BY <1>2, <2>1 DEF BeingSize
    <3>2. RealSize(p)' = RealSize(p) /\ Uncounted(p)' = Uncounted(p)
      BY <1>2, <3>1 DEF RealSize, Uncounted
    <3> QED BY <1>1, <1>2, <3>2
  <2> QED BY <1>2, <2>1, <2>2 DEF PendInv
<1>3. ASSUME NEW p \in Protocols, UNCHANGED <<egress, pending, accepted, writer>>,
             sender[p] # "queued", sender'[p] # "queued",
             \A q \in Protocols : q # p => sender'[q] = sender[q]
      PROVE  PendInv'
  <2>1. ASSUME NEW q \in Protocols PROVE Balance(RealSize(q), pending[q], Uncounted(q))'
    <3>1. RealSize(q)' = RealSize(q)
      BY <1>3 DEF RealSize, BeingSize, Turn
    <3>2. Uncounted(q)' = Uncounted(q)
      BY <1>3 DEF Uncounted
    <3> QED BY <1>1, <1>3, <3>1, <3>2
  <2> QED BY <1>3, <2>1 DEF PendInv, Turn
<1>4. ASSUME NEW p \in Protocols, Send(p) \/ DropHandle(p) PROVE PendInv'
  <2>1. UNCHANGED <<egress, pending, accepted, writer>> /\ sender[p] # "queued"
    BY <1>4 DEF Send, DropHandle, writerVars
  <2>2. sender'[p] # "queued" /\ \A q \in Protocols : q # p => sender'[q] = sender[q]
    <3>1. sender \in [Protocols -> {"idle", "waiting", "queued", "overflow", "closed"}]
      BY <1>0 DEF EgressT
    <3>2. \E v \in {"idle", "overflow", "waiting"} : sender' = [sender EXCEPT ![p] = v]
      BY <1>4 DEF Send, DropHandle
    <3> QED BY <3>1, <3>2
  <2> QED BY <1>3, <2>1, <2>2
<1>5. ASSUME NEW p \in Protocols, Enqueue(p) PROVE PendInv'
  <2>s. sender \in [Protocols -> {"idle", "waiting", "queued", "overflow", "closed"}]
        /\ egress \in [Protocols -> Seq(Nat)] /\ accepted \in [Protocols -> Nat]
    BY <1>0 DEF EgressT
  <2>1. UNCHANGED <<pending, writer>> /\ sender[p] = "waiting"
    BY <1>5 DEF Enqueue, writerVars
  <2>2. CASE sender' = [sender EXCEPT ![p] = "closed"] /\ UNCHANGED <<accepted, egress>>
    <3>1. sender'[p] # "queued" /\ \A q \in Protocols : q # p => sender'[q] = sender[q]
      BY <2>2, <2>s
    <3> QED BY <1>3, <2>1, <2>2, <3>1
  <2>3. CASE /\ accepted' = [accepted EXCEPT ![p] = @ + 1]
             /\ egress' = [egress EXCEPT ![p] = Append(@, accepted[p] + 1)]
             /\ sender' = [sender EXCEPT ![p] = "queued"]
    <3> DEFINE n == accepted[p] + 1
               d == Size(Out[p], n)
    <3>1. n \in 1 .. Len(Out[p])
      <4>1. Len(Out[p]) \in Nat /\ accepted[p] \in Nat
        BY <2>s, StreamConstants, LenProperties DEF IsEnds
      <4> QED BY <1>0, <2>1, <4>1 DEF SenderOK
    <3>2. d \in Nat /\ Bytes(Out[p], n) \in Bs /\ Len(Bytes(Out[p], n)) = d
      BY <3>1, StreamConstants, MessageFacts
    <3>3. /\ accepted'[p] = n /\ egress'[p] = Append(egress[p], n) /\ sender'[p] = "queued"
          /\ \A q \in Protocols : q # p => /\ accepted'[q] = accepted[q] /\ egress'[q] = egress[q]
                                           /\ sender'[q] = sender[q]
      BY <2>3, <2>s
    <3>4. Len(QueuedOf(p, egress'[p])) = Len(QueuedOf(p, egress[p])) + d
      <4>1. QueuedOf(p, Append(egress[p], n)) = Cat(QueuedOf(p, egress[p]), Bytes(Out[p], n))
        BY <1>p, <3>1, QueuedFacts
      <4>2. QueuedOf(p, egress[p]) \in Bs
        BY <1>p, QueuedFacts
      <4>3. Len(Cat(QueuedOf(p, egress[p]), Bytes(Out[p], n)))
              = Len(QueuedOf(p, egress[p])) + Len(Bytes(Out[p], n))
        BY <3>2, <4>2, CatFacts
      <4> QED BY <3>2, <3>3, <4>1, <4>3
    <3>5. \A q : BeingSize(q)' = BeingSize(q)
      BY <2>1 DEF BeingSize, Turn
    <3>6. Uncounted(p) = 0 /\ Uncounted(p)' = d
      BY <2>1, <3>3 DEF Uncounted
    <3> HIDE DEF n, d
    <3>7. RealSize(p)' = RealSize(p) + d
      BY <1>p, <3>2, <3>4, <3>5 DEF RealSize
    <3>8. Balance(RealSize(p) + d, pending[p], d)
      BY <1>p, <3>2, <3>6, BalanceFacts
    <3>9. ASSUME NEW q \in Protocols PROVE Balance(RealSize(q), pending[q], Uncounted(q))'
      <4>1. CASE q = p
        BY <2>1, <3>6, <3>7, <3>8, <4>1 DEF Balance
      <4>2. CASE q # p
        <5>1. RealSize(q)' = RealSize(q) /\ Uncounted(q)' = Uncounted(q)
          BY <3>3, <3>5, <4>2 DEF RealSize, Uncounted
        <5> QED BY <1>1, <2>1, <5>1
      <4> QED BY <4>1, <4>2
    <3> QED BY <2>1, <3>9 DEF PendInv, Turn
  <2> QED BY <1>5, <2>2, <2>3 DEF Enqueue
<1>6. ASSUME NEW p \in Protocols, Count(p) PROVE PendInv'
  <2> DEFINE d == Size(Out[p], accepted[p])
  <2>s. sender \in [Protocols -> {"idle", "waiting", "queued", "overflow", "closed"}]
        /\ pending \in [Protocols -> 0 .. Modulus - 1]
    BY <1>0 DEF EgressT, PendingT
  <2>1. /\ UNCHANGED <<egress, accepted, writer>> /\ sender[p] = "queued"
        /\ pending' = [pending EXCEPT ![p] = Plus(@, d)] /\ sender' = [sender EXCEPT ![p] = "idle"]
    BY <1>6 DEF Count, writerVars
  <2>2. Uncounted(p) = d
    BY <2>1 DEF Uncounted
  <2> HIDE DEF d
  <2>3. /\ pending'[p] = Plus(pending[p], d) /\ sender'[p] = "idle"
        /\ \A q \in Protocols : q # p => pending'[q] = pending[q] /\ sender'[q] = sender[q]
    BY <2>1, <2>s
  <2>4. \A q : RealSize(q)' = RealSize(q)
    BY <2>1 DEF RealSize, BeingSize, Turn
  <2>5. Balance(RealSize(p), Plus(pending[p], d), 0)
    <3>1. d \in Nat
      BY <1>p, <2>2
    <3> QED BY <1>p, <2>2, <3>1, BalanceFacts
  <2>6. ASSUME NEW q \in Protocols PROVE Balance(RealSize(q), pending[q], Uncounted(q))'
    <3>1. CASE q = p
      <4>1. Uncounted(q)' = 0
        BY <2>3, <3>1 DEF Uncounted
      <4> QED BY <2>3, <2>4, <2>5, <3>1, <4>1 DEF Balance
    <3>2. CASE q # p
      <4>1. Uncounted(q)' = Uncounted(q)
        BY <2>1, <2>3, <3>2 DEF Uncounted
      <4> QED BY <1>1, <2>3, <2>4, <3>2, <4>1
    <3> QED BY <3>1, <3>2
  <2> QED BY <2>1, <2>6 DEF PendInv, Turn
<1>7. CASE TakePayload
  <2> DEFINE e == egress[Turn]
             m == Head(e)
             b == Bytes(Out[Turn], m)
  <2>1. /\ egress' = [egress EXCEPT ![Turn] = Tail(@)] /\ e # <<>>
        /\ writer' = [writer EXCEPT !.at = "write", !.msg = m, !.rest = b]
        /\ UNCHANGED <<sender, accepted, pending>> /\ writer.at = "round"
    BY <1>7 DEF TakePayload
  <2>2. writer'.msg = m /\ Turn' = Turn /\ writer.msg = 0
    BY <1>0, <2>1 DEF WriterT, WriterType, Turn, WriterOK
  <2>3. egress'[Turn] = Tail(e) /\ \A q \in Protocols : q # Turn => egress'[q] = egress[q]
    BY <1>0, <1>t, <2>1 DEF EgressT
  <2>4. m \in 1 .. Len(Out[Turn]) /\ Tail(e) \in Seq(1 .. Len(Out[Turn]))
    BY <1>p, <1>t, <2>1, HeadTailProperties
  <2>5. /\ b \in Bs /\ Len(b) = Size(Out[Turn], m) /\ Size(Out[Turn], m) \in Nat
        /\ QueuedOf(Turn, Tail(e)) \in Bs
    BY <1>t, <2>4, StreamConstants, MessageFacts, QueuedFacts
  <2>6. QueuedOf(Turn, e) = Cat(b, QueuedOf(Turn, Tail(e)))
    BY <1>p, <1>t, <2>1, QueuedFacts
  <2> HIDE DEF m, e, b
  <2>7. Len(QueuedOf(Turn, e)) = Size(Out[Turn], m) + Len(QueuedOf(Turn, Tail(e)))
        /\ Len(QueuedOf(Turn, Tail(e))) \in Nat
    BY <2>5, <2>6, CatFacts, LenProperties DEF Bs
  <2>8. m # 0
    BY <2>4
  <2>9. ASSUME NEW q \in Protocols PROVE Balance(RealSize(q), pending[q], Uncounted(q))'
    <3>1. RealSize(q)' = RealSize(q)
      <4>1. CASE q = Turn
        <5>1. BeingSize(q)' = Size(Out[Turn], m) /\ BeingSize(q) = 0
          BY <2>2, <2>8, <4>1 DEF BeingSize
        <5>2. egress[q] = e /\ egress'[q] = Tail(e)
          BY <2>3, <4>1 DEF e
        <5> QED BY <2>5, <2>7, <4>1, <5>1, <5>2 DEF RealSize
      <4>2. CASE q # Turn
        <5>1. BeingSize(q)' = BeingSize(q)
          BY <2>2, <4>2 DEF BeingSize
        <5> QED BY <2>3, <4>2, <5>1 DEF RealSize
      <4> QED BY <4>1, <4>2
    <3>2. Uncounted(q)' = Uncounted(q)
      BY <2>1 DEF Uncounted
    <3> QED BY <1>1, <2>1, <3>1, <3>2
  <2> QED BY <2>2, <2>4, <2>9 DEF PendInv
<1>8. CASE LeaveSlot \/ Wait
  <2>1. UNCHANGED <<egress, pending, sender, accepted>> /\ writer.msg = 0 /\ writer'.msg = 0
    <3>1. CASE LeaveSlot
      <4>1. writer.at = "round" /\ Advance(closed')
        BY <3>1 DEF LeaveSlot
      <4>2. writer'.msg = 0
        BY <1>0, <4>1, AdvanceType
      <4> QED BY <1>0, <3>1, <4>1, <4>2 DEF LeaveSlot, egressVars, WriterOK
    <3>2. CASE Wait
      <4>1. writer.msg = 0 /\ UNCHANGED <<egress, pending, sender, accepted>>
        BY <1>0, <3>2 DEF Wait, WriterOK
      <4>2. writer' = [writer EXCEPT !.at = "failed"] \/ writer' = NewRound(FALSE)
        BY <3>2 DEF Wait
      <4> QED BY <1>0, <4>1, <4>2 DEF WriterT, WriterType, NewRound
    <3> QED BY <1>8, <3>1, <3>2
  <2> QED BY <1>2, <2>1
<1>9. CASE WriteSegment
  <2>1. PICK n \in 1 .. Len(writer.rest) : Segment(n)
    BY <1>9, SegmentFacts
  <2>2. UNCHANGED <<egress, accepted, sender>>
    BY <1>9 DEF WriteSegment
  <2>3. CASE \E l : writer' = [writer EXCEPT !.rest = l] /\ UNCHANGED pending
    <3>1. writer'.msg = writer.msg /\ writer'.turn = writer.turn
      BY <1>0, <2>3 DEF WriterT, WriterType
    <3> QED BY <1>2, <2>2, <2>3, <3>1
  <2>4. CASE /\ writer' = [writer EXCEPT !.at = "round", !.count = @ + 1, !.wrote = TRUE,
                                         !.msg = 0, !.rest = <<>>]
             /\ pending' = [pending EXCEPT ![Turn] = Minus(@, Size(Out[Turn], writer.msg))]
    <3> DEFINE d == Size(Out[Turn], writer.msg)
    <3>1. writer'.msg = 0 /\ Turn' = Turn
      BY <1>0, <2>4 DEF WriterT, WriterType, Turn
    <3>2. writer.at = "write"
      BY <1>9 DEF WriteSegment
    <3>3. writer.msg \in 1 .. Len(Out[Turn])
      BY <1>0, <3>2 DEF WriterOK
    <3>4. d \in Nat /\ BeingSize(Turn) = d
      BY <1>t, <3>3, StreamConstants, MessageFacts DEF BeingSize
    <3>5. /\ pending'[Turn] = Minus(pending[Turn], d)
          /\ \A q \in Protocols : q # Turn => pending'[q] = pending[q]
      BY <1>0, <1>t, <2>4 DEF PendingT
    <3> HIDE DEF d
    <3>6. ASSUME NEW q \in Protocols PROVE Balance(RealSize(q), pending[q], Uncounted(q))'
      <4>1. Uncounted(q)' = Uncounted(q)
        BY <2>2 DEF Uncounted
      <4>2. CASE q = Turn
        <5>1. BeingSize(q)' = 0
          BY <3>1 DEF BeingSize
        <5>2. RealSize(q)' = RealSize(q) - d
          <6>1. RealSize(q)' = Len(QueuedOf(q, egress[q])) + 0
            BY <2>2, <5>1 DEF RealSize
          <6>2. RealSize(q) = Len(QueuedOf(q, egress[q])) + d
            BY <3>4, <4>2 DEF RealSize
          <6>3. Len(QueuedOf(q, egress[q])) \in Nat
            BY <1>p
          <6> QED BY <3>4, <6>1, <6>2, <6>3
        <5>3. Balance(RealSize(q) - d, Minus(pending[q], d), Uncounted(q))
          BY <1>p, <3>4, BalanceFacts
        <5> QED BY <3>5, <4>1, <4>2, <5>2, <5>3 DEF Balance
      <4>3. CASE q # Turn
        <5>1. BeingSize(q)' = BeingSize(q)
          BY <3>1, <4>3 DEF BeingSize
        <5>2. RealSize(q)' = RealSize(q)
          BY <2>2, <5>1 DEF RealSize
        <5> QED BY <1>1, <3>5, <4>1, <4>3, <5>2
      <4> QED BY <4>2, <4>3
    <3> QED BY <3>1, <3>6 DEF PendInv
  <2> QED BY <2>1, <2>3, <2>4 DEF Segment
<1>10. CASE WriteFails
  <2>1. writer' = [writer EXCEPT !.at = "failed"] /\ UNCHANGED <<egress, pending, sender, accepted>>
    BY <1>10 DEF WriteFails, egressVars
  <2>2. writer'.msg = writer.msg /\ writer'.turn = writer.turn
    BY <1>0, <2>1 DEF WriterT, WriterType
  <2> QED BY <1>2, <2>1, <2>2
<1>11. CASE Reader \/ ReadPayload \/ PayloadFails \/ PeerReads
  BY <1>2, <1>11 DEF Reader, ReadHeader, ReadPayload, PayloadFails, Deliver, ReadFails, PeerReads, egressVars, writerVars
<1>12. ASSUME NEW p \in Protocols, SetWeight(p) \/ Recv(p) PROVE PendInv'
  BY <1>2, <1>12 DEF SetWeight, Recv, egressVars, writerVars
<1>13. ASSUME NEW p \in Protocols, NEW n \in 1 .. MaxSegment, PeerSends(p, n) PROVE PendInv'
  BY <1>2, <1>13 DEF PeerSends, egressVars, writerVars
<1>14. CASE UNCHANGED vars
  BY <1>2, <1>14 DEF vars, egressVars, writerVars
<1> QED BY <1>4, <1>5, <1>6, <1>7, <1>8, <1>9, <1>10, <1>11, <1>12, <1>13, <1>14
        DEF Next, Writer, Driver

(* ProtocolHandle::send: whatever the capacity of the counter and the order in *)
(* which sender and writer update it, EgressBufferOverflow means that more     *)
(* than the limit is really queued or being written.                           *)
THEOREM OverflowsAreReal == Spec => OverflowIsReal
<1> DEFINE Real == \A p \in Protocols : sender[p] = "idle" /\ sender'[p] = "overflow" =>
                     Len(Queued(p))
                       + (IF writer.msg # 0 /\ Turn = p THEN Size(Out[p], writer.msg) ELSE 0)
                       > EgressLimit
<1>1. TypeInv /\ PendInv /\ [Next]_vars => [Real]_vars
  <2> SUFFICES ASSUME TypeInv, PendInv, Next, NEW p \in Protocols,
                      sender[p] = "idle", sender'[p] = "overflow"
               PROVE  Len(Queued(p))
                        + (IF writer.msg # 0 /\ Turn = p THEN Size(Out[p], writer.msg) ELSE 0)
                        > EgressLimit
    BY DEF Real
  <2>0. EgressT
    BY TypeParts DEF TypeInv
  <2>s. sender \in [Protocols -> {"idle", "waiting", "queued", "overflow", "closed"}]
    BY <2>0 DEF EgressT
  <2>1. PICK q \in Protocols : Send(q) \/ Enqueue(q) \/ Count(q) \/ DropHandle(q)
    <3>1. sender' # sender
      BY <2>s
    <3> QED BY <3>1 DEF Next, Writer, Reader, Driver, TakePayload, LeaveSlot, WriteSegment, Wait,
                        WriteFails, ReadHeader, ReadPayload, PayloadFails, Deliver, ReadFails, Recv, SetWeight, PeerReads,
                        PeerSends, egressVars
  <2>2. Send(q) /\ q = p
    <3>1. CASE Send(q)
      BY <2>s, <3>1 DEF Send
    <3>2. CASE Enqueue(q)
      BY <2>s, <3>2 DEF Enqueue
    <3>3. CASE Count(q) \/ DropHandle(q)
      BY <2>s, <3>3 DEF Count, DropHandle
    <3> QED BY <2>1, <3>1, <3>2, <3>3
  <2>3. pending[p] > EgressLimit
    BY <2>s, <2>2 DEF Send
  <2>4. Uncounted(p) = 0
    BY DEF Uncounted
  <2>5. /\ RealSize(p) \in Nat /\ pending[p] \in 0 .. Modulus - 1
        /\ Balance(RealSize(p), pending[p], Uncounted(p))
    BY PendTypes
  <2>6. pending[p] <= RealSize(p)
    BY <2>4, <2>5, BalanceFacts
  <2>7. RealSize(p) = Len(Queued(p))
                        + (IF writer.msg # 0 /\ Turn = p THEN Size(Out[p], writer.msg) ELSE 0)
    BY DEF RealSize, BeingSize, Queued, QueuedOf
  <2>8. RealSize(p) > EgressLimit
    BY <2>3, <2>5, <2>6, StreamConstants
  <2> QED BY <2>7, <2>8
<1>2. Spec => []PendInv
  BY PendInit, PendNext, TypeAlways, PTL DEF Spec
<1> QED BY <1>1, <1>2, TypeAlways, PTL DEF Spec, OverflowIsReal
=============================================================================
