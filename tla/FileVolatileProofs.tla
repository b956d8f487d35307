------------------------- MODULE FileVolatileProofs -------------------------
(***************************************************************************)
(* For every set of blocks and every assignment of slots (ties included):  *)
(* the in-memory chain of file_volatile.rs and the block files that the    *)
(* pending delete plan spares are the same blocks.                         *)
(***************************************************************************)
EXTENDS FileVolatile, InductionLemmas, SequenceTheorems

NoRepeat(s) == \A i, j \in 1 .. Len(s) : i < j => s[i] # s[j]

(* A prefix and the rest of a duplicate-free sequence split its elements. *)
LEMMA SplitChain ==
    ASSUME NEW s \in Seq(Blocks), NEW n \in 0 .. Len(s),
           NoRepeat(s)
    PROVE  /\ SubSeq(s, 1, n) \in Seq(Blocks)
           /\ SubSeq(s, n + 1, Len(s)) \in Seq(Blocks)
           /\ ToSet(SubSeq(s, 1, n)) =
                ToSet(s) \ ToSet(SubSeq(s, n + 1, Len(s)))
           /\ ToSet(SubSeq(s, n + 1, Len(s))) =
                ToSet(s) \ ToSet(SubSeq(s, 1, n))
           /\ NoRepeat(SubSeq(s, 1, n))
           /\ NoRepeat(SubSeq(s, n + 1, Len(s)))
<1> DEFINE pre == SubSeq(s, 1, n)
           suf == SubSeq(s, n + 1, Len(s))
<1>0. n \in Nat /\ Len(s) \in Nat
  OBVIOUS
<1>1. /\ pre \in Seq(Blocks) /\ Len(pre) = n
      /\ \A i \in 1 .. n : pre[i] = s[i]
  OBVIOUS
<1>2. /\ suf \in Seq(Blocks) /\ Len(suf) = Len(s) - n
      /\ \A i \in 1 .. Len(s) - n : suf[i] = s[n + i]
  OBVIOUS
<1> HIDE DEF pre, suf
<1>3. ToSet(pre) = { s[i] : i \in 1 .. n }
  BY <1>1 DEF ToSet
<1>4. ToSet(suf) = { s[i] : i \in n + 1 .. Len(s) }
  <2>1. ASSUME NEW i \in n + 1 .. Len(s) PROVE s[i] \in ToSet(suf)
    <3>1. i - n \in 1 .. Len(s) - n /\ n + (i - n) = i
      BY <1>0
    <3>2. s[i] = suf[i - n]
      BY <1>2, <3>1
    <3> QED BY <3>1, <3>2, <1>2 DEF ToSet
  <2>2. ASSUME NEW i \in 1 .. Len(s) - n
        PROVE  suf[i] \in { s[j] : j \in n + 1 .. Len(s) }
    BY <1>2
  <2>3. ToSet(suf) = { suf[i] : i \in 1 .. Len(s) - n }
    BY <1>2 DEF ToSet
  <2> QED BY <2>1, <2>2, <2>3
<1>5. ToSet(s) = { s[i] : i \in 1 .. Len(s) }
  BY DEF ToSet
<1>6. ToSet(pre) \cup ToSet(suf) = ToSet(s)
  BY <1>3, <1>4, <1>5
<1>7. ToSet(pre) \cap ToSet(suf) = {}
  BY <1>3, <1>4 DEF NoRepeat
<1>8. NoRepeat(pre)
  BY <1>1 DEF NoRepeat
<1>9. NoRepeat(suf)
  BY <1>2 DEF NoRepeat
<1> QED
  BY <1>1, <1>2, <1>6, <1>7, <1>8, <1>9 DEF pre, suf

(* Every order open may leave the files in lists each file once. *)
LEMMA SlotOrdersList ==
    ASSUME NEW S \in SUBSET Blocks, NEW s \in SlotOrders(S)
    PROVE  /\ s \in Seq(Blocks)
           /\ ToSet(s) = S
           /\ \A i, j \in 1 .. Len(s) : i < j => s[i] # s[j]
<1>1. Cardinality(S) \in Nat
  BY FS_Subset, FS_CardinalityType, BlocksAssumption
<1>2. s \in [1 .. Cardinality(S) -> Blocks]
  BY DEF SlotOrders
<1>3. s \in Seq(Blocks) /\ DOMAIN s = 1 .. Len(s)
  BY <1>1, <1>2
<1> QED
  BY <1>3 DEF SlotOrders

(* What a pending plan names and is still on disk is still to be removed.  *)
(* Without it, removing the plan could bring a deleted block back.         *)
PlanIsCarriedOut ==
    /\ status # "down" => files \cap ToSet(wal) \subseteq ToSet(removing)
    /\ ToSet(removing) \subseteq ToSet(wal)

IInv == TypeOK /\ ChainMatchesDisk /\ PlanIsCarriedOut

(* The empty sequence holds nothing. *)
LEMMA EmptyToSet == ToSet(<<>>) = {}
BY DEF ToSet

(* A prune or a rollback that begins removes from the index what it will   *)
(* delete.                                                                 *)
LEMMA BeginDeleteStep ==
    ASSUME IInv, Idle,
           NEW STATE doomed, doomed \in Seq(Blocks),
           NEW STATE kept, kept \in Seq(Blocks),
           ToSet(kept) = ToSet(chain) \ ToSet(doomed),
           NoRepeat(kept),
           BeginDelete(doomed, kept)
    PROVE  IInv'
<1>1. TypeOK'
  BY DEF IInv, TypeOK, BeginDelete
<1>2. ToSet(chain) = files
  BY EmptyToSet DEF IInv, ChainMatchesDisk, Idle
<1>3. ChainMatchesDisk'
  BY <1>2 DEF ChainMatchesDisk, BeginDelete, NoRepeat
<1>4. PlanIsCarriedOut'
  BY DEF PlanIsCarriedOut, BeginDelete
<1> QED
  BY <1>1, <1>3, <1>4 DEF IInv

(* SplitChain for the chain of an idle store. *)
LEMMA SplitHere ==
    ASSUME IInv, Idle, NEW n \in 0 .. Len(chain)
    PROVE  /\ SubSeq(chain, 1, n) \in Seq(Blocks)
           /\ SubSeq(chain, n + 1, Len(chain)) \in Seq(Blocks)
           /\ ToSet(SubSeq(chain, 1, n)) =
                ToSet(chain) \ ToSet(SubSeq(chain, n + 1, Len(chain)))
           /\ ToSet(SubSeq(chain, n + 1, Len(chain))) =
                ToSet(chain) \ ToSet(SubSeq(chain, 1, n))
           /\ NoRepeat(SubSeq(chain, 1, n))
           /\ NoRepeat(SubSeq(chain, n + 1, Len(chain)))
<1>1. chain \in Seq(Blocks) /\ NoRepeat(chain)
  BY DEF IInv, TypeOK, ChainMatchesDisk, Idle, NoRepeat
<1> QED
  BY <1>1, SplitChain

(* IInv holds in a new store. *)
LEMMA InitIInv == Init => IInv
BY EmptyToSet DEF Init, IInv, TypeOK, ChainMatchesDisk, PlanIsCarriedOut

(* Every step keeps IInv. *)
LEMMA NextIInv == IInv /\ [Next]_vars => IInv'
<1> SUFFICES ASSUME IInv, [Next]_vars PROVE IInv'
  OBVIOUS
<1> USE EmptyToSet
<1>1. ASSUME NEW b \in Blocks, AddBlock(b) PROVE IInv'
  <2>1. TypeOK'
    BY <1>1 DEF IInv, TypeOK, AddBlock
  <2>2. /\ Len(chain') = Len(chain) + 1
        /\ \A i \in 1 .. Len(chain) : chain'[i] = chain[i]
        /\ chain'[Len(chain) + 1] = b
    BY <1>1 DEF IInv, TypeOK, AddBlock
  <2>3. ToSet(chain') = ToSet(chain) \cup {b}
    BY <2>1, <2>2 DEF ToSet, TypeOK
  <2>4. \A i \in 1 .. Len(chain) : chain[i] \in ToSet(chain)
    BY DEF ToSet, IInv, TypeOK
  <2>5. ChainMatchesDisk'
    BY <1>1, <2>1, <2>2, <2>3, <2>4
    DEF IInv, TypeOK, ChainMatchesDisk, AddBlock, Idle
  <2>6. PlanIsCarriedOut'
    BY <1>1 DEF IInv, PlanIsCarriedOut, AddBlock, Idle
  <2> QED
    BY <2>1, <2>5, <2>6 DEF IInv
<1>2. ASSUME NEW n \in 1 .. Len(chain), PruneUpTo(n) PROVE IInv'
  <2>1. BeginDelete(SubSeq(chain, 1, n), SubSeq(chain, n + 1, Len(chain)))
    BY <1>2 DEF PruneUpTo
  <2>2. n \in 0 .. Len(chain)
    BY DEF IInv, TypeOK
  <2> QED
    BY <1>2, <2>1, <2>2, SplitHere, BeginDeleteStep DEF PruneUpTo
<1>3. ASSUME NEW n \in 0 .. Len(chain), RollbackTo(n) PROVE IInv'
  <2>1. BeginDelete(SubSeq(chain, n + 1, Len(chain)), SubSeq(chain, 1, n))
    BY <1>3 DEF RollbackTo
  <2> QED
    BY <1>3, <2>1, SplitHere, BeginDeleteStep DEF RollbackTo
<1>4. ASSUME NEW b \in Blocks, GarbageCollect(Slot[b]) PROVE IInv'
  <2>1. PICK n \in 1 .. Len(chain) :
            BeginDelete(SubSeq(chain, 1, n), SubSeq(chain, n + 1, Len(chain)))
    BY <1>4 DEF GarbageCollect
  <2>2. n \in 0 .. Len(chain)
    BY DEF IInv, TypeOK
  <2> QED
    BY <1>4, <2>1, <2>2, SplitHere, BeginDeleteStep DEF GarbageCollect
<1>5. CASE RemoveFile
  <2>1. TypeOK'
    BY <1>5 DEF IInv, TypeOK, RemoveFile
  <2>2. ToSet(removing) = {Head(removing)} \cup ToSet(removing')
    <3>1. /\ Len(removing') = Len(removing) - 1
          /\ Head(removing) = removing[1]
          /\ \A i \in 1 .. Len(removing) - 1 : removing'[i] = removing[i + 1]
      BY <1>5 DEF IInv, TypeOK, RemoveFile
    <3>2. ASSUME NEW i \in 1 .. Len(removing)
          PROVE  removing[i] \in {Head(removing)} \cup ToSet(removing')
      <4>1. CASE i = 1
        BY <3>1, <4>1
      <4>2. CASE i > 1
        <5>1. i - 1 \in 1 .. Len(removing') /\ removing[i] = removing'[i - 1]
          BY <3>1, <4>2 DEF IInv, TypeOK
        <5> QED
          BY <5>1, <2>1 DEF ToSet, TypeOK
      <4> QED BY <4>1, <4>2
    <3>3. ASSUME NEW i \in 1 .. Len(removing')
          PROVE  removing'[i] \in ToSet(removing)
      <4>1. i + 1 \in 1 .. Len(removing) /\ removing'[i] = removing[i + 1]
        BY <3>1 DEF IInv, TypeOK
      <4> QED
        BY <4>1 DEF ToSet, IInv, TypeOK
    <3>4. Head(removing) \in ToSet(removing)
      BY <3>1, <1>5 DEF ToSet, IInv, TypeOK, RemoveFile
    <3>5. /\ ToSet(removing) = { removing[i] : i \in 1 .. Len(removing) }
          /\ ToSet(removing') = { removing'[i] : i \in 1 .. Len(removing') }
      BY <2>1 DEF ToSet, IInv, TypeOK
    <3> QED
      BY <3>2, <3>3, <3>4, <3>5
  <2>3. ChainMatchesDisk'
    BY <1>5, <2>2 DEF IInv, ChainMatchesDisk, PlanIsCarriedOut, RemoveFile
  <2>4. PlanIsCarriedOut'
    BY <1>5, <2>2 DEF IInv, PlanIsCarriedOut, RemoveFile
  <2> QED
    BY <2>1, <2>3, <2>4 DEF IInv
<1>6. CASE ClearDeleteWal
  BY <1>6 DEF IInv, TypeOK, ChainMatchesDisk, PlanIsCarriedOut, ClearDeleteWal
<1>7. CASE Crash
  BY <1>7 DEF IInv, TypeOK, ChainMatchesDisk, PlanIsCarriedOut, Crash
<1>8. CASE OpenReplayWal
  BY <1>8 DEF IInv, TypeOK, ChainMatchesDisk, PlanIsCarriedOut, OpenReplayWal
<1>9. CASE OpenScan
  <2>1. /\ chain' \in Seq(Blocks)
        /\ ToSet(chain') = files
        /\ \A i, j \in 1 .. Len(chain') : i < j => chain'[i] # chain'[j]
    BY <1>9, SlotOrdersList DEF IInv, TypeOK, OpenScan
  <2> QED
    BY <1>9, <2>1
    DEF IInv, TypeOK, ChainMatchesDisk, PlanIsCarriedOut, OpenScan
<1>10. CASE UNCHANGED vars
  BY <1>10 DEF IInv, TypeOK, ChainMatchesDisk, PlanIsCarriedOut, vars
<1> QED
  BY <1>1, <1>2, <1>3, <1>4, <1>5, <1>6, <1>7, <1>8, <1>9, <1>10 DEF Next

(* The variables of the file-backed store keep their types. *)
THEOREM TypeCorrect == Spec => []TypeOK
<1>1. IInv => TypeOK
  BY DEF IInv
<1> QED
  BY InitIInv, NextIInv, <1>1, PTL DEF Spec

(* Whatever file operation a crash comes after, a serving store's chain is *)
(* exactly the block files its pending delete plan spares.                 *)
THEOREM ChainOnDisk == Spec => []ChainMatchesDisk
<1>1. IInv => ChainMatchesDisk
  BY DEF IInv
<1> QED
  BY InitIInv, NextIInv, <1>1, PTL DEF Spec

-----------------------------------------------------------------------------
(* Slots and links *)

(* The slots of a chain grow: after Byron every block has a slot of its own.  *)
(* (An epoch-boundary block shares the slot of its successor, and then the    *)
(* order in which open finds the two is not determined.)                      *)
SlotsGrow == \A b \in Blocks : Parent[b] \in Blocks => Slot[Parent[b]] < Slot[b]

Sorted(s) == \A i, j \in 1 .. Len(s) : i < j => Slot[s[i]] < Slot[s[j]]
Linked(s) == \A i \in 1 .. Len(s) - 1 : Parent[s[i + 1]] = s[i]

(* c is the chain made of the blocks S. *)
Holds(c, S) == c \in Seq(Blocks) /\ ToSet(c) = S /\ Sorted(c) /\ Linked(c)

(* Two sequences of the same blocks, both sorted, are the same. *)
LEMMA SortedOnce ==
    ASSUME NEW s \in Seq(Blocks), NEW t \in Seq(Blocks), Sorted(s), Sorted(t), ToSet(s) = ToSet(t)
    PROVE  s = t
<1>0. Len(s) \in Nat /\ Len(t) \in Nat
  BY LenProperties
<1>1. /\ \A i \in 1 .. Len(s) : s[i] \in Blocks /\ Slot[s[i]] \in Nat
      /\ \A i \in 1 .. Len(t) : t[i] \in Blocks /\ Slot[t[i]] \in Nat
  BY ElementOfSeq, BlocksAssumption
<1>2. /\ \A i \in 1 .. Len(s) : \E j \in 1 .. Len(t) : s[i] = t[j]
      /\ \A j \in 1 .. Len(t) : \E i \in 1 .. Len(s) : t[j] = s[i]
  <2>1. /\ ToSet(s) = { s[i] : i \in 1 .. Len(s) }
        /\ ToSet(t) = { t[i] : i \in 1 .. Len(t) }
    BY DEF ToSet
  <2> QED BY <2>1
<1> DEFINE U == {n \in Nat : \A i \in 1 .. n :
                    /\ i <= Len(s) <=> i <= Len(t)
                    /\ i <= Len(s) => s[i] = t[i]}
<1>3. 0 \in U
  OBVIOUS
<1>4. ASSUME NEW n \in Nat, n \in U PROVE n + 1 \in U
  <2>1. \A i \in 1 .. n : /\ i <= Len(s) <=> i <= Len(t)
                          /\ i <= Len(s) => s[i] = t[i]
    BY <1>4
  <2>2. ASSUME n + 1 <= Len(s)
        PROVE  \E j \in 1 .. Len(t) : s[n + 1] = t[j] /\ n + 1 <= j
    <3>1. n + 1 \in 1 .. Len(s)
      BY <1>0, <2>2
    <3>2. PICK j \in 1 .. Len(t) : s[n + 1] = t[j]
      BY <1>2, <3>1
    <3>3. ~(j <= n)
      <4> SUFFICES ASSUME j <= n PROVE FALSE
        OBVIOUS
      <4>1. j \in 1 .. n /\ j <= Len(t) /\ j < n + 1
        BY <1>0
      <4>2. s[j] = t[j] /\ j \in 1 .. Len(s)
        BY <1>0, <2>1, <4>1
      <4>3. Slot[s[j]] < Slot[s[n + 1]]
        BY <3>1, <4>1, <4>2 DEF Sorted
      <4> QED BY <1>1, <3>1, <3>2, <4>2, <4>3
    <3> QED BY <1>0, <3>2, <3>3
  <2>3. ASSUME n + 1 <= Len(t)
        PROVE  \E i \in 1 .. Len(s) : t[n + 1] = s[i] /\ n + 1 <= i
    <3>1. n + 1 \in 1 .. Len(t)
      BY <1>0, <2>3
    <3>2. PICK i \in 1 .. Len(s) : t[n + 1] = s[i]
      BY <1>2, <3>1
    <3>3. ~(i <= n)
      <4> SUFFICES ASSUME i <= n PROVE FALSE
        OBVIOUS
      <4>1. i \in 1 .. n /\ i <= Len(s) /\ i < n + 1
        BY <1>0
      <4>2. s[i] = t[i] /\ i \in 1 .. Len(t)
        BY <1>0, <2>1, <4>1
      <4>3. Slot[t[i]] < Slot[t[n + 1]]
        BY <3>1, <4>1, <4>2 DEF Sorted
      <4> QED BY <1>1, <3>1, <3>2, <4>2, <4>3
    <3> QED BY <1>0, <3>2, <3>3
  <2>4. n + 1 <= Len(s) <=> n + 1 <= Len(t)
    BY <1>0, <2>2, <2>3
  <2>5. ASSUME n + 1 <= Len(s) PROVE s[n + 1] = t[n + 1]
    <3>1. PICK j \in 1 .. Len(t) : s[n + 1] = t[j] /\ n + 1 <= j
      BY <2>2, <2>5
    <3>2. PICK i \in 1 .. Len(s) : t[n + 1] = s[i] /\ n + 1 <= i
      BY <2>3, <2>4, <2>5
    <3>3. n + 1 \in 1 .. Len(s) /\ n + 1 \in 1 .. Len(t)
      BY <1>0, <2>4, <2>5
    <3>4. n + 1 < j => Slot[t[n + 1]] < Slot[t[j]]
      BY <3>1, <3>3 DEF Sorted
    <3>5. n + 1 < i => Slot[s[n + 1]] < Slot[s[i]]
      BY <3>2, <3>3 DEF Sorted
    <3>6. Slot[s[n + 1]] \in Nat /\ Slot[t[n + 1]] \in Nat
      BY <1>1, <3>3
    <3>7. j = n + 1 \/ i = n + 1
      <4> SUFFICES ASSUME n + 1 < j, n + 1 < i PROVE FALSE
        BY <3>1, <3>2
      <4> QED BY <3>1, <3>2, <3>4, <3>5, <3>6
    <3> QED BY <3>1, <3>2, <3>7
  <2>6. ASSUME NEW i \in 1 .. n + 1
        PROVE  (i <= Len(s) <=> i <= Len(t)) /\ (i <= Len(s) => s[i] = t[i])
    <3>1. i \in 1 .. n \/ i = n + 1
      OBVIOUS
    <3> QED BY <2>1, <2>4, <2>5, <3>1
  <2> QED BY <2>6
<1>5. Nat \subseteq U
  <2> HIDE DEF U
  <2> QED BY <1>3, <1>4, NatInductionOnSet
<1>6. Len(s) \in U /\ Len(t) \in U
  BY <1>0, <1>5
<1>7. Len(s) = Len(t)
  <2>1. Len(s) > 0 => Len(s) <= Len(t)
    <3>1. Len(s) > 0 => Len(s) \in 1 .. Len(s)
      BY <1>0
    <3> QED BY <1>0, <1>6, <3>1
  <2>2. Len(t) > 0 => Len(t) <= Len(s)
    <3>1. Len(t) > 0 => Len(t) \in 1 .. Len(t)
      BY <1>0
    <3> QED BY <1>0, <1>6, <3>1
  <2> QED BY <1>0, <2>1, <2>2
<1>8. \A i \in 1 .. Len(s) : s[i] = t[i]
  BY <1>0, <1>6
<1> QED BY <1>7, <1>8, SeqEqual

(* So open can rebuild the chain in one way only. *)
LEMMA OneOrder ==
    ASSUME NEW S \in SUBSET Blocks, NEW c, Holds(c, S)
    PROVE  SlotOrders(S) = {c}
<1>0. c \in Seq(Blocks) /\ Len(c) \in Nat /\ ToSet(c) = S /\ Sorted(c)
  BY LenProperties DEF Holds
<1>1. \A i \in 1 .. Len(c) : c[i] \in Blocks /\ Slot[c[i]] \in Nat
  BY <1>0, ElementOfSeq, BlocksAssumption
<1>2. DOMAIN c = 1 .. Len(c) /\ c \in [1 .. Len(c) -> S]
  <2>1. \A i \in 1 .. Len(c) : c[i] \in S
    BY <1>0 DEF ToSet
  <2> QED BY <1>0, <2>1
<1>3. \A i, j \in 1 .. Len(c) : i < j => c[i] # c[j] /\ Slot[c[i]] <= Slot[c[j]]
  BY <1>0, <1>1 DEF Sorted
<1>4. Cardinality(S) = Len(c)
  <2>1. c \in Bijection(1 .. Len(c), S)
    <3>1. \A x \in S : \E i \in 1 .. Len(c) : c[i] = x
      BY <1>0, <1>2 DEF ToSet
    <3>2. \A i, j \in 1 .. Len(c) : c[i] = c[j] => i = j
      BY <1>0, <1>3
    <3> QED BY <1>2, <3>1, <3>2 DEF Bijection, Injection, Surjection, IsInjective
  <2>2. ExistsBijection(1 .. Len(c), S)
    BY <2>1 DEF ExistsBijection
  <2> QED BY <1>0, <2>2, FS_CountingElements
<1>5. c \in SlotOrders(S)
  BY <1>0, <1>2, <1>3, <1>4 DEF SlotOrders
<1>6. ASSUME NEW s \in SlotOrders(S) PROVE s = c
  <2>1. /\ s \in Seq(Blocks) /\ ToSet(s) = S /\ Len(s) \in Nat /\ DOMAIN s = 1 .. Len(s)
        /\ \A i, j \in 1 .. Len(s) : i < j => s[i] # s[j]
    BY SlotOrdersList, LenProperties
  <2>2. \A i, j \in 1 .. Len(s) : i < j => Slot[s[i]] <= Slot[s[j]]
    BY <2>1 DEF SlotOrders
  <2>3. \A i \in 1 .. Len(s) : \E k \in 1 .. Len(c) : s[i] = c[k]
    BY <1>0, <1>2, <2>1 DEF ToSet
  <2>4. \A x, y \in S : Slot[x] = Slot[y] => x = y
    <3> SUFFICES ASSUME NEW x \in S, NEW y \in S, Slot[x] = Slot[y] PROVE x = y
      OBVIOUS
    <3>1. PICK i \in 1 .. Len(c) : c[i] = x
      BY <1>0, <1>2 DEF ToSet
    <3>2. PICK j \in 1 .. Len(c) : c[j] = y
      BY <1>0, <1>2 DEF ToSet
    <3>3. ~(i < j) /\ ~(j < i)
      <4>1. i < j => Slot[c[i]] < Slot[c[j]]
        BY <1>0 DEF Sorted
      <4>2. j < i => Slot[c[j]] < Slot[c[i]]
        BY <1>0 DEF Sorted
      <4> QED BY <1>1, <3>1, <3>2, <4>1, <4>2
    <3> QED BY <1>0, <3>1, <3>2, <3>3
  <2>5. Sorted(s)
    <3> SUFFICES ASSUME NEW i \in 1 .. Len(s), NEW j \in 1 .. Len(s), i < j
                 PROVE  Slot[s[i]] < Slot[s[j]]
      BY DEF Sorted
    <3>1. s[i] \in S /\ s[j] \in S /\ s[i] # s[j]
      BY <2>1 DEF ToSet
    <3>2. Slot[s[i]] <= Slot[s[j]] /\ Slot[s[i]] # Slot[s[j]]
      BY <2>2, <2>4, <3>1
    <3>3. Slot[s[i]] \in Nat /\ Slot[s[j]] \in Nat
      BY <3>1, BlocksAssumption
    <3> QED BY <3>2, <3>3
  <2> QED BY <1>0, <2>1, <2>5, SortedOnce
<1> QED BY <1>5, <1>6

(* What is left of the chain of an idle store, and what an added block makes of it. *)
LEMMA HeldParts ==
    ASSUME NEW c, NEW S \in SUBSET Blocks, Holds(c, S), NEW n \in 0 .. Len(c)
    PROVE  /\ Holds(SubSeq(c, 1, n), S \ ToSet(SubSeq(c, n + 1, Len(c))))
           /\ Holds(SubSeq(c, n + 1, Len(c)), S \ ToSet(SubSeq(c, 1, n)))
<1>0. c \in Seq(Blocks) /\ Len(c) \in Nat /\ ToSet(c) = S /\ Sorted(c) /\ Linked(c) /\ n \in Nat
  BY LenProperties DEF Holds
<1>1. \A i \in 1 .. Len(c) : c[i] \in Blocks /\ Slot[c[i]] \in Nat
  BY <1>0, ElementOfSeq, BlocksAssumption
<1>2. NoRepeat(c)
  <2> SUFFICES ASSUME NEW i \in 1 .. Len(c), NEW j \in 1 .. Len(c), i < j PROVE c[i] # c[j]
    BY DEF NoRepeat
  <2>1. Slot[c[i]] < Slot[c[j]] /\ Slot[c[i]] \in Nat
    BY <1>0, <1>1 DEF Sorted
  <2> QED BY <2>1
<1> DEFINE pre == SubSeq(c, 1, n)
           suf == SubSeq(c, n + 1, Len(c))
<1>3. /\ pre \in Seq(Blocks) /\ suf \in Seq(Blocks)
      /\ ToSet(pre) = S \ ToSet(suf) /\ ToSet(suf) = S \ ToSet(pre)
  BY <1>0, <1>2, SplitChain
<1>4. Len(pre) = n /\ \A i \in 1 .. n : pre[i] = c[i]
  BY <1>0
<1>5. Len(suf) = Len(c) - n /\ \A i \in 1 .. Len(c) - n : suf[i] = c[n + i]
  BY <1>0
<1> HIDE DEF pre, suf
<1>6. Sorted(pre) /\ Linked(pre)
  <2>1. Sorted(pre)
    BY <1>0, <1>4 DEF Sorted
  <2>2. ASSUME NEW i \in 1 .. Len(pre) - 1 PROVE Parent[pre[i + 1]] = pre[i]
    <3>1. i \in 1 .. n /\ i + 1 \in 1 .. n /\ i \in 1 .. Len(c) - 1
      BY <1>0, <1>4
    <3> QED BY <1>0, <1>4, <3>1 DEF Linked
  <2> QED BY <2>1, <2>2 DEF Linked
<1>7. Sorted(suf) /\ Linked(suf)
  <2>1. Sorted(suf)
    <3> SUFFICES ASSUME NEW i \in 1 .. Len(suf), NEW j \in 1 .. Len(suf), i < j
                 PROVE  Slot[suf[i]] < Slot[suf[j]]
      BY DEF Sorted
    <3>1. n + i \in 1 .. Len(c) /\ n + j \in 1 .. Len(c) /\ n + i < n + j
      BY <1>0, <1>5
    <3>2. Slot[c[n + i]] < Slot[c[n + j]]
      BY <1>0, <3>1 DEF Sorted
    <3> QED BY <1>5, <3>2
  <2>2. ASSUME NEW i \in 1 .. Len(suf) - 1 PROVE Parent[suf[i + 1]] = suf[i]
    <3>1. /\ i \in 1 .. Len(c) - n /\ i + 1 \in 1 .. Len(c) - n /\ n + i \in 1 .. Len(c) - 1
          /\ n + (i + 1) = (n + i) + 1
      BY <1>0, <1>5
    <3>2. suf[i] = c[n + i] /\ suf[i + 1] = c[(n + i) + 1]
      BY <1>5, <3>1
    <3> QED BY <1>0, <3>1, <3>2 DEF Linked
  <2> QED BY <2>1, <2>2 DEF Linked
<1> QED BY <1>3, <1>6, <1>7 DEF Holds, pre, suf

(* A chain of held blocks grows by a block whose file was written. *)
LEMMA HeldGrows ==
    ASSUME SlotsGrow, NEW c, NEW S \in SUBSET Blocks, Holds(c, S), NEW b \in Blocks,
           c # <<>> => Parent[b] = c[Len(c)]
    PROVE  Holds(Append(c, b), S \cup {b})
<1>0. c \in Seq(Blocks) /\ Len(c) \in Nat /\ ToSet(c) = S /\ Sorted(c) /\ Linked(c)
  BY LenProperties DEF Holds
<1>1. \A i \in 1 .. Len(c) : c[i] \in Blocks /\ Slot[c[i]] \in Nat
  BY <1>0, ElementOfSeq, BlocksAssumption
<1> DEFINE d == Append(c, b)
<1>2. /\ d \in Seq(Blocks) /\ Len(d) = Len(c) + 1 /\ \A i \in 1 .. Len(c) : d[i] = c[i]
      /\ d[Len(c) + 1] = b
  BY <1>0, AppendProperties
<1> HIDE DEF d
<1>3. ToSet(d) = S \cup {b}
  <2>1. /\ ToSet(c) = { c[i] : i \in 1 .. Len(c) }
        /\ ToSet(d) = { d[i] : i \in 1 .. Len(c) + 1 }
    BY <1>0, <1>2 DEF ToSet
  <2> QED BY <1>0, <1>2, <2>1
<1>4. Len(c) # 0 => Parent[b] = c[Len(c)] /\ Len(c) \in 1 .. Len(c)
  BY <1>0, EmptySeq
<1>5. \A i \in 1 .. Len(c) : Slot[c[i]] < Slot[b]
  <2> SUFFICES ASSUME NEW i \in 1 .. Len(c) PROVE Slot[c[i]] < Slot[b]
    OBVIOUS
  <2>1. Slot[c[Len(c)]] < Slot[b] /\ Slot[c[Len(c)]] \in Nat /\ Slot[b] \in Nat
    BY <1>1, <1>4, BlocksAssumption DEF SlotsGrow
  <2>2. i = Len(c) \/ Slot[c[i]] < Slot[c[Len(c)]]
    BY <1>0, <1>4 DEF Sorted
  <2> QED BY <1>1, <2>1, <2>2
<1>6. Sorted(d)
  <2> SUFFICES ASSUME NEW i \in 1 .. Len(d), NEW j \in 1 .. Len(d), i < j
               PROVE  Slot[d[i]] < Slot[d[j]]
    BY DEF Sorted
  <2>1. i \in 1 .. Len(c) /\ (j \in 1 .. Len(c) \/ j = Len(c) + 1)
    BY <1>0, <1>2
  <2> QED BY <1>0, <1>2, <1>5, <2>1 DEF Sorted
<1>7. Linked(d)
  <2> SUFFICES ASSUME NEW i \in 1 .. Len(d) - 1 PROVE Parent[d[i + 1]] = d[i]
    BY DEF Linked
  <2>1. i \in 1 .. Len(c)
    BY <1>0, <1>2
  <2>2. CASE i = Len(c)
    BY <1>0, <1>2, <1>4, <2>1, <2>2
  <2>3. CASE i # Len(c)
    <3>1. i \in 1 .. Len(c) - 1 /\ i + 1 \in 1 .. Len(c)
      BY <1>0, <2>1, <2>3
    <3> QED BY <1>0, <1>2, <2>1, <3>1 DEF Linked
  <2> QED BY <2>2, <2>3
<1> QED BY <1>2, <1>3, <1>6, <1>7 DEF Holds, d

-----------------------------------------------------------------------------
(* Atomicity under crashes *)

Spared == files \ ToSet(wal)

(* The blocks the plan spares make one chain, and it is the one in memory *)
(* while there is one.                                                    *)
ViewOf(c) == /\ Holds(c, Spared)
             /\ chain = IF status = "up" THEN c ELSE <<>>
ViewInv == IInv /\ \E c : ViewOf(c)

(* What callers see of such a store. *)
LEMMA Seen ==
    /\ \A c : IInv /\ ViewOf(c) => Contents = c
    /\ \A c : IInv' /\ ViewOf(c)' => Contents' = c
<1>1. ASSUME NEW S \in SUBSET Blocks, NEW c, Holds(c, S) PROVE (CHOOSE s \in SlotOrders(S) : TRUE) = c
  BY <1>1, OneOrder
<1>2. (IInv => Spared \in SUBSET Blocks) /\ (IInv' => Spared' \in SUBSET Blocks)
  BY DEF IInv, TypeOK, Spared
<1>3. ASSUME NEW c, IInv, ViewOf(c) PROVE Contents = c
  BY <1>1, <1>2, <1>3 DEF Contents, ViewOf, Spared
<1>4. ASSUME NEW c, IInv', ViewOf(c)' PROVE Contents' = c
  BY <1>1, <1>2, <1>4 DEF Contents, ViewOf, Spared
<1> QED BY <1>3, <1>4

(* How the view may change in a step. *)
Changes(c, d) ==
    \/ d = c
    \/ \E b \in Blocks : /\ b \notin ToSet(c)
                         /\ c # <<>> => Parent[b] = c[Len(c)] /\ Slot[b] >= Slot[c[Len(c)]]
                         /\ d = Append(c, b)
    \/ \E n \in 1 .. Len(c) : d = SubSeq(c, n + 1, Len(c))
    \/ \E n \in 0 .. Len(c) : d = SubSeq(c, 1, n)

(* Every step leads from a chain the files hold to one that the abstract   *)
(* store allows.                                                           *)
LEMMA ViewStep ==
    ASSUME SlotsGrow, IInv, IInv', NEW c, ViewOf(c), [Next]_vars
    PROVE  \E d : ViewOf(d)' /\ Changes(c, d)
<1>0. Spared \in SUBSET Blocks /\ Holds(c, Spared) /\ c \in Seq(Blocks) /\ Len(c) \in Nat
  BY LenProperties DEF IInv, TypeOK, Spared, ViewOf, Holds
<1>i. Idle => chain = c /\ Spared = files /\ status = "up"
  BY EmptyToSet DEF Idle, ViewOf, Spared
<1>1. ASSUME Spared' = Spared, chain' = (IF status' = "up" THEN c ELSE <<>>)
      PROVE  \E d : ViewOf(d)' /\ Changes(c, d)
  BY <1>0, <1>1 DEF ViewOf, Changes
<1>2. ASSUME NEW b \in Blocks, AddBlock(b) PROVE \E d : ViewOf(d)' /\ Changes(c, d)
  <2>1. /\ b \notin ToSet(c) /\ (c # <<>> => Parent[b] = c[Len(c)] /\ Slot[b] >= Slot[c[Len(c)]])
        /\ chain' = Append(c, b) /\ Spared' = Spared \cup {b} /\ status' = "up"
    BY <1>2, <1>i, EmptyToSet DEF AddBlock, Spared, Idle
  <2>2. Holds(Append(c, b), Spared')
    BY <1>0, <2>1, HeldGrows
  <2>3. ViewOf(Append(c, b))'
    BY <2>1, <2>2 DEF ViewOf, Holds, Sorted, Linked
  <2>4. Changes(c, Append(c, b))
    BY <2>1 DEF Changes
  <2> QED BY <2>3, <2>4
<1>3. ASSUME NEW n \in 1 .. Len(c), Idle, BeginDelete(SubSeq(c, 1, n), SubSeq(c, n + 1, Len(c)))
      PROVE  \E d : ViewOf(d)' /\ Changes(c, d)
  <2> DEFINE d == SubSeq(c, n + 1, Len(c))
             e == SubSeq(c, 1, n)
  <2>1. chain' = d /\ wal' = e /\ files' = files /\ status' = "up"
    BY <1>3, <1>i DEF BeginDelete
  <2>2. Holds(d, Spared \ ToSet(e))
    <3>1. n \in 0 .. Len(c)
      BY <1>0
    <3> QED BY <1>0, <3>1, HeldParts
  <2>3. Changes(c, d)
    BY <1>3 DEF Changes
  <2> HIDE DEF d, e
  <2>4. Spared' = Spared \ ToSet(e)
    BY <1>3, <1>i, <2>1 DEF Spared
  <2>5. ViewOf(d)'
    BY <2>1, <2>2, <2>4 DEF ViewOf, Holds, Sorted, Linked
  <2> QED BY <2>3, <2>5
<1>4. ASSUME NEW n \in 0 .. Len(c), Idle, BeginDelete(SubSeq(c, n + 1, Len(c)), SubSeq(c, 1, n))
      PROVE  \E d : ViewOf(d)' /\ Changes(c, d)
  <2> DEFINE d == SubSeq(c, 1, n)
             e == SubSeq(c, n + 1, Len(c))
  <2>1. chain' = d /\ wal' = e /\ files' = files /\ status' = "up"
    BY <1>4, <1>i DEF BeginDelete
  <2>2. Holds(d, Spared \ ToSet(e))
    BY <1>0, HeldParts
  <2>3. Changes(c, d)
    BY <1>4 DEF Changes
  <2> HIDE DEF d, e
  <2>4. Spared' = Spared \ ToSet(e)
    BY <1>4, <1>i, <2>1 DEF Spared
  <2>5. ViewOf(d)'
    BY <2>1, <2>2, <2>4 DEF ViewOf, Holds, Sorted, Linked
  <2> QED BY <2>3, <2>5
<1>5. ASSUME NEW n \in 1 .. Len(chain), PruneUpTo(n) PROVE \E d : ViewOf(d)' /\ Changes(c, d)
  BY <1>3, <1>5, <1>i DEF PruneUpTo
<1>6. ASSUME NEW n \in 0 .. Len(chain), RollbackTo(n) PROVE \E d : ViewOf(d)' /\ Changes(c, d)
  BY <1>4, <1>6, <1>i DEF RollbackTo
<1>7. ASSUME NEW b \in Blocks, GarbageCollect(Slot[b]) PROVE \E d : ViewOf(d)' /\ Changes(c, d)
  <2>1. PICK n \in 1 .. Len(chain) :
            BeginDelete(SubSeq(chain, 1, n), SubSeq(chain, n + 1, Len(chain)))
    BY <1>7 DEF GarbageCollect
  <2> QED BY <1>3, <1>7, <1>i, <2>1 DEF GarbageCollect
<1>8. CASE RemoveFile
  <2>1. Head(removing) \in ToSet(wal)
    <3>1. removing # <<>> /\ removing \in Seq(Blocks) /\ ToSet(removing) \subseteq ToSet(wal)
      BY <1>8 DEF RemoveFile, IInv, TypeOK, PlanIsCarriedOut
    <3>2. 1 \in DOMAIN removing /\ Head(removing) = removing[1]
      BY <3>1, EmptySeq
    <3> QED BY <3>1, <3>2 DEF ToSet
  <2> QED BY <1>1, <1>8, <2>1 DEF RemoveFile, Spared, ViewOf
<1>9. CASE ClearDeleteWal
  <2>1. files \cap ToSet(wal) = {}
    BY <1>9, EmptyToSet DEF ClearDeleteWal, IInv, PlanIsCarriedOut
  <2> QED BY <1>1, <1>9, <2>1, EmptyToSet DEF ClearDeleteWal, Spared, ViewOf
<1>10. CASE Crash
  BY <1>1, <1>10 DEF Crash, Spared
<1>11. CASE OpenReplayWal
  BY <1>1, <1>11 DEF OpenReplayWal, Spared, ViewOf
<1>12. CASE OpenScan
  <2>1. Spared = files /\ chain' \in SlotOrders(files) /\ status' = "up" /\ Spared' = Spared
    BY <1>12, EmptyToSet DEF OpenScan, Spared
  <2>2. chain' = c
    BY <1>0, <2>1, OneOrder
  <2> QED BY <1>1, <2>1, <2>2
<1>13. CASE UNCHANGED vars
  BY <1>1, <1>13 DEF vars, Spared, ViewOf
<1> QED BY <1>2, <1>5, <1>6, <1>7, <1>8, <1>9, <1>10, <1>11, <1>12, <1>13 DEF Next

(* A new store holds the empty chain. *)
LEMMA ViewInit == Init => ViewInv
<1> SUFFICES ASSUME Init PROVE ViewInv
  OBVIOUS
<1>1. IInv
  BY InitIInv
<1>2. Holds(<<>>, Spared)
  BY EmptyToSet, EmptySeq DEF Init, Spared, Holds, Sorted, Linked
<1>3. ViewOf(<<>>)
  BY <1>2 DEF ViewOf, Init
<1> QED BY <1>1, <1>3 DEF ViewInv

(* There is always a chain that the files hold. *)
LEMMA ViewNext == ASSUME SlotsGrow PROVE ViewInv /\ [Next]_vars => ViewInv'
<1> SUFFICES ASSUME ViewInv, [Next]_vars PROVE ViewInv'
  OBVIOUS
<1>1. IInv'
  BY NextIInv DEF ViewInv
<1>2. PICK c : ViewOf(c)
  BY DEF ViewInv
<1>3. PICK d : ViewOf(d)'
  BY <1>1, <1>2, ViewStep DEF ViewInv
<1> QED BY <1>1, <1>3 DEF ViewInv

(* open: where every block of a chain has a slot of its own, the chain a       *)
(* restart hands to callers is linked by prev_hash, whatever was added, pruned, *)
(* rolled back or interrupted before.                                           *)
THEOREM OpensLinked == ASSUME SlotsGrow PROVE Spec => []OpenedChainIsLinked
<1>1. ViewInv => OpenedChainIsLinked
  <2> SUFFICES ASSUME NEW c, ViewOf(c) PROVE OpenedChainIsLinked
    BY DEF ViewInv
  <2>1. Linked(c) /\ (chain = c \/ chain = <<>>)
    BY DEF ViewOf, Holds
  <2> QED BY <2>1, EmptySeq DEF Linked, OpenedChainIsLinked
<1> QED BY ViewInit, ViewNext, <1>1, PTL DEF Spec

(* file_volatile.rs implements the in-memory store: where every block of a     *)
(* chain has a slot of its own, each of its operations takes effect as a whole *)
(* or not at all, whichever file operation a crash comes after, and opening     *)
(* brings back exactly the chain the callers saw.                               *)
THEOREM CrashesAreAtomic == ASSUME SlotsGrow PROVE Spec => AtomicUnderCrashes
<1>1. Init => Abstract!Init
  <2> SUFFICES ASSUME Init PROVE Contents = <<>>
    BY DEF Abstract!Init
  <2> QED BY DEF Init, Contents
<1>2. ViewInv /\ [Next]_vars => [Abstract!Next]_Contents
  <2> SUFFICES ASSUME ViewInv, [Next]_vars PROVE [Abstract!Next]_Contents
    OBVIOUS
  <2>1. IInv /\ IInv'
    BY NextIInv DEF ViewInv
  <2>2. PICK c : ViewOf(c)
    BY DEF ViewInv
  <2>3. PICK d : ViewOf(d)' /\ Changes(c, d)
    BY <2>1, <2>2, ViewStep
  <2>4. Contents = c /\ Contents' = d
    BY <2>1, <2>2, <2>3, Seen
  <2>5. CASE d = c
    BY <2>4, <2>5
  <2>6. ASSUME NEW b \in Blocks, b \notin ToSet(c), d = Append(c, b),
               c # <<>> => Parent[b] = c[Len(c)] /\ Slot[b] >= Slot[c[Len(c)]]
        PROVE  Abstract!Next
    <3>1. Abstract!AddBlock(b)
      BY <2>4, <2>6 DEF Abstract!AddBlock, Abstract!Last, Abstract!ToSet, ToSet
    <3> QED BY <3>1 DEF Abstract!Next
  <2>7. ASSUME NEW n \in 1 .. Len(c), d = SubSeq(c, n + 1, Len(c)) PROVE Abstract!Next
    <3>1. Abstract!PruneUpTo(n) /\ n \in 1 .. Len(Contents)
      BY <2>4, <2>7 DEF Abstract!PruneUpTo
    <3> QED BY <3>1 DEF Abstract!Next
  <2>8. ASSUME NEW n \in 0 .. Len(c), d = SubSeq(c, 1, n) PROVE Abstract!Next
    <3>1. Abstract!RollbackTo(n) /\ n \in 0 .. Len(Contents)
      BY <2>4, <2>8 DEF Abstract!RollbackTo
    <3> QED BY <3>1 DEF Abstract!Next
  <2> QED BY <2>3, <2>5, <2>6, <2>7, <2>8 DEF Changes
<1> QED BY ViewInit, ViewNext, <1>1, <1>2, PTL DEF Spec, AtomicUnderCrashes, Abstract!Spec
=============================================================================
