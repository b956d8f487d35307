------------------------- MODULE SyncPipelineProofs -------------------------
(***************************************************************************)
(* Proofs about SyncPipeline.  Every store, the window and every batch is  *)
(* the end of a chain, from some height on: Seg(a, x) for the chain of x   *)
(* above height a.  What the actions do to them is told by equations, and  *)
(* the invariants are about points and heights.                            *)
(***************************************************************************)
EXTENDS SyncPipeline, InductionLemmas

(* PathTo gives each block its chain. *)
LEMMA Paths ==
    /\ PathTo \in [Points -> Seq(Blocks)]
    /\ PathTo[Origin] = <<>>
    /\ \A b \in Blocks : EndsWith(PathTo[b], b)
    /\ \A p \in Points : Chained(PathTo, PathTo[p], Origin, Parent, Slot)
<1>1. IsTree(Blocks, Origin, Parent, Slot)
  BY ChainTreeAssumption DEF IsTree
<1>2. IsPath(PathTo, Blocks, Origin, Parent)
  <2>1. PICK g : IsPath(g, Blocks, Origin, Parent)
    BY <1>1, PathExists
  <2>2. g = [p \in Points |-> IF p = Origin THEN <<>> ELSE Append(g[Parent[p]], p)]
    BY <2>1 DEF IsPath, Points
  <2>3. PathTo = [p \in Points |-> IF p = Origin THEN <<>> ELSE Append(PathTo[Parent[p]], p)]
    BY <2>2, Zenon DEF PathTo
  <2> QED BY <2>3, Zenon DEF IsPath, Points
<1>3. /\ PathTo \in [Blocks \cup {Origin} -> Seq(Blocks)]
      /\ PathTo[Origin] = <<>>
      /\ \A b \in Blocks : PathTo[b] = Append(PathTo[Parent[b]], b) /\ EndsWith(PathTo[b], b)
      /\ \A p \in Blocks \cup {Origin} : Chained(PathTo, PathTo[p], Origin, Parent, Slot)
  BY <1>1, <1>2, PathFacts, Zenon
<1> QED BY <1>3 DEF Points

(* The blocks of a chain are told apart by their heights. *)
LEMMA OnPath ==
    ASSUME NEW t \in Points, NEW h \in 1 .. Height(t)
    PROVE  /\ PathTo[t][h] \in Blocks /\ Height(PathTo[t][h]) = h
           /\ PathTo[PathTo[t][h]] = SubSeq(PathTo[t], 1, h)
           /\ Parent[PathTo[t][h]] = IF h = 1 THEN Origin ELSE PathTo[t][h - 1]
<1>1. PathTo[t] \in Seq(Blocks) /\ Chained(PathTo, PathTo[t], Origin, Parent, Slot)
  BY Paths
<1>2. h \in 1 .. Len(PathTo[t])
  BY DEF Height
<1> QED BY <1>1, <1>2 DEF Height, Chained

(* The heights of points. *)
LEMMA Heights ==
    /\ \A p \in Points : Height(p) \in Nat /\ PathTo[p] \in Seq(Blocks) /\ Len(PathTo[p]) = Height(p)
    /\ Height(Origin) = 0 /\ Origin \in Points /\ Origin \notin Blocks
    /\ \A b \in Blocks : Height(b) > 0 /\ b \in Points /\ PathTo[b][Height(b)] = b
<1>1. \A p \in Points : PathTo[p] \in Seq(Blocks)
  BY Paths
<1>2. \A b \in Blocks : EndsWith(PathTo[b], b)
  BY Paths
<1> QED BY <1>1, <1>2, Paths, ChainTreeAssumption DEF Height, Points, EndsWith

(* The slots along a chain ascend with the heights. *)
LEMMA SlotsAscend ==
    ASSUME NEW t \in Points, NEW i \in 1 .. Height(t), NEW j \in 1 .. Height(t)
    PROVE  /\ Slot[PathTo[t][i]] \in Nat /\ Slot[PathTo[t][j]] \in Nat
           /\ Slot[PathTo[t][i]] < Slot[PathTo[t][j]] <=> i < j
<1>1. Chained(PathTo, PathTo[t], Origin, Parent, Slot)
  BY Paths
<1>2. \A x, y \in 1 .. Height(t) : x < y => Slot[PathTo[t][x]] < Slot[PathTo[t][y]]
  BY <1>1 DEF Height, Chained
<1>3. PathTo[t][i] \in Blocks /\ PathTo[t][j] \in Blocks
  BY OnPath
<1>4. Slot[PathTo[t][i]] \in Nat /\ Slot[PathTo[t][j]] \in Nat
  BY <1>3, ChainTreeAssumption
<1>5. i \in Nat /\ j \in Nat
  BY Heights
<1>6. CASE i < j
  BY <1>2, <1>4, <1>6
<1>7. CASE i = j
  BY <1>4, <1>7
<1>8. CASE j < i
  BY <1>2, <1>4, <1>8, <1>5
<1> QED BY <1>5, <1>6, <1>7, <1>8

(* The ancestor of x at height h. *)
At(x, h) == IF h = 0 THEN Origin ELSE PathTo[x][h]

(* Every height of a chain has one block. *)
LEMMA Ancestor ==
    ASSUME NEW x \in Points, NEW h \in 0 .. Height(x)
    PROVE  At(x, h) \in Points /\ Height(At(x, h)) = h /\ OnChain(At(x, h), x)
<1>1. CASE h = 0
  BY <1>1, Heights DEF At, OnChain
<1>2. CASE h # 0
  <2>1. h \in 1 .. Height(x) /\ PathTo[x] \in Seq(Blocks) /\ Len(PathTo[x]) = Height(x)
    BY <1>2, Heights
  <2>2. PathTo[x][h] \in Blocks /\ Height(PathTo[x][h]) = h
    BY <2>1, OnPath
  <2>3. PathTo[x][h] \in ToSet(PathTo[x])
    BY <2>1 DEF ToSet
  <2> QED BY <1>2, <2>2, <2>3 DEF At, OnChain, Points
<1> QED BY <1>1, <1>2

(* A point is on a chain if it is the chain's ancestor at its height. *)
LEMMA OnChainAt ==
    ASSUME NEW p \in Points, NEW x \in Points
    PROVE  OnChain(p, x) <=> Height(p) <= Height(x) /\ At(x, Height(p)) = p
<1>1. Height(p) \in Nat /\ Height(x) \in Nat /\ PathTo[x] \in Seq(Blocks) /\ Len(PathTo[x]) = Height(x)
  BY Heights
<1>2. ASSUME OnChain(p, x) PROVE Height(p) <= Height(x) /\ At(x, Height(p)) = p
  <2>1. CASE p = Origin
    BY <2>1, <1>1, Heights DEF At
  <2>2. CASE p # Origin
    <3>1. PICK h \in 1 .. Height(x) : p = PathTo[x][h]
      BY <1>1, <1>2, <2>2 DEF OnChain, ToSet
    <3>2. Height(p) = h
      BY <3>1, OnPath
    <3> QED BY <3>1, <3>2, <1>1 DEF At
  <2> QED BY <2>1, <2>2
<1>3. ASSUME Height(p) <= Height(x), At(x, Height(p)) = p PROVE OnChain(p, x)
  <2>1. Height(p) \in 0 .. Height(x)
    BY <1>1, <1>3
  <2> QED BY <2>1, <1>3, Ancestor
<1> QED BY <1>2, <1>3

(* The ancestors of an ancestor. *)
LEMMA AtBelow ==
    ASSUME NEW p \in Points, NEW x \in Points, OnChain(p, x), NEW h \in 0 .. Height(p)
    PROVE  At(p, h) = At(x, h)
<1>1. Height(p) \in Nat /\ Height(x) \in Nat /\ PathTo[x] \in Seq(Blocks) /\ Len(PathTo[x]) = Height(x)
  BY Heights
<1>2. Height(p) <= Height(x) /\ At(x, Height(p)) = p
  BY OnChainAt
<1>3. CASE h = 0
  BY <1>3 DEF At
<1>4. CASE h # 0
  <2>1. Height(p) \in 1 .. Height(x) /\ h \in 1 .. Height(p)
    BY <1>1, <1>2, <1>4
  <2>2. p = PathTo[x][Height(p)]
    BY <1>2, <2>1 DEF At
  <2>3. PathTo[p] = SubSeq(PathTo[x], 1, Height(p))
    BY <2>1, <2>2, OnPath
  <2>4. SubSeq(PathTo[x], 1, Height(p))[h] = PathTo[x][h]
    BY <1>1, <2>1
  <2> QED BY <1>4, <2>3, <2>4 DEF At
<1> QED BY <1>3, <1>4

(* Being on the chain of a point is an order, and the points of one chain  *)
(* are ordered by their heights.                                           *)
LEMMA ChainRefl == \A p \in Points : OnChain(p, p) /\ OnChain(Origin, p)
<1>1. ASSUME NEW p \in Points PROVE At(p, Height(p)) = p
  BY Heights DEF At, Points
<1> QED BY <1>1, OnChainAt, Heights DEF OnChain

(* A point of a chain's chain is on that chain. *)
LEMMA ChainTrans ==
    ASSUME NEW p \in Points, NEW q \in Points, NEW x \in Points, OnChain(p, q), OnChain(q, x)
    PROVE  OnChain(p, x)
<1>1. Height(p) \in Nat /\ Height(q) \in Nat /\ Height(x) \in Nat
  BY Heights
<1>2. Height(p) <= Height(q) /\ At(q, Height(p)) = p /\ Height(q) <= Height(x)
  BY OnChainAt
<1>3. Height(p) \in 0 .. Height(q)
  BY <1>1, <1>2
<1>4. At(q, Height(p)) = At(x, Height(p))
  BY <1>3, AtBelow
<1>5. Height(p) <= Height(x)
  BY <1>1, <1>2
<1>6. At(x, Height(p)) = p
  BY <1>2, <1>4
<1> QED BY <1>5, <1>6, OnChainAt

(* Of two points of one chain the lower is on the chain of the other. *)
LEMMA ChainLinear ==
    ASSUME NEW p \in Points, NEW q \in Points, NEW x \in Points, OnChain(p, x), OnChain(q, x)
    PROVE  Height(p) <= Height(q) <=> OnChain(p, q)
<1>1. Height(p) \in Nat /\ Height(q) \in Nat
  BY Heights
<1>2. At(x, Height(p)) = p
  BY OnChainAt
<1>3. ASSUME Height(p) <= Height(q) PROVE OnChain(p, q)
  <2>1. Height(p) \in 0 .. Height(q)
    BY <1>1, <1>3
  <2>2. At(q, Height(p)) = At(x, Height(p))
    BY <2>1, AtBelow
  <2> QED BY <1>2, <1>3, <2>2, OnChainAt
<1> QED BY <1>3, OnChainAt

(* Only its tip is as high as a chain. *)
LEMMA ChainEqual ==
    ASSUME NEW p \in Points, NEW x \in Points, OnChain(p, x), Height(p) >= Height(x)
    PROVE  p = x
<1>1. Height(p) \in Nat /\ Height(x) \in Nat
  BY Heights
<1>2. Height(p) = Height(x) /\ At(x, Height(p)) = p
  BY <1>1, OnChainAt
<1>3. At(x, Height(x)) = x
  BY ChainRefl, OnChainAt
<1> QED BY <1>2, <1>3

(* The slots along a chain. *)
LEMMA ChainSlots ==
    ASSUME NEW p \in Blocks, NEW q \in Blocks, NEW x \in Points, OnChain(p, x), OnChain(q, x)
    PROVE  /\ Slot[p] \in Nat /\ Slot[q] \in Nat
           /\ Slot[p] < Slot[q] <=> Height(p) < Height(q)
           /\ Slot[p] <= Slot[q] <=> OnChain(p, q)
<1>1. p \in Points /\ q \in Points /\ Height(p) \in Nat /\ Height(q) \in Nat /\ Height(x) \in Nat
      /\ Height(p) > 0 /\ Height(q) > 0
  BY Heights DEF Points
<1>2. Height(p) \in 1 .. Height(x) /\ Height(q) \in 1 .. Height(x)
  BY <1>1, OnChainAt
<1>3. PathTo[x][Height(p)] = p /\ PathTo[x][Height(q)] = q
  <2>1. At(x, Height(p)) = p /\ At(x, Height(q)) = q
    BY <1>1, OnChainAt
  <2> QED BY <2>1, <1>1 DEF At
<1>4. Slot[p] \in Nat /\ Slot[q] \in Nat /\ (Slot[p] < Slot[q] <=> Height(p) < Height(q))
  BY <1>2, <1>3, SlotsAscend
<1>5. Slot[q] < Slot[p] <=> Height(q) < Height(p)
  BY <1>2, <1>3, SlotsAscend
<1>6. Height(p) <= Height(q) <=> OnChain(p, q)
  BY <1>1, ChainLinear
<1> QED BY <1>1, <1>4, <1>5, <1>6

-----------------------------------------------------------------------------
(* Ends of chains. *)

(* The chain of x above height a. *)
Seg(a, x) == SubSeq(PathTo[x], a + 1, Height(x))

(* Its blocks are the ancestors of x. *)
LEMMA SegFacts ==
    ASSUME NEW x \in Points, NEW a \in 0 .. Height(x)
    PROVE  /\ Seg(a, x) \in Seq(Blocks)
           /\ Len(Seg(a, x)) = Height(x) - a
           /\ \A k \in 1 .. Height(x) - a : Seg(a, x)[k] = At(x, a + k)
<1>1. PathTo[x] \in Seq(Blocks) /\ Len(PathTo[x]) = Height(x) /\ Height(x) \in Nat /\ a \in Nat /\ a <= Height(x)
  BY Heights
<1>2. PICK n : n = Height(x)
  OBVIOUS
<1>3. Seg(a, x) = SubSeq(PathTo[x], a + 1, n)
  BY <1>2 DEF Seg
<1>4. Piece(PathTo[x], SubSeq(PathTo[x], a + 1, n), a, Blocks) /\ Len(SubSeq(PathTo[x], a + 1, n)) = n - a
  BY <1>1, <1>2, PieceOfWhole
<1>5. Seg(a, x) \in Seq(Blocks) /\ Len(Seg(a, x)) = Height(x) - a
  BY <1>2, <1>3, <1>4 DEF Piece
<1>6. \A k \in 1 .. Height(x) - a : Seg(a, x)[k] = PathTo[x][a + k]
  BY <1>3, <1>4, <1>5 DEF Piece
<1>7. ASSUME NEW k \in 1 .. Height(x) - a PROVE PathTo[x][a + k] = At(x, a + k)
  <2>1. a + k # 0
    BY <1>1
  <2> QED BY <2>1 DEF At
<1> QED BY <1>5, <1>6, <1>7

(* A sequence with those blocks is that end of the chain. *)
LEMMA SegIs ==
    ASSUME NEW x \in Points, NEW a \in 0 .. Height(x), NEW s \in Seq(Blocks),
           Len(s) = Height(x) - a, \A k \in 1 .. Height(x) - a : s[k] = At(x, a + k)
    PROVE  s = Seg(a, x)
<1>1. /\ Seg(a, x) \in Seq(Blocks)
      /\ Len(Seg(a, x)) = Height(x) - a
      /\ \A k \in 1 .. Height(x) - a : Seg(a, x)[k] = At(x, a + k)
  BY SegFacts
<1> HIDE DEF Seg
<1>2. Len(s) = Len(Seg(a, x)) /\ \A k \in 1 .. Len(s) : s[k] = Seg(a, x)[k]
  BY <1>1
<1> QED BY <1>1, <1>2

(* The whole chain, and none of it. *)
LEMMA SegWhole ==
    ASSUME NEW x \in Points
    PROVE  Seg(0, x) = PathTo[x] /\ Seg(Height(x), x) = <<>>
<1>1. Height(x) \in Nat /\ PathTo[x] \in Seq(Blocks) /\ Len(PathTo[x]) = Height(x)
  BY Heights
<1>2. PathTo[x] = Seg(0, x)
  <2>1. Height(x) - 0 = Height(x) /\ 0 \in 0 .. Height(x)
    BY <1>1
  <2>2. \A k \in 1 .. Height(x) - 0 : PathTo[x][k] = At(x, 0 + k)
    BY <1>1 DEF At
  <2> QED BY <1>1, <2>1, <2>2, SegIs
<1>3. Height(x) \in 0 .. Height(x) /\ Height(x) - Height(x) = 0
  BY <1>1
<1>4. Seg(Height(x), x) \in Seq(Blocks) /\ Len(Seg(Height(x), x)) = 0
  BY <1>3, SegFacts
<1> QED BY <1>2, <1>4

(* It ends with x. *)
LEMMA SegTip ==
    ASSUME NEW x \in Points, NEW a \in 0 .. Height(x)
    PROVE  /\ Seg(a, x) = <<>> <=> a = Height(x)
           /\ a < Height(x) => TipOf(Seg(a, x)) = x /\ x \in Blocks
           /\ TipOf(PathTo[x]) = x
<1>1. Height(x) \in Nat /\ a \in Nat /\ a <= Height(x)
  BY Heights
<1>2. /\ Seg(a, x) \in Seq(Blocks)
      /\ Len(Seg(a, x)) = Height(x) - a
      /\ \A k \in 1 .. Height(x) - a : Seg(a, x)[k] = At(x, a + k)
  BY SegFacts
<1>3. At(x, Height(x)) = x
  BY ChainRefl, OnChainAt
<1> HIDE DEF Seg
<1>4. Seg(a, x) = <<>> <=> a = Height(x)
  BY <1>1, <1>2
<1>5. ASSUME a < Height(x) PROVE TipOf(Seg(a, x)) = x /\ x \in Blocks
  <2>1. Height(x) - a \in 1 .. Height(x) - a /\ a + (Height(x) - a) = Height(x)
    BY <1>1, <1>5
  <2>2. Seg(a, x)[Len(Seg(a, x))] = x
    BY <1>2, <1>3, <2>1
  <2>3. Seg(a, x) # <<>>
    BY <1>1, <1>4, <1>5
  <2>4. x # Origin
    BY <1>1, <1>5, Heights
  <2> QED BY <2>2, <2>3, <2>4 DEF TipOf, Points
<1>6. TipOf(PathTo[x]) = x
  <2>1. PathTo[x] \in Seq(Blocks) /\ Len(PathTo[x]) = Height(x)
    BY Heights
  <2>2. CASE x = Origin
    BY <2>1, <2>2, Heights, Paths DEF TipOf
  <2>3. CASE x # Origin
    <3>1. x \in Blocks /\ Height(x) > 0 /\ PathTo[x][Height(x)] = x
      BY <2>3, Heights DEF Points
    <3>2. PathTo[x] # <<>>
      BY <2>1, <3>1
    <3> QED BY <2>1, <3>1, <3>2 DEF TipOf
  <2> QED BY <2>2, <2>3
<1> QED BY <1>4, <1>5, <1>6

(* The blocks it holds. *)
LEMMA SegHolds ==
    ASSUME NEW x \in Points, NEW a \in 0 .. Height(x)
    PROVE  /\ ToSet(Seg(a, x)) \subseteq Blocks
           /\ \A b \in Points : b \in ToSet(Seg(a, x)) <=> OnChain(b, x) /\ Height(b) > a
           /\ \A b \in ToSet(Seg(a, x)) : Position(Seg(a, x), b) = Height(b) - a
<1> DEFINE s == Seg(a, x)
           n == Height(x) - a
<1>1. Height(x) \in Nat /\ a \in Nat /\ a <= Height(x) /\ n \in Nat
  BY Heights
<1>2. s \in Seq(Blocks) /\ Len(s) = n /\ \A k \in 1 .. n : s[k] = At(x, a + k)
  BY SegFacts
<1>3. \A k \in 1 .. n : a + k \in 0 .. Height(x) /\ a + k > a
  BY <1>1
<1> HIDE DEF s, n
<1>4. \A k \in 1 .. n : s[k] \in Points /\ Height(s[k]) = a + k /\ OnChain(s[k], x) /\ s[k] \in Blocks
  BY <1>2, <1>3, Ancestor
<1>5. ToSet(s) = {s[k] : k \in 1 .. n}
  BY <1>2 DEF ToSet
<1>6. ToSet(s) \subseteq Blocks
  BY <1>4, <1>5
<1>7. ASSUME NEW b \in ToSet(s) PROVE OnChain(b, x) /\ Height(b) > a /\ Position(s, b) = Height(b) - a
  <2>1. PICK k \in 1 .. n : b = s[k]
    BY <1>5
  <2>2. OnChain(b, x) /\ Height(b) > a
    BY <2>1, <1>3, <1>4
  <2>3. \E j \in 1 .. Len(s) : s[j] = b
    BY <2>1, <1>2
  <2>4. Position(s, b) \in 1 .. n /\ s[Position(s, b)] = b
    BY <2>3, <1>2 DEF Position
  <2>5. Height(b) = a + Position(s, b)
    BY <2>4, <1>4
  <2> QED BY <2>2, <2>4, <2>5, <1>1
<1>8. ASSUME NEW b \in Points, OnChain(b, x), Height(b) > a PROVE b \in ToSet(s)
  <2>1. Height(b) \in Nat /\ Height(b) <= Height(x) /\ At(x, Height(b)) = b
    BY <1>8, Heights, OnChainAt
  <2>2. Height(b) - a \in 1 .. n /\ a + (Height(b) - a) = Height(b)
    BY <2>1, <1>1, <1>8 DEF n
  <2>3. s[Height(b) - a] = b
    BY <2>1, <2>2, <1>2
  <2> QED BY <2>2, <2>3, <1>5
<1> QED BY <1>6, <1>7, <1>8 DEF s

(* Cutting it at one of its blocks. *)
LEMMA SegCut ==
    ASSUME NEW x \in Points, NEW a \in 0 .. Height(x), NEW b \in ToSet(Seg(a, x))
    PROVE  UpTo(Seg(a, x), b) = Seg(a, b) /\ After(Seg(a, x), b) = Seg(Height(b), x)
<1> DEFINE s == Seg(a, x)
           h == Height(b)
<1>1. b \in Points /\ OnChain(b, x) /\ h > a /\ Position(s, b) = h - a
  BY SegHolds DEF Points
<1>2. Height(x) \in Nat /\ a \in Nat /\ h \in Nat /\ h <= Height(x) /\ At(x, h) = b
  BY <1>1, Heights, OnChainAt
<1>3. s \in Seq(Blocks) /\ Len(s) = Height(x) - a /\ \A k \in 1 .. Height(x) - a : s[k] = At(x, a + k)
  BY SegFacts
<1>4. UpTo(s, b) = SubSeq(s, 1, h - a) /\ After(s, b) = SubSeq(s, h - a + 1, Len(s))
  BY <1>1 DEF UpTo, After
<1> HIDE DEF s
<1>5. SubSeq(s, 1, h - a) = Seg(a, b)
  <2>1. a \in 0 .. Height(b) /\ h - a \in 1 .. Len(s)
    BY <1>1, <1>2, <1>3
  <2>2. SubSeq(s, 1, h - a) \in Seq(Blocks) /\ Len(SubSeq(s, 1, h - a)) = h - a
        /\ \A k \in 1 .. h - a : SubSeq(s, 1, h - a)[k] = s[k]
    BY <2>1, <1>2, <1>3
  <2>3. ASSUME NEW k \in 1 .. h - a PROVE s[k] = At(b, a + k)
    <3>1. a + k \in 0 .. h /\ k \in 1 .. Height(x) - a
      BY <1>1, <1>2
    <3>2. At(b, a + k) = At(x, a + k)
      BY <3>1, <1>1, AtBelow
    <3> QED BY <3>1, <3>2, <1>3
  <2>4. \A k \in 1 .. Height(b) - a : SubSeq(s, 1, h - a)[k] = At(b, a + k)
    BY <2>2, <2>3
  <2>5. Len(SubSeq(s, 1, h - a)) = Height(b) - a
    BY <2>2
  <2> HIDE DEF h
  <2> QED BY <2>1, <2>2, <2>4, <2>5, <1>1, SegIs
<1>6. SubSeq(s, h - a + 1, Len(s)) = Seg(h, x)
  <2>1. h \in 0 .. Height(x) /\ h - a \in Nat /\ h - a <= Len(s) /\ Len(s) \in Nat
    BY <1>1, <1>2, <1>3
  <2>2. PICK c, y : c = h - a /\ y = Len(s)
    OBVIOUS
  <2>3. Piece(s, SubSeq(s, c + 1, y), c, Blocks) /\ Len(SubSeq(s, c + 1, y)) = y - c
    BY <2>1, <2>2, <1>3, PieceOfWhole
  <2>4. y - c = Height(x) - h /\ c \in Nat /\ y = Height(x) - a
    BY <2>1, <2>2, <1>2, <1>3
  <2> DEFINE r == SubSeq(s, c + 1, y)
  <2>5. r \in Seq(Blocks) /\ Len(r) = Height(x) - h /\ \A k \in 1 .. Height(x) - h : r[k] = s[c + k]
    BY <2>3, <2>4 DEF Piece
  <2> HIDE DEF r
  <2>6. ASSUME NEW k \in 1 .. Height(x) - h PROVE r[k] = At(x, h + k)
    <3>1. c + k \in 1 .. Height(x) - a /\ a + (c + k) = h + k
      BY <2>2, <2>4, <1>1, <1>2
    <3> QED BY <3>1, <2>5, <1>3
  <2>7. r = Seg(h, x)
    BY <2>1, <2>5, <2>6, SegIs
  <2> QED BY <2>2, <2>7 DEF r
<1> QED BY <1>4, <1>5, <1>6 DEF s

(* Two ends of a chain, one after the other. *)
LEMMA SegJoin ==
    ASSUME NEW x \in Points, NEW y \in Points, OnChain(x, y), NEW a \in 0 .. Height(x)
    PROVE  Seg(a, x) \o Seg(Height(x), y) = Seg(a, y)
<1> DEFINE h == Height(x)
           s == Seg(a, x)
           r == Seg(h, y)
<1>1. h \in Nat /\ a \in Nat /\ a <= h /\ Height(y) \in Nat /\ h <= Height(y)
  BY Heights, OnChainAt
<1>2. h \in 0 .. Height(y) /\ a \in 0 .. Height(y)
  BY <1>1
<1>3. s \in Seq(Blocks) /\ Len(s) = h - a /\ \A k \in 1 .. h - a : s[k] = At(x, a + k)
  BY SegFacts
<1>4. r \in Seq(Blocks) /\ Len(r) = Height(y) - h /\ \A k \in 1 .. Height(y) - h : r[k] = At(y, h + k)
  BY <1>2, SegFacts
<1>5. ASSUME NEW k \in 1 .. h - a PROVE s[k] = At(y, a + k)
  <2>1. a + k \in 0 .. Height(x)
    BY <1>1
  <2>2. At(x, a + k) = At(y, a + k)
    BY <2>1, AtBelow
  <2> QED BY <2>2, <1>3
<1> HIDE DEF s, r, h
<1>0. s \in Seq(Blocks) /\ r \in Seq(Blocks) /\ Len(s) = h - a /\ Len(r) = Height(y) - h
  BY <1>3, <1>4
<1>6. s \o r \in Seq(Blocks) /\ Len(s \o r) = Height(y) - a
  BY <1>0, <1>1
<1>7. ASSUME NEW k \in 1 .. Height(y) - a PROVE (s \o r)[k] = At(y, a + k)
  <2>1. CASE k <= h - a
    <3>1. k \in 1 .. h - a
      BY <2>1, <1>1
    <3>2. (s \o r)[k] = s[k]
      BY <3>1, <1>3, <1>4
    <3> QED BY <3>1, <3>2, <1>5
  <2>2. CASE ~(k <= h - a)
    <3>1. k - (h - a) \in 1 .. Height(y) - h /\ h + (k - (h - a)) = a + k
      BY <2>2, <1>1
    <3>2. (s \o r)[k] = r[k - (h - a)]
      BY <2>2, <3>1, <1>1, <1>0
    <3> QED BY <3>1, <3>2, <1>4
  <2> QED BY <2>1, <2>2
<1>8. s \o r = Seg(a, y)
  BY <1>2, <1>6, <1>7, SegIs
<1> QED BY <1>8 DEF s, r, h

(* Its first block, and the rest. *)
LEMMA SegHead ==
    ASSUME NEW x \in Points, NEW a \in Nat, a < Height(x)
    PROVE  /\ Head(Seg(a, x)) = At(x, a + 1) /\ Tail(Seg(a, x)) = Seg(a + 1, x)
           /\ At(x, a + 1) \in Blocks /\ Height(At(x, a + 1)) = a + 1 /\ OnChain(At(x, a + 1), x)
           /\ Parent[At(x, a + 1)] = At(x, a)
<1>1. Height(x) \in Nat /\ a \in 0 .. Height(x) /\ a + 1 \in 0 .. Height(x) /\ a + 1 \in 1 .. Height(x)
  BY Heights
<1>2. /\ Seg(a, x) \in Seq(Blocks)
      /\ Len(Seg(a, x)) = Height(x) - a
      /\ \A k \in 1 .. Height(x) - a : Seg(a, x)[k] = At(x, a + k)
  BY <1>1, SegFacts
<1>3. Height(At(x, a + 1)) = a + 1 /\ OnChain(At(x, a + 1), x)
  BY <1>1, Ancestor
<1>4. At(x, a + 1) = PathTo[x][a + 1]
  BY <1>1 DEF At
<1>5. At(x, a + 1) \in Blocks /\ Parent[At(x, a + 1)] = IF a + 1 = 1 THEN Origin ELSE PathTo[x][(a + 1) - 1]
  BY <1>1, <1>4, OnPath
<1>6. Parent[At(x, a + 1)] = At(x, a)
  <2>1. (a + 1 = 1 <=> a = 0) /\ (a + 1) - 1 = a
    BY <1>1
  <2> QED BY <1>5, <2>1 DEF At
<1> HIDE DEF Seg
<1> DEFINE s == Seg(a, x)
<1>7. 1 \in 1 .. Height(x) - a /\ Len(s) \in Nat /\ Len(s) > 0
  BY <1>1, <1>2
<1>8. Head(s) = At(x, a + 1) /\ Tail(s) \in Seq(Blocks) /\ Len(Tail(s)) = Len(s) - 1
      /\ \A k \in 1 .. Len(s) - 1 : Tail(s)[k] = s[k + 1]
  BY <1>2, <1>7
<1>9. Len(Tail(s)) = Height(x) - (a + 1)
  BY <1>1, <1>2, <1>8
<1>10. ASSUME NEW k \in 1 .. Height(x) - (a + 1) PROVE Tail(s)[k] = At(x, (a + 1) + k)
  <2>1. k + 1 \in 1 .. Height(x) - a /\ a + (k + 1) = (a + 1) + k /\ k \in 1 .. Len(s) - 1
    BY <1>1, <1>2
  <2> QED BY <2>1, <1>2, <1>8
<1>11. Tail(s) = Seg(a + 1, x)
  <2> HIDE DEF s
  <2> QED BY <1>1, <1>8, <1>9, <1>10, SegIs
<1> QED BY <1>3, <1>5, <1>6, <1>8, <1>11

(* A block added to its parent. *)
LEMMA SegAppend ==
    ASSUME NEW b \in Blocks, NEW x \in Points, OnChain(x, b), Height(b) = Height(x) + 1,
           NEW a \in 0 .. Height(x)
    PROVE  Append(Seg(a, x), b) = Seg(a, b)
<1>1. Height(x) \in Nat /\ a \in Nat /\ a <= Height(x) /\ b \in Points
  BY Heights
<1>2. /\ Seg(a, x) \in Seq(Blocks)
      /\ Len(Seg(a, x)) = Height(x) - a
      /\ \A k \in 1 .. Height(x) - a : Seg(a, x)[k] = At(x, a + k)
  BY SegFacts
<1> DEFINE s == Seg(a, x)
<1> HIDE DEF s
<1>3. s \in Seq(Blocks) /\ Len(s) = Height(x) - a
  BY <1>2 DEF s
<1>4. Append(s, b) \in Seq(Blocks) /\ Len(Append(s, b)) = Height(b) - a /\ a \in 0 .. Height(b)
  BY <1>1, <1>3
<1>5. ASSUME NEW k \in 1 .. Height(b) - a PROVE Append(s, b)[k] = At(b, a + k)
  <2>1. CASE k = Height(b) - a
    <3>1. a + k = Height(b) /\ k = Len(s) + 1
      BY <2>1, <1>1, <1>3
    <3>2. At(b, Height(b)) = b
      BY <1>1, ChainRefl, OnChainAt
    <3> QED BY <3>1, <3>2, <1>3
  <2>2. CASE k # Height(b) - a
    <3>1. k \in 1 .. Height(x) - a /\ a + k \in 0 .. Height(x)
      BY <2>2, <1>1
    <3>2. At(x, a + k) = At(b, a + k)
      BY <3>1, <1>1, AtBelow
    <3>3. Append(s, b)[k] = s[k]
      BY <3>1, <1>3
    <3>4. s[k] = At(x, a + k)
      BY <3>1, <1>2 DEF s
    <3> QED BY <3>2, <3>3, <3>4
  <2> QED BY <2>1, <2>2
<1>6. Append(s, b) = Seg(a, b)
  BY <1>1, <1>4, <1>5, SegIs
<1> QED BY <1>6 DEF s

-----------------------------------------------------------------------------
(* The operators of ChainTree, ChainState and SyncPipeline on ends of      *)
(* chains.                                                                 *)

(* The first n of its blocks, and the others. *)
LEMMA SegSplit ==
    ASSUME NEW x \in Points, NEW a \in 0 .. Height(x), NEW n \in 1 .. Height(x) - a
    PROVE  /\ SubSeq(Seg(a, x), 1, n) = Seg(a, At(x, a + n))
           /\ SubSeq(Seg(a, x), n + 1, Len(Seg(a, x))) = Seg(a + n, x)
           /\ At(x, a + n) \in ToSet(Seg(a, x))
<1> DEFINE b == At(x, a + n)
<1>1. Height(x) \in Nat /\ a \in Nat /\ n \in Nat /\ a + n \in 0 .. Height(x) /\ a + n > a /\ (a + n) - a = n
  BY Heights
<1>2. b \in Points /\ Height(b) = a + n /\ OnChain(b, x)
  BY <1>1, Ancestor
<1>3. b \in ToSet(Seg(a, x))
  BY <1>1, <1>2, SegHolds
<1>4. Position(Seg(a, x), b) = n
  BY <1>1, <1>2, <1>3, SegHolds
<1>5. UpTo(Seg(a, x), b) = Seg(a, b) /\ After(Seg(a, x), b) = Seg(Height(b), x)
  BY <1>3, SegCut
<1> QED BY <1>2, <1>3, <1>4, <1>5 DEF UpTo, After

(* LastK and StableEntries: where a window of at most k entries begins. *)
Edge(a, x) == IF Height(x) - a > K THEN Height(x) - K ELSE a

(* ChainState on a piece of a chain: the window and the stable entries. *)
LEMMA SegWindow ==
    ASSUME NEW x \in Points, NEW a \in 0 .. Height(x)
    PROVE  /\ LastK(Seg(a, x)) = Seg(Edge(a, x), x)
           /\ Edge(a, x) \in a .. Height(x) /\ Edge(a, x) + K >= Height(x)
           /\ a < Height(x) => Edge(a, x) < Height(x)
           /\ StableEntries(Seg(a, x)) = IF Edge(a, x) = a THEN <<>> ELSE Seg(a, At(x, Edge(a, x)))
           /\ Edge(a, x) # a => Edge(a, x) = Height(x) - K
<1>1. Height(x) \in Nat /\ a \in Nat /\ a <= Height(x) /\ K \in Nat /\ K > 0
  BY Heights, SecurityParamAssumption
<1>2. Len(Seg(a, x)) = Height(x) - a
  BY SegFacts
<1>3. CASE Height(x) - a > K
  <2>1. PICK n : n = (Height(x) - a) - K
    OBVIOUS
  <2>2. n \in 1 .. Height(x) - a /\ Height(x) - a - K + 1 = n + 1 /\ a + n = Height(x) - K /\ n > 0
    BY <1>1, <1>3, <2>1
  <2>3. SubSeq(Seg(a, x), 1, n) = Seg(a, At(x, a + n))
        /\ SubSeq(Seg(a, x), n + 1, Len(Seg(a, x))) = Seg(a + n, x)
    BY <2>2, SegSplit
  <2>4. Edge(a, x) = Height(x) - K
    BY <1>3 DEF Edge
  <2>5. LastK(Seg(a, x)) = SubSeq(Seg(a, x), n + 1, Len(Seg(a, x)))
    <3>1. LastK(Seg(a, x)) = SubSeq(Seg(a, x), (Height(x) - a) - K + 1, Len(Seg(a, x)))
      BY <1>2, <1>3 DEF LastK
    <3> QED BY <3>1, <2>1
  <2>6. StableEntries(Seg(a, x)) = SubSeq(Seg(a, x), 1, n)
    <3>1. StableEntries(Seg(a, x)) = SubSeq(Seg(a, x), 1, (Height(x) - a) - K)
      BY <1>2, <1>3 DEF StableEntries
    <3> QED BY <3>1, <2>1
  <2>7. Edge(a, x) # a /\ Edge(a, x) \in a .. Height(x) /\ Edge(a, x) + K >= Height(x) /\ Edge(a, x) < Height(x)
    BY <2>4, <1>1, <1>3
  <2>8. a + n = Edge(a, x)
    BY <2>2, <2>4
  <2> QED BY <2>3, <2>4, <2>5, <2>6, <2>7, <2>8
<1>4. CASE ~(Height(x) - a > K)
  <2>1. Edge(a, x) = a
    BY <1>4 DEF Edge
  <2>2. LastK(Seg(a, x)) = Seg(a, x) /\ StableEntries(Seg(a, x)) = <<>>
    BY <1>2, <1>4 DEF LastK, StableEntries
  <2>3. a \in a .. Height(x) /\ a + K >= Height(x)
    BY <1>1, <1>4
  <2> QED BY <2>1, <2>2, <2>3
<1> QED BY <1>3, <1>4

(* An end of a chain that begins higher is a suffix of it. *)
LEMMA SegSuffix ==
    ASSUME NEW x \in Points, NEW a \in 0 .. Height(x), NEW c \in a .. Height(x)
    PROVE  IsSuffix(Seg(c, x), Seg(a, x))
<1> DEFINE s == Seg(c, x)
           r == Seg(a, x)
           n == Height(x) - c
           m == Height(x) - a
<1>1. Height(x) \in Nat /\ a \in Nat /\ c \in Nat /\ c \in 0 .. Height(x) /\ n \in Nat /\ m \in Nat /\ n <= m
  BY Heights
<1>2. s \in Seq(Blocks) /\ Len(s) = n /\ \A k \in 1 .. n : s[k] = At(x, c + k)
  BY <1>1, SegFacts
<1>3. r \in Seq(Blocks) /\ Len(r) = m /\ \A k \in 1 .. m : r[k] = At(x, a + k)
  BY <1>1, SegFacts
<1> HIDE DEF s, r
<1>4. ASSUME NEW i \in 1 .. n PROVE s[(n - i) + 1] = r[(m - i) + 1]
  <2>1. (n - i) + 1 \in 1 .. n /\ (m - i) + 1 \in 1 .. m /\ c + ((n - i) + 1) = a + ((m - i) + 1)
    BY <1>1
  <2> QED BY <2>1, <1>2, <1>3
<1> DEFINE u == Reverse(s)
           v == Reverse(r)
<1>5. u = [i \in 1 .. n |-> s[(n - i) + 1]] /\ v = [i \in 1 .. m |-> r[(m - i) + 1]]
  BY <1>2, <1>3 DEF Reverse
<1> HIDE DEF n, m
<1>6. u \in Seq(Blocks) /\ Len(u) = n /\ \A i \in 1 .. n : u[i] = s[(n - i) + 1]
  <2>1. \A i \in 1 .. n : (n - i) + 1 \in 1 .. n
    BY <1>1
  <2>2. \A i \in 1 .. n : s[(n - i) + 1] \in Blocks
    BY <2>1, <1>2
  <2>3. u \in [1 .. n -> Blocks] /\ \A i \in 1 .. n : u[i] = s[(n - i) + 1]
    BY <1>5, <2>2
  <2> HIDE DEF u
  <2> QED BY <2>3, <1>1
<1>7. v \in Seq(Blocks) /\ Len(v) = m /\ \A i \in 1 .. m : v[i] = r[(m - i) + 1]
  <2>1. \A i \in 1 .. m : (m - i) + 1 \in 1 .. m
    BY <1>1
  <2>2. \A i \in 1 .. m : r[(m - i) + 1] \in Blocks
    BY <2>1, <1>3
  <2>3. v \in [1 .. m -> Blocks] /\ \A i \in 1 .. m : v[i] = r[(m - i) + 1]
    BY <1>5, <2>2
  <2> HIDE DEF v
  <2> QED BY <2>3, <1>1
<1> HIDE DEF u, v
<1>8. \A i \in 1 .. n : u[i] = v[i]
  BY <1>1, <1>4, <1>6, <1>7
<1>9. SubSeq(u, 1, Len(u)) = SubSeq(v, 1, Len(u))
  BY <1>1, <1>6, <1>7, <1>8
<1>10. IsPrefix(u, v)
  BY <1>1, <1>6, <1>7, <1>9 DEF IsPrefix
<1> QED BY <1>10 DEF IsSuffix, u, v, s, r

(* The last point two chains share. *)
LEMMA Common ==
    ASSUME NEW p \in Points, NEW q \in Points
    PROVE  /\ CommonAncestor(p, q) \in Points
           /\ OnChain(CommonAncestor(p, q), p) /\ OnChain(CommonAncestor(p, q), q)
           /\ \A z \in Points : OnChain(z, p) /\ OnChain(z, q) => OnChain(z, CommonAncestor(p, q))
<1> DEFINE s == PathTo[p]
           T == ToSet(PathTo[q])
           r == Retain(s, T)
           c == CommonAncestor(p, q)
<1>1. s \in Seq(Blocks) /\ Len(s) = Height(p) /\ Height(p) \in Nat
  BY Heights
<1>2. r \in Seq(Blocks) /\ Selection(r, s, Len(s), T)
  BY <1>1, RetainSelects
<1>3. PICK h : Selects(h, r, s, Len(s), T)
  BY <1>2 DEF Selection
<1> DEFINE n == Len(r)
<1>4. /\ h \in [1 .. n -> 1 .. Height(p)]
      /\ \A j, k \in 1 .. n : j < k => h[j] < h[k]
      /\ \A k \in 1 .. n : r[k] = s[h[k]] /\ r[k] \in T
      /\ \A i \in 1 .. Height(p) : s[i] \in T => \E k \in 1 .. n : h[k] = i
  BY <1>1, <1>3 DEF Selects
<1>5. c = IF r = <<>> THEN Origin ELSE r[n]
  BY DEF CommonAncestor, TipOf
<1>6. n \in Nat /\ (r = <<>> <=> n = 0)
  BY <1>2
<1>7. \A i \in 1 .. Height(p) : s[i] = At(p, i)
  BY <1>1 DEF At
<1> HIDE DEF s, r, n, c
<1>8. ASSUME NEW z \in Points, OnChain(z, p), OnChain(z, q), z # Origin
      PROVE  Height(z) \in 1 .. Height(p) /\ n # 0 /\ \E k \in 1 .. n : h[k] = Height(z)
  <2>1. z \in Blocks /\ Height(z) \in 1 .. Height(p) /\ At(p, Height(z)) = z
    <3>1. z \in Blocks /\ Height(z) <= Height(p) /\ At(p, Height(z)) = z
      BY <1>8, OnChainAt DEF Points
    <3> QED BY <3>1, <1>1, Heights
  <2>2. z \in T
    BY <1>8 DEF OnChain
  <2>3. s[Height(z)] = z
    BY <2>1, <1>7
  <2>4. \E k \in 1 .. n : h[k] = Height(z)
    BY <2>1, <2>2, <2>3, <1>4
  <2> QED BY <2>1, <2>4, <1>6
<1>9. CASE n = 0
  <2>1. c = Origin
    BY <1>5, <1>6, <1>9
  <2>2. \A z \in Points : OnChain(z, p) /\ OnChain(z, q) => z = Origin
    BY <1>8, <1>9
  <2> QED BY <2>1, <2>2, ChainRefl, Heights DEF c
<1>10. CASE n # 0
  <2>1. n \in 1 .. n /\ c = r[n]
    BY <1>5, <1>6, <1>10
  <2>2. h[n] \in 1 .. Height(p) /\ c = s[h[n]] /\ c \in T
    BY <2>1, <1>4
  <2>3. c = At(p, h[n]) /\ h[n] \in 0 .. Height(p)
    BY <2>2, <1>1, <1>7
  <2>4. c \in Points /\ Height(c) = h[n] /\ OnChain(c, p)
    BY <2>3, Ancestor
  <2>5. OnChain(c, q)
    BY <2>2 DEF OnChain
  <2>6. ASSUME NEW z \in Points, OnChain(z, p), OnChain(z, q) PROVE OnChain(z, c)
    <3>1. CASE z = Origin
      BY <3>1 DEF OnChain
    <3>2. CASE z # Origin
      <4>1. PICK k \in 1 .. n : h[k] = Height(z)
        BY <2>6, <3>2, <1>8
      <4>2. h[k] <= h[n]
        <5>1. k < n \/ k = n
          BY <2>1
        <5>2. h[k] \in Nat /\ h[n] \in Nat
          BY <2>1, <1>4
        <5> QED BY <5>1, <5>2, <2>1, <1>4
      <4>3. Height(z) <= Height(c)
        BY <2>4, <4>1, <4>2
      <4> QED BY <2>4, <2>6, <4>3, ChainLinear
    <3> QED BY <3>1, <3>2
  <2> QED BY <2>4, <2>5, <2>6 DEF c
<1> QED BY <1>9, <1>10

(* How many blocks of a store come before b. *)
Rank(S, b) == Cardinality({c \in S : Slot[c] < Slot[b]})

(* Blocks with different slots have different ranks. *)
LEMMA RankOrders ==
    ASSUME NEW S \in SUBSET Blocks
    PROVE  /\ \A b \in S : Rank(S, b) \in 0 .. Cardinality(S) - 1
           /\ \A b, c \in S : Slot[b] < Slot[c] => Rank(S, b) < Rank(S, c)
           /\ \A b, c \in S : Rank(S, b) = Rank(S, c) => b = c
           /\ IsFiniteSet(S) /\ Cardinality(S) \in Nat
<1> DEFINE L(b) == {d \in S : Slot[d] < Slot[b]}
<1>1. IsFiniteSet(S) /\ Cardinality(S) \in Nat
  BY ChainTreeAssumption, FS_Subset, FS_CardinalityType
<1>2. \A b \in S : Slot[b] \in Nat
  BY ChainTreeAssumption
<1>3. ASSUME NEW X \in SUBSET S, NEW Y \in SUBSET S, X \subseteq Y, NEW y \in Y, y \notin X
      PROVE  Cardinality(X) \in Nat /\ Cardinality(Y) \in Nat /\ Cardinality(X) < Cardinality(Y)
  <2>1. IsFiniteSet(X) /\ IsFiniteSet(Y) /\ Cardinality(X) \in Nat /\ Cardinality(Y) \in Nat
    BY <1>1, FS_Subset, FS_CardinalityType
  <2>2. X \in SUBSET Y
    BY <1>3
  <2>3. Cardinality(X) <= Cardinality(Y) /\ (Cardinality(Y) = Cardinality(X) => Y = X)
    BY <2>1, <2>2, FS_Subset
  <2>4. X # Y
    BY <1>3
  <2> QED BY <2>1, <2>3, <2>4
<1>4. ASSUME NEW b \in S PROVE Rank(S, b) \in 0 .. Cardinality(S) - 1
  <2>1. L(b) \in SUBSET S /\ b \notin L(b)
    BY <1>2
  <2>2. Cardinality(L(b)) \in Nat /\ Cardinality(L(b)) < Cardinality(S)
    BY <2>1, <1>3
  <2>3. Rank(S, b) = Cardinality(L(b))
    BY DEF Rank
  <2> QED BY <2>2, <2>3, <1>1
<1>5. ASSUME NEW b \in S, NEW c \in S, Slot[b] < Slot[c] PROVE Rank(S, b) < Rank(S, c)
  <2>1. L(b) \in SUBSET S /\ L(c) \in SUBSET S /\ b \notin L(b) /\ b \in L(c) /\ L(b) \subseteq L(c)
    BY <1>2, <1>5
  <2>2. Cardinality(L(b)) < Cardinality(L(c))
    BY <2>1, <1>3
  <2> QED BY <2>2 DEF Rank
<1>6. ASSUME NEW b \in S, NEW c \in S, Rank(S, b) = Rank(S, c) PROVE b = c
  <2>1. Rank(S, b) \in Nat /\ Rank(S, c) \in Nat
    BY <1>1, <1>4
  <2>2. ~(Slot[b] < Slot[c]) /\ ~(Slot[c] < Slot[b])
    BY <2>1, <1>5, <1>6
  <2>3. Slot[b] = Slot[c]
    BY <2>2, <1>2
  <2> QED BY <2>3, SyncPipelineAssumption
<1> QED BY <1>1, <1>4, <1>5, <1>6

(* BySlot returns the blocks of the store, each at its rank. *)
LEMMA BySlotFacts ==
    ASSUME NEW S \in SUBSET Blocks
    PROVE  /\ BySlot(S) \in Seq(Blocks) /\ Len(BySlot(S)) = Cardinality(S) /\ Cardinality(S) \in Nat
           /\ \A i \in 1 .. Cardinality(S) : BySlot(S)[i] \in S /\ Rank(S, BySlot(S)[i]) = i - 1
           /\ ToSet(BySlot(S)) = S
<1> DEFINE n == Cardinality(S)
           f == [b \in S |-> Rank(S, b)]
           r == BySlot(S)
<1>1. /\ \A b \in S : Rank(S, b) \in 0 .. n - 1
      /\ \A b, c \in S : Rank(S, b) = Rank(S, c) => b = c
      /\ IsFiniteSet(S) /\ n \in Nat
  BY RankOrders
<1>2. f \in Injection(S, 0 .. n - 1)
  BY <1>1 DEF Injection, IsInjective
<1>3. IsFiniteSet(0 .. n - 1) /\ Cardinality(0 .. n - 1) = n
  <2>1. 0 \in Int /\ n - 1 \in Int /\ (0 > n - 1 <=> n = 0) /\ (n - 1) - 0 + 1 = n
    BY <1>1
  <2>2. IsFiniteSet(0 .. n - 1) /\ Cardinality(0 .. n - 1) = IF 0 > n - 1 THEN 0 ELSE (n - 1) - 0 + 1
    BY <2>1, FS_Interval
  <2> QED BY <2>1, <2>2
<1>4. f \in Surjection(S, 0 .. n - 1)
  <2> HIDE DEF f
  <2> QED BY <1>2, <1>3, FS_Injection
<1>5. \A j \in 0 .. n - 1 : \E b \in S : Rank(S, b) = j
  BY <1>4 DEF Surjection
<1>6. \A i \in 1 .. n : i - 1 \in 0 .. n - 1
  BY <1>1
<1>7. r = [i \in 1 .. n |-> CHOOSE b \in S : Rank(S, b) = i - 1]
  BY DEF BySlot, Rank
<1> HIDE DEF r, n
<1>8. ASSUME NEW i \in 1 .. n PROVE r[i] \in S /\ Rank(S, r[i]) = i - 1
  <2>1. \E b \in S : Rank(S, b) = i - 1
    BY <1>5, <1>6
  <2>2. r[i] = CHOOSE b \in S : Rank(S, b) = i - 1
    BY <1>7
  <2> QED BY <2>1, <2>2
<1>9. r \in [1 .. n -> Blocks]
  BY <1>7, <1>8
<1>10. r \in Seq(Blocks) /\ Len(r) = n
  BY <1>1, <1>9
<1>11. ToSet(r) = S
  <2>1. ToSet(r) = {r[i] : i \in 1 .. n}
    BY <1>10 DEF ToSet
  <2>2. ASSUME NEW b \in S PROVE \E i \in 1 .. n : r[i] = b
    <3>1. Rank(S, b) \in 0 .. n - 1
      BY <1>1
    <3>2. Rank(S, b) + 1 \in 1 .. n /\ (Rank(S, b) + 1) - 1 = Rank(S, b)
      BY <3>1, <1>1
    <3>3. r[Rank(S, b) + 1] \in S /\ Rank(S, r[Rank(S, b) + 1]) = Rank(S, b)
      BY <3>2, <1>8
    <3>4. r[Rank(S, b) + 1] = b
      BY <3>3, <1>1
    <3> QED BY <3>2, <3>4
  <2> QED BY <2>1, <2>2, <1>8
<1> QED BY <1>1, <1>8, <1>10, <1>11 DEF r, n

(* The rank of a block in an end of a chain. *)
LEMMA SegRank ==
    ASSUME NEW x \in Points, NEW a \in 0 .. Height(x), NEW k \in 1 .. Height(x) - a
    PROVE  Rank(ToSet(Seg(a, x)), At(x, a + k)) = k - 1
<1> DEFINE S == ToSet(Seg(a, x))
           b == At(x, a + k)
           L == {c \in S : Slot[c] < Slot[b]}
           f == [j \in 1 .. k - 1 |-> At(x, a + j)]
<1>1. Height(x) \in Nat /\ a \in Nat /\ k \in Nat /\ k - 1 \in Nat
  BY Heights
<1>2. \A j \in 1 .. k : a + j \in 0 .. Height(x) /\ a + j > a /\ a + j \in Nat
  BY <1>1
<1>3. \A j \in 1 .. k : At(x, a + j) \in Points /\ Height(At(x, a + j)) = a + j /\ OnChain(At(x, a + j), x)
  BY <1>2, Ancestor
<1>4. /\ S \subseteq Blocks
      /\ \A c \in Points : c \in S <=> OnChain(c, x) /\ Height(c) > a
  BY SegHolds
<1>5. \A j \in 1 .. k : At(x, a + j) \in S
  BY <1>2, <1>3, <1>4
<1>6. k \in 1 .. k /\ b \in S /\ b \in Blocks /\ Height(b) = a + k /\ OnChain(b, x)
  <2>1. k \in 1 .. k
    BY <1>1
  <2> QED BY <2>1, <1>3, <1>4, <1>5
<1>7. \A c \in S : Slot[c] < Slot[b] <=> Height(c) < a + k
  <2> SUFFICES ASSUME NEW c \in S PROVE Slot[c] < Slot[b] <=> Height(c) < a + k
    OBVIOUS
  <2>1. c \in Blocks /\ c \in Points /\ OnChain(c, x)
    BY <1>4 DEF Points
  <2> QED BY <2>1, <1>6, ChainSlots
<1> HIDE DEF S, b
<1>8. ASSUME NEW j \in 1 .. k - 1 PROVE f[j] \in L /\ Height(f[j]) = a + j
  <2>1. j \in 1 .. k /\ a + j < a + k
    BY <1>1
  <2>2. f[j] = At(x, a + j)
    OBVIOUS
  <2> QED BY <2>1, <2>2, <1>3, <1>5, <1>7
<1>9. ASSUME NEW c \in L PROVE \E j \in 1 .. k - 1 : f[j] = c
  <2>1. c \in Points /\ c \in S /\ OnChain(c, x) /\ Height(c) > a /\ Height(c) < a + k
    BY <1>4, <1>7 DEF Points
  <2>2. Height(c) \in Nat /\ At(x, Height(c)) = c
    BY <2>1, Heights, OnChainAt
  <2>3. Height(c) - a \in 1 .. k - 1 /\ a + (Height(c) - a) = Height(c)
    BY <2>1, <2>2, <1>1
  <2>4. f[Height(c) - a] = c
    BY <2>2, <2>3
  <2> QED BY <2>3, <2>4
<1>10. f \in [1 .. k - 1 -> L]
  BY <1>8
<1> HIDE DEF f, L
<1>11. \A i, j \in 1 .. k - 1 : f[i] = f[j] => i = j
  <2> SUFFICES ASSUME NEW i \in 1 .. k - 1, NEW j \in 1 .. k - 1, f[i] = f[j] PROVE i = j
    OBVIOUS
  <2>1. a + i = a + j
    BY <1>8
  <2> QED BY <2>1, <1>1
<1>12. f \in Bijection(1 .. k - 1, L)
  BY <1>9, <1>10, <1>11 DEF Bijection, Injection, Surjection, IsInjective
<1>13. ExistsBijection(1 .. k - 1, L)
  BY <1>12 DEF ExistsBijection
<1>14. Cardinality(L) = k - 1
  BY <1>13, <1>1, FS_CountingElements
<1> QED BY <1>14 DEF Rank, L, S, b

(* Opening a store that holds an end of a chain changes nothing. *)
LEMMA SegBySlot ==
    ASSUME NEW x \in Points, NEW a \in 0 .. Height(x)
    PROVE  BySlot(ToSet(Seg(a, x))) = Seg(a, x)
<1> DEFINE S == ToSet(Seg(a, x))
           r == BySlot(S)
           n == Height(x) - a
<1>1. Height(x) \in Nat /\ a \in Nat /\ n \in Nat
  BY Heights
<1>2. S \subseteq Blocks
  BY SegHolds
<1>3. /\ r \in Seq(Blocks) /\ Len(r) = Cardinality(S) /\ Cardinality(S) \in Nat
      /\ \A i \in 1 .. Cardinality(S) : r[i] \in S /\ Rank(S, r[i]) = i - 1
      /\ ToSet(r) = S
  BY <1>2, BySlotFacts
<1>4. \A k \in 1 .. n : At(x, a + k) \in S /\ Rank(S, At(x, a + k)) = k - 1
  BY SegSplit, SegRank
<1>5. /\ \A b \in S : Rank(S, b) \in 0 .. Cardinality(S) - 1
      /\ \A b, c \in S : Rank(S, b) = Rank(S, c) => b = c
  BY <1>2, RankOrders
<1>6. Cardinality(S) = n
  <2>1. n <= Cardinality(S)
    <3>1. CASE n = 0
      BY <3>1, <1>3
    <3>2. CASE n # 0
      <4>1. n \in 1 .. n
        BY <3>2, <1>1
      <4>2. n - 1 \in 0 .. Cardinality(S) - 1
        BY <4>1, <1>4, <1>5
      <4> QED BY <4>2, <1>1, <1>3
    <3> QED BY <3>1, <3>2
  <2>2. Cardinality(S) <= n
    <3>1. CASE Cardinality(S) = 0
      BY <3>1, <1>1
    <3>2. CASE Cardinality(S) # 0
      <4>1. Cardinality(S) \in 1 .. Cardinality(S)
        BY <3>2, <1>3
      <4> DEFINE b == r[Cardinality(S)]
      <4>2. b \in S /\ Rank(S, b) = Cardinality(S) - 1
        BY <4>1, <1>3
      <4>3. b \in Points /\ OnChain(b, x) /\ Height(b) > a
        BY <4>2, <1>2, SegHolds DEF Points
      <4>4. Height(b) \in Nat /\ Height(b) <= Height(x) /\ At(x, Height(b)) = b
        BY <4>3, Heights, OnChainAt
      <4>5. Height(b) - a \in 1 .. n /\ a + (Height(b) - a) = Height(b)
        BY <4>3, <4>4, <1>1
      <4>6. Rank(S, b) = (Height(b) - a) - 1
        BY <4>4, <4>5, <1>4
      <4> QED BY <4>2, <4>5, <4>6, <1>1, <1>3
    <3> QED BY <3>1, <3>2
  <2> QED BY <2>1, <2>2, <1>1, <1>3
<1>7. ASSUME NEW k \in 1 .. n PROVE r[k] = At(x, a + k)
  BY <1>3, <1>4, <1>5, <1>6
<1> HIDE DEF S, r
<1>8. r = Seg(a, x)
  BY <1>1, <1>3, <1>6, <1>7, SegIs
<1> QED BY <1>8 DEF r, S

-----------------------------------------------------------------------------
(* Types, and the blocks of a promotion. *)

(* Sequences of blocks: their tips, their parts. *)
LEMMA TipType ==
    ASSUME NEW s \in Seq(Blocks)
    PROVE  /\ TipOf(s) \in Points /\ ToSet(s) \in SUBSET Blocks
           /\ s # <<>> => TipOf(s) \in Blocks /\ TipOf(s) \in ToSet(s)
           /\ s = <<>> => TipOf(s) = Origin /\ ToSet(s) = {}
<1>1. ToSet(s) = {s[i] : i \in 1 .. Len(s)} /\ Len(s) \in Nat
  BY DEF ToSet
<1>2. CASE s = <<>>
  BY <1>1, <1>2 DEF TipOf, Points
<1>3. CASE s # <<>>
  <2>1. Len(s) \in 1 .. Len(s)
    BY <1>3
  <2> QED BY <1>1, <1>3, <2>1 DEF TipOf, Points
<1> QED BY <1>2, <1>3

(* What UpTo and After give. *)
LEMMA CutType ==
    ASSUME NEW s \in Seq(Blocks), NEW b \in ToSet(s)
    PROVE  /\ UpTo(s, b) \in Seq(Blocks) /\ After(s, b) \in Seq(Blocks)
           /\ UpTo(s, b) # <<>> /\ TipOf(UpTo(s, b)) = b
           /\ ToSet(s) \subseteq ToSet(UpTo(s, b)) \cup ToSet(After(s, b))
<1> DEFINE n == Position(s, b)
           u == SubSeq(s, 1, n)
           v == SubSeq(s, n + 1, Len(s))
<1>1. \E i \in 1 .. Len(s) : s[i] = b
  BY DEF ToSet
<1>2. n \in 1 .. Len(s) /\ s[n] = b /\ Len(s) \in Nat
  BY <1>1 DEF Position
<1> HIDE DEF n
<1>3. u \in Seq(Blocks) /\ Len(u) = n /\ \A k \in 1 .. n : u[k] = s[k]
  BY <1>2
<1>4. v \in Seq(Blocks) /\ Len(v) = Len(s) - n /\ \A k \in 1 .. Len(s) - n : v[k] = s[n + k]
  <2>1. PICK y : y = Len(s)
    OBVIOUS
  <2>2. Piece(s, SubSeq(s, n + 1, y), n, Blocks) /\ Len(SubSeq(s, n + 1, y)) = y - n
    BY <2>1, <1>2, PieceOfWhole
  <2> QED BY <2>1, <2>2 DEF Piece
<1> HIDE DEF u, v
<1>5. n \in 1 .. n /\ u[n] = b /\ u # <<>>
  BY <1>2, <1>3
<1>6. TipOf(u) = b
  BY <1>3, <1>5 DEF TipOf
<1>7. ASSUME NEW i \in 1 .. Len(s) PROVE s[i] \in ToSet(u) \cup ToSet(v)
  <2>1. CASE i <= n
    <3>1. i \in 1 .. n
      BY <2>1, <1>2
    <3> QED BY <3>1, <1>3 DEF ToSet
  <2>2. CASE ~(i <= n)
    <3>1. i - n \in 1 .. Len(s) - n /\ n + (i - n) = i
      BY <2>2, <1>2
    <3>2. v[i - n] = s[i]
      BY <3>1, <1>4
    <3> QED BY <3>1, <3>2, <1>4 DEF ToSet
  <2> QED BY <2>1, <2>2
<1>8. ToSet(s) \subseteq ToSet(u) \cup ToSet(v)
  <2>1. ToSet(s) = {s[i] : i \in 1 .. Len(s)}
    BY DEF ToSet
  <2> QED BY <2>1, <1>7
<1> QED BY <1>3, <1>4, <1>5, <1>6, <1>8 DEF UpTo, After, n, u, v

(* The head and the rest of a queue. *)
LEMMA TailType ==
    ASSUME NEW s \in Seq(Blocks), s # <<>>
    PROVE  /\ Head(s) \in Blocks /\ Tail(s) \in Seq(Blocks)
           /\ ToSet(s) = {Head(s)} \cup ToSet(Tail(s))
           /\ Len(s) = 1 => TipOf(s) = Head(s) /\ Tail(s) = <<>>
           /\ Len(s) # 1 => TipOf(Tail(s)) = TipOf(s) /\ Tail(s) # <<>>
<1> DEFINE r == Tail(s)
<1>1. Len(s) \in Nat /\ Len(s) > 0 /\ Head(s) = s[1] /\ 1 \in 1 .. Len(s)
      /\ r \in Seq(Blocks) /\ Len(r) = Len(s) - 1 /\ \A k \in 1 .. Len(s) - 1 : r[k] = s[k + 1]
  OBVIOUS
<1> HIDE DEF r
<1>2. ToSet(s) = {s[i] : i \in 1 .. Len(s)} /\ ToSet(r) = {r[i] : i \in 1 .. Len(s) - 1}
  BY <1>1 DEF ToSet
<1>3. \A i \in 1 .. Len(s) : i = 1 \/ (i - 1 \in 1 .. Len(s) - 1 /\ r[i - 1] = s[i])
  <2> SUFFICES ASSUME NEW i \in 1 .. Len(s), i # 1 PROVE i - 1 \in 1 .. Len(s) - 1 /\ r[i - 1] = s[i]
    OBVIOUS
  <2>1. i - 1 \in 1 .. Len(s) - 1 /\ (i - 1) + 1 = i
    BY <1>1
  <2> QED BY <2>1, <1>1
<1>4. \A k \in 1 .. Len(s) - 1 : k + 1 \in 1 .. Len(s)
  BY <1>1
<1>5. ToSet(s) \subseteq {s[1]} \cup ToSet(r)
  BY <1>2, <1>3
<1>6. {s[1]} \cup ToSet(r) \subseteq ToSet(s)
  BY <1>1, <1>2, <1>4
<1>7. Len(s) = 1 => TipOf(s) = Head(s) /\ r = <<>>
  BY <1>1 DEF TipOf
<1>8. ASSUME Len(s) # 1 PROVE TipOf(r) = TipOf(s) /\ r # <<>>
  <2>1. Len(s) - 1 \in 1 .. Len(s) - 1 /\ (Len(s) - 1) + 1 = Len(s) /\ r # <<>>
    BY <1>1, <1>8
  <2>2. r[Len(s) - 1] = s[Len(s)]
    BY <2>1, <1>1
  <2> QED BY <2>1, <2>2, <1>1 DEF TipOf
<1> QED BY <1>1, <1>5, <1>6, <1>7, <1>8 DEF r

(* A store with one more block. *)
LEMMA AppendType ==
    ASSUME NEW s \in Seq(Blocks), NEW b \in Blocks
    PROVE  /\ Append(s, b) \in Seq(Blocks)
           /\ ToSet(s) \cup {b} \subseteq ToSet(Append(s, b))
<1> DEFINE r == Append(s, b)
<1>1. r \in Seq(Blocks) /\ Len(r) = Len(s) + 1 /\ r[Len(s) + 1] = b /\ Len(s) \in Nat
      /\ \A k \in 1 .. Len(s) : r[k] = s[k]
  OBVIOUS
<1> HIDE DEF r
<1>2. ToSet(s) = {s[i] : i \in 1 .. Len(s)} /\ ToSet(r) = {r[i] : i \in 1 .. Len(s) + 1}
  BY <1>1 DEF ToSet
<1>3. Len(s) + 1 \in 1 .. Len(s) + 1 /\ \A k \in 1 .. Len(s) : k \in 1 .. Len(s) + 1
  BY <1>1
<1> QED BY <1>1, <1>2, <1>3 DEF r

(* What is read out of the stores. *)
LEMMA ReplayType ==
    ASSUME NEW im \in Seq(Blocks), NEW vo \in Seq(Blocks), NEW p \in Points
    PROVE  ReplayBlocks(im, vo, p) \in Seq(Blocks)
<1>1. ImmutableSuffixAfter(im, p) \in Seq(Blocks)
  BY CutType DEF ImmutableSuffixAfter
<1>2. ASSUME NEW q PROVE VolatileReplayAfter(vo, q) \in Seq(Blocks)
  BY CutType DEF VolatileReplayAfter
<1>3. \A s, r \in Seq(Blocks) : s \o r \in Seq(Blocks)
  OBVIOUS
<1> QED BY <1>1, <1>2, <1>3 DEF ReplayBlocks

(* A recovered ledger is a sequence of blocks. *)
LEMMA RecoveryType ==
    ASSUME NEW im \in Seq(Blocks), NEW vo \in Seq(Blocks), NEW sn \in SUBSET Files, NEW ba \in Seq(Blocks)
    PROVE  Recovery(im, vo, sn, ba) \subseteq Seq(Blocks)
<1>1. RestoredFrom(im, vo, sn, ba) \subseteq Seq(Blocks)
  BY DEF RestoredFrom, RetainLatest, AtOrBefore, Files
<1>2. ASSUME NEW s \in Seq(Blocks) PROVE s \o ReplayBlocks(im, vo, TipOf(s)) \in Seq(Blocks)
  <2>1. ReplayBlocks(im, vo, TipOf(s)) \in Seq(Blocks)
    BY TipType, ReplayType
  <2> QED BY <2>1
<1> QED BY <1>1, <1>2 DEF Recovery

(* So is a restored nonce state. *)
LEMMA NonceType ==
    ASSUME NEW im \in Seq(Blocks), NEW vo \in Seq(Blocks), NEW sd \in SUBSET Files, NEW p \in Points
    PROVE  NonceAt(im, vo, sd, p) \subseteq Seq(Blocks)
<1>a. CASE p = Origin
  <2>1. NonceAt(im, vo, sd, p) = {<<>>}
    BY <1>a DEF NonceAt
  <2> QED BY <2>1
<1>b. SUFFICES ASSUME NEW l \in NonceAt(im, vo, sd, p), p # Origin PROVE l \in Seq(Blocks)
  BY <1>a
<1>1. PICK f \in RetainLatest(UsableSidecars(im, vo, sd, p), 1) :
         /\ ReplaysTo(im, vo, f.point, p)
         /\ l = IF f.point = p THEN f.state ELSE f.state \o UpTo(SidecarReplay(im, vo, f.point, p), p)
  BY <1>b DEF NonceAt
<1>2. f \in Files
  BY DEF RetainLatest, UsableSidecars, AtOrBefore
<1>3. f.point \in Points /\ f.state \in Seq(Blocks)
  BY <1>2 DEF Files, Points
<1> DEFINE B == {b \in Blocks : Slot[b] <= Slot[p]}
<1>4. Retain(im, B) \in Seq(Blocks) /\ Retain(vo, B) \in Seq(Blocks)
  BY RetainSelects
<1> HIDE DEF B
<1>5. ReplayBlocks(Retain(im, B), Retain(vo, B), f.point) \in Seq(Blocks)
  BY <1>3, <1>4, ReplayType
<1>6. SidecarReplay(im, vo, f.point, p) \in Seq(Blocks)
  BY <1>5 DEF SidecarReplay, B
<1>7. CASE f.point = p
  BY <1>1, <1>3, <1>7
<1>8. CASE f.point # p
  <2>1. p \in ToSet(SidecarReplay(im, vo, f.point, p))
    BY <1>1, <1>8 DEF ReplaysTo
  <2>2. UpTo(SidecarReplay(im, vo, f.point, p), p) \in Seq(Blocks)
    BY <2>1, <1>6, CutType
  <2> QED BY <2>2, <1>1, <1>3, <1>8
<1> QED BY <1>7, <1>8

(* A promotion works on blocks of the volatile store, each of which is in  *)
(* the immutable store or still to be appended.                            *)
Promotes(ph, qu, im, vo) ==
    /\ ph = "add" => qu # <<>>
    /\ ph \in {"append", "prune"} =>
          /\ qu # <<>> /\ TipOf(qu) \in ToSet(vo)
          /\ ToSet(UpTo(vo, TipOf(qu))) \subseteq ToSet(im) \cup ToSet(qu)
    /\ ph = "prune" => Len(qu) = 1 /\ Head(qu) \in ToSet(im)

(* The inductive form of the type invariant. *)
TypeInv == TypeOK /\ Promotes(phase, queue, imm, vol)

(* The parts of TypeOK. *)
LEMMA Types ==
    ASSUME TypeOK
    PROVE  /\ phase \in Phases
           /\ imm \in Seq(Blocks) /\ vol \in Seq(Blocks) /\ window \in Seq(Blocks)
           /\ ledger \in Seq(Blocks) /\ base \in Seq(Blocks) /\ nonce \in Seq(Blocks)
           /\ queue \in Seq(Blocks) /\ snaps \in SUBSET Files /\ sides \in SUBSET Files
           /\ persisted \in Points /\ from \in Points /\ peerTip \in Points
           /\ batch.fwd \in Seq(Blocks) /\ batch.back \in Points \cup {NoRollback}
           /\ batch = [fwd |-> batch.fwd, back |-> batch.back]
BY DEF TypeOK, Batches

(* Nothing is promoted at the start. *)
LEMMA TypeInit == Init => TypeInv
<1> SUFFICES ASSUME Init PROVE TypeInv
  OBVIOUS
<1>1. Origin \in Points /\ <<>> \in Seq(Blocks)
  BY DEF Points
<1>2. batch \in Batches
  BY <1>1 DEF Init, NoBatch, Batches
<1>3. crashes \in 0 .. MaxCrashes /\ drops \in 0 .. MaxDrops
  BY SyncPipelineAssumption DEF Init
<1>4. Promotes(phase, queue, imm, vol)
  BY DEF Init, Promotes
<1> QED BY <1>1, <1>2, <1>3, <1>4 DEF Init, TypeInv, TypeOK, Phases

(* A process that ends is not promoting. *)
LEMMA ExitType ==
    ASSUME TypeInv, Exit, UNCHANGED disk, UNCHANGED peerTip,
           crashes' \in 0 .. MaxCrashes, drops' \in 0 .. MaxDrops
    PROVE  TypeInv'
<1>1. Origin \in Points /\ <<>> \in Seq(Blocks)
  BY DEF Points
<1>2. batch' \in Batches
  BY <1>1 DEF Exit, NoBatch, Batches
<1>3. Promotes(phase', queue', imm', vol')
  BY DEF Exit, Promotes
<1> QED BY <1>1, <1>2, <1>3 DEF Exit, TypeInv, TypeOK, Phases, disk

(* The headers of the peer's chain. *)
LEMMA HeadersAre ==
    ASSUME NEW n \in Nat \ {0}, from \in Points, peerTip \in Points, OnChain(from, peerTip),
           n <= Height(peerTip) - Height(from)
    PROVE  /\ At(peerTip, Height(from) + n) \in Blocks
           /\ Headers(n) = Seg(Height(from), At(peerTip, Height(from) + n))
           /\ OnChain(At(peerTip, Height(from) + n), peerTip)
           /\ OnChain(from, At(peerTip, Height(from) + n))
           /\ Height(At(peerTip, Height(from) + n)) = Height(from) + n
           /\ Headers(n) \in Seq(Blocks) /\ Headers(n) # <<>>
           /\ TipOf(Headers(n)) = At(peerTip, Height(from) + n)
<1> DEFINE t == peerTip
           f == Height(from)
           b == At(t, f + n)
<1>1. f \in Nat /\ Height(t) \in Nat /\ f + n \in 0 .. Height(t) /\ f + n \in 1 .. Height(t) /\ f <= Height(t)
      /\ f < f + n /\ f \in 0 .. f + n
  BY Heights
<1>2. b \in Points /\ Height(b) = f + n /\ OnChain(b, t)
  BY <1>1, Ancestor
<1>3. b \in Blocks
  BY <1>1, <1>2, Heights DEF Points
<1>4. OnChain(from, b)
  <2>1. Height(from) <= Height(b)
    BY <1>1, <1>2
  <2> QED BY <2>1, <1>2, ChainLinear
<1>5. PathTo[b] = SubSeq(PathTo[t], 1, f + n) /\ PathTo[t] \in Seq(Blocks) /\ Len(PathTo[t]) = Height(t)
  <2>1. b = PathTo[t][f + n]
    BY <1>1 DEF At
  <2>2. PathTo[t] \in Seq(Blocks) /\ Len(PathTo[t]) = Height(t)
    BY Heights
  <2>3. PICK h \in 1 .. Height(t) : h = f + n
    BY <1>1
  <2>4. PathTo[PathTo[t][h]] = SubSeq(PathTo[t], 1, h)
    BY OnPath
  <2> HIDE DEF b, f, t
  <2> QED BY <2>1, <2>2, <2>3, <2>4
<1>6. Headers(n) = Seg(f, b)
  <2>1. PICK x, y : x = f /\ y = f + n
    OBVIOUS
  <2>2. x \in Nat /\ y \in Nat /\ x <= y /\ y <= Len(PathTo[t])
    BY <2>1, <1>1, <1>5
  <2>3. Piece(PathTo[t], SubSeq(PathTo[t], x + 1, y), x, Blocks) /\ Len(SubSeq(PathTo[t], x + 1, y)) = y - x
    BY <2>2, <1>5, PieceOfWhole
  <2> DEFINE s == SubSeq(PathTo[t], x + 1, y)
  <2>4. Headers(n) = s
    BY <2>1 DEF Headers
  <2> HIDE DEF s
  <2>5. s \in Seq(Blocks) /\ Len(s) = Height(b) - f /\ \A k \in 1 .. Height(b) - f : s[k] = PathTo[t][f + k]
    BY <2>1, <2>3, <1>2 DEF Piece, s
  <2>6. ASSUME NEW k \in 1 .. Height(b) - f PROVE s[k] = At(b, f + k)
    <3>1. f + k \in 0 .. Height(b) /\ f + k # 0
      BY <1>1, <1>2
    <3>2. At(b, f + k) = At(t, f + k)
      BY <3>1, <1>2, AtBelow
    <3> QED BY <3>1, <3>2, <2>5 DEF At
  <2>7. f \in 0 .. Height(b)
    BY <1>1, <1>2
  <2>8. s = Seg(f, b)
    <3> HIDE DEF f, b
    <3> QED BY <2>5, <2>6, <2>7, <1>2, SegIs
  <2> QED BY <2>4, <2>8
<1>7. Seg(f, b) \in Seq(Blocks) /\ Seg(f, b) # <<>> /\ TipOf(Seg(f, b)) = b
  <2>1. f \in 0 .. Height(b) /\ f < Height(b) /\ f # Height(b)
    BY <1>1, <1>2
  <2> QED BY <2>1, <1>2, SegFacts, SegTip
<1> QED BY <1>2, <1>3, <1>4, <1>6, <1>7

(* Every step keeps TypeInv. *)
LEMMA TypeNext == TypeInv /\ [Next]_vars => TypeInv'
<1> SUFFICES ASSUME TypeInv, [Next]_vars PROVE TypeInv'
  OBVIOUS
<1>1. /\ phase \in Phases
      /\ imm \in Seq(Blocks) /\ vol \in Seq(Blocks) /\ window \in Seq(Blocks)
      /\ ledger \in Seq(Blocks) /\ base \in Seq(Blocks) /\ nonce \in Seq(Blocks)
      /\ queue \in Seq(Blocks) /\ snaps \in SUBSET Files /\ sides \in SUBSET Files
      /\ persisted \in Points /\ from \in Points /\ peerTip \in Points
      /\ batch.fwd \in Seq(Blocks) /\ batch.back \in Points \cup {NoRollback}
  BY Types DEF TypeInv
<1>2. confirm \in BOOLEAN /\ batch \in Batches /\ crashes \in 0 .. MaxCrashes /\ drops \in 0 .. MaxDrops
      /\ MaxCrashes \in Nat /\ MaxDrops \in Nat
  BY SyncPipelineAssumption DEF TypeInv, TypeOK
<1>3. Promotes(phase, queue, imm, vol)
  BY DEF TypeInv
<1>4. Origin \in Points /\ <<>> \in Seq(Blocks) /\ Blocks \subseteq Points /\ NoBatch \in Batches
  BY DEF Points, NoBatch, Batches
<1>5. \A s, r \in Seq(Blocks) : s \o r \in Seq(Blocks)
  OBVIOUS
<1>6. \A s \in Seq(Blocks) : TipOf(s) \in Points
  BY TipType
(* Steps that leave the stores, the queue and the promotion alone. *)
<1>7. ASSUME UNCHANGED <<imm, vol, queue, batch, peerTip, crashes, drops>>, phase' \in Phases,
             phase' \notin {"add", "append", "prune"}, confirm' \in BOOLEAN,
             snaps' \in SUBSET Files, sides' \in SUBSET Files,
             {window', ledger', base', nonce'} \subseteq Seq(Blocks),
             {persisted', from'} \subseteq Points
      PROVE  TypeInv'
  <2>1. Promotes(phase', queue', imm', vol')
    BY <1>7 DEF Promotes
  <2> QED BY <1>1, <1>2, <1>7, <2>1 DEF TypeInv, TypeOK
<1>8. ASSUME UNCHANGED <<disk, memory, confirm, batch, queue, phase>>,
             peerTip' \in Points, crashes' = crashes, drops' = drops
      PROVE  TypeInv'
  <2>1. Promotes(phase', queue', imm', vol')
    BY <1>3, <1>8 DEF disk
  <2> QED BY <1>1, <1>2, <1>8, <2>1 DEF TypeInv, TypeOK, disk, memory
<1>9. CASE PeerAdopts
  <2>1. peerTip' \in Points
    BY <1>4, <1>9 DEF PeerAdopts, Adoptable
  <2> QED BY <2>1, <1>8, <1>9 DEF PeerAdopts
<1>10. CASE Restart
  <2>1. imm' = BySlot(ToSet(imm)) /\ vol' = BySlot(ToSet(vol))
        /\ UNCHANGED <<snaps, sides, confirm, batch, queue, peerTip, crashes, drops, window>>
        /\ phase' \in {"dead", "offline"}
    BY <1>10 DEF Restart, env, memory
  <2>2. imm' \in Seq(Blocks) /\ vol' \in Seq(Blocks)
    BY <2>1, <1>1, TipType, BySlotFacts
  <2>3. BestTip(imm', vol') \in Points
    BY <2>2, <1>6 DEF BestTip
  <2>4. Recovery(imm', vol', snaps, <<>>) \subseteq Seq(Blocks)
        /\ NonceAt(imm', vol', sides, BestTip(imm', vol')) \subseteq Seq(Blocks)
    BY <2>2, <2>3, <1>1, <1>4, RecoveryType, NonceType
  <2>5. {ledger', base', nonce'} \subseteq Seq(Blocks) /\ {persisted', from'} \subseteq Points
    BY <1>10, <2>3, <2>4, <1>1 DEF Restart, memory
  <2>6. Promotes(phase', queue', imm', vol')
    BY <2>1 DEF Promotes
  <2>7. phase' \in Phases
    BY <2>1 DEF Phases
  <2> QED BY <2>1, <2>2, <2>5, <2>6, <2>7, <1>1, <1>2 DEF TypeInv, TypeOK
<1>11. CASE Connect
  <2>1. LastK(vol) \in Seq(Blocks)
    <3>1. K \in Nat
      BY SecurityParamAssumption
    <3> QED BY <3>1, <1>1 DEF LastK
  <2>2. BestTip(imm, vol) \in Points
    BY <1>1, <1>6 DEF BestTip
  <2> QED BY <2>1, <2>2, <1>1, <1>4, <1>7, <1>11 DEF Connect, SeedFromEntries, disk, env, Phases
<1>12. CASE Drop
  <2>1. drops' \in 0 .. MaxDrops /\ phase' = "offline" /\ crashes' = crashes /\ peerTip' = peerTip
        /\ UNCHANGED <<disk, memory, confirm, batch, queue>>
    BY <1>2, <1>12 DEF Drop
  <2>2. Promotes(phase', queue', imm', vol')
    BY <2>1 DEF Promotes
  <2> QED BY <2>1, <2>2, <1>1, <1>2 DEF TypeInv, TypeOK, disk, memory, Phases
<1>13. CASE Crash
  <2>1. crashes' \in 0 .. MaxCrashes /\ drops' \in 0 .. MaxDrops
    BY <1>2, <1>13 DEF Crash
  <2> QED BY <2>1, <1>13, ExitType DEF Crash
<1>14. ASSUME Exit, UNCHANGED env, UNCHANGED disk PROVE TypeInv'
  BY <1>2, <1>14, ExitType DEF env
(* A batch arrives. *)
<1>15. ASSUME NEW fwd \in Seq(Blocks), NEW back \in Points \cup {NoRollback}, Receive(fwd, back),
              peerTip' \in Points
       PROVE  TypeInv'
  <2>1. batch' \in Batches /\ queue' \in Seq(Blocks)
    BY <1>15 DEF Receive, Batches
  <2>2. phase' \in Phases /\ Promotes(phase', queue', imm', vol')
    BY <1>15 DEF Receive, Promotes, Phases
  <2> QED BY <2>1, <2>2, <1>1, <1>2, <1>15 DEF Receive, TypeInv, TypeOK, disk, memory
<1>16. CASE ReceiveRollback
  <2>1. CommonAncestor(from, peerTip) \in Points
    BY <1>1, Common
  <2> QED BY <2>1, <1>1, <1>4, <1>15, <1>16 DEF ReceiveRollback
<1>17. CASE ReceiveForward
  <2>1. Headers(BatchSize) \in Seq(Blocks)
    BY <1>1, <1>17, HeadersAre, SyncPipelineAssumption DEF ReceiveForward
  <2> QED BY <2>1, <1>1, <1>15, <1>17 DEF ReceiveForward
<1>18. CASE ReceiveForwardThenRollback
  <2>1. PICK n \in 1 .. BatchSize - 1, t \in Adoptable :
          /\ n <= Height(peerTip) - Height(from)
          /\ Receive(Headers(n), CommonAncestor(TipOf(Headers(n)), t))
          /\ peerTip' = t
    BY <1>18 DEF ReceiveForwardThenRollback
  <2>2. n \in Nat \ {0} /\ OnChain(from, peerTip) /\ t \in Points
    BY <1>4, <1>18, SyncPipelineAssumption DEF ReceiveForwardThenRollback, Adoptable
  <2>3. Headers(n) \in Seq(Blocks)
    BY <2>1, <2>2, <1>1, HeadersAre
  <2>4. CommonAncestor(TipOf(Headers(n)), t) \in Points
    BY <2>2, <2>3, <1>6, Common
  <2> QED BY <2>1, <2>2, <2>3, <2>4, <1>15
(* The batch is applied. *)
<1>19. CASE AddVolatile
  <2>1. queue # <<>>
    BY <1>3, <1>19 DEF AddVolatile, Promotes
  <2>2. Head(queue) \in Blocks /\ Tail(queue) \in Seq(Blocks)
    BY <2>1, <1>1, TailType
  <2>3. vol' \in Seq(Blocks)
    BY <2>2, <1>1, <1>19, AppendType DEF AddVolatile
  <2>4. phase' \in {"add", "track", "rollback"} /\ queue' = Tail(queue) /\ (phase' = "add" => queue' # <<>>)
        /\ UNCHANGED <<imm, snaps, sides, memory, confirm, batch, env>>
    BY <1>19 DEF AddVolatile, Proceed
  <2>5. Promotes(phase', queue', imm', vol') /\ phase' \in Phases
    BY <2>4 DEF Promotes, Phases
  <2> QED BY <2>2, <2>3, <2>4, <2>5, <1>1, <1>2 DEF TypeInv, TypeOK, memory, env
<1>20. CASE RollbackVolatile
  <2>1. vol' \in Seq(Blocks)
    BY <1>1, <1>4, <1>20, CutType DEF RollbackVolatile
  <2>2. phase' \in {"track", "trackBack"} /\ UNCHANGED <<imm, snaps, sides, memory, queue, confirm, batch, env>>
    BY <1>20 DEF RollbackVolatile, Proceed
  <2>3. Promotes(phase', queue', imm', vol') /\ phase' \in Phases
    BY <2>2 DEF Promotes, Phases
  <2> QED BY <2>1, <2>2, <2>3, <1>1, <1>2 DEF TypeInv, TypeOK, memory, env
<1>21. CASE TrackForward
  <2> DEFINE grown == window \o batch.fwd
             stable == StableEntries(grown)
  <2>1. grown \in Seq(Blocks) /\ K \in Nat
    BY <1>1, <1>5, SecurityParamAssumption
  <2>2. Drained(grown) \in Seq(Blocks)
    BY <2>1 DEF Drained, LastK
  <2>3. CASE CanRollForward(window, batch.fwd) /\ (stable # <<>> => TipOf(stable) \in ToSet(vol))
    <3>1. window' = Drained(grown) /\ UNCHANGED <<ledger, base, nonce, persisted, from, disk, confirm, batch, env>>
          /\ queue' = (IF stable = <<>> THEN <<>> ELSE UpTo(vol, TipOf(stable)))
          /\ phase' = (IF stable = <<>> THEN AfterForward ELSE "append")
      BY <2>3, <1>21 DEF TrackForward, Proceed
    <3>2. queue' \in Seq(Blocks) /\ Promotes(phase', queue', imm', vol') /\ phase' \in Phases
      <4>1. CASE stable = <<>>
        BY <3>1, <4>1, <1>4 DEF AfterForward, Promotes, Phases
      <4>2. CASE stable # <<>>
        <5> DEFINE b == TipOf(stable)
        <5>1. queue' = UpTo(vol, b) /\ phase' = "append" /\ b \in ToSet(vol) /\ vol' = vol
          BY <2>3, <3>1, <4>2 DEF disk
        <5> HIDE DEF b
        <5>2. queue' \in Seq(Blocks) /\ queue' # <<>> /\ TipOf(queue') = b
          BY <5>1, <1>1, CutType
        <5> QED BY <5>1, <5>2 DEF Promotes, Phases
      <4> QED BY <4>1, <4>2
    <3> HIDE DEF grown, stable
    <3> QED BY <3>1, <3>2, <2>2, <1>1, <1>2 DEF TypeInv, TypeOK, disk, env
  <2>4. CASE ~(CanRollForward(window, batch.fwd) /\ (stable # <<>> => TipOf(stable) \in ToSet(vol)))
    BY <2>4, <1>14, <1>21 DEF TrackForward
  <2> QED BY <2>3, <2>4
<1>22. CASE AppendImmutable
  <2>1. queue # <<>> /\ TipOf(queue) \in ToSet(vol)
        /\ ToSet(UpTo(vol, TipOf(queue))) \subseteq ToSet(imm) \cup ToSet(queue)
    BY <1>3, <1>22 DEF AppendImmutable, Promotes
  <2>2. /\ Head(queue) \in Blocks /\ Tail(queue) \in Seq(Blocks)
        /\ ToSet(queue) = {Head(queue)} \cup ToSet(Tail(queue))
        /\ Len(queue) = 1 => TipOf(queue) = Head(queue) /\ Tail(queue) = <<>>
        /\ Len(queue) # 1 => TipOf(Tail(queue)) = TipOf(queue) /\ Tail(queue) # <<>>
    BY <2>1, <1>1, TailType
  <2>3. imm' = (IF Head(queue) \in ToSet(imm) THEN imm ELSE Append(imm, Head(queue)))
        /\ queue' = (IF Len(queue) = 1 THEN queue ELSE Tail(queue))
        /\ phase' = (IF Len(queue) = 1 THEN "prune" ELSE "append")
        /\ UNCHANGED <<vol, snaps, sides, memory, confirm, batch, env>>
    BY <1>22 DEF AppendImmutable, Proceed
  <2>4. imm' \in Seq(Blocks) /\ ToSet(imm) \subseteq ToSet(imm') /\ Head(queue) \in ToSet(imm')
    BY <2>2, <2>3, <1>1, AppendType
  <2>5. Promotes(phase', queue', imm', vol') /\ phase' \in Phases /\ queue' \in Seq(Blocks)
    <3>1. CASE Len(queue) = 1
      BY <2>1, <2>2, <2>3, <2>4, <3>1, <1>1 DEF Promotes, Phases
    <3>2. CASE Len(queue) # 1
      BY <2>1, <2>2, <2>3, <2>4, <3>2 DEF Promotes, Phases
    <3> QED BY <3>1, <3>2
  <2> QED BY <2>3, <2>4, <2>5, <1>1, <1>2 DEF TypeInv, TypeOK, memory, env
<1>23. CASE PruneVolatile
  <2>1. queue # <<>> /\ TipOf(queue) \in ToSet(vol) /\ Len(queue) = 1
    BY <1>3, <1>23 DEF PruneVolatile, Promotes
  <2>2. Head(queue) \in ToSet(vol)
    BY <2>1, <1>1, TailType
  <2>3. vol' \in Seq(Blocks)
    BY <2>2, <1>1, <1>23, CutType DEF PruneVolatile
  <2>4. phase' \in {"ledger", "trackBack"} /\ queue' = <<>>
        /\ UNCHANGED <<imm, snaps, sides, memory, confirm, batch, env>>
    BY <1>23 DEF PruneVolatile, Proceed, AfterForward
  <2>5. Promotes(phase', queue', imm', vol') /\ phase' \in Phases
    BY <2>4 DEF Promotes, Phases
  <2> QED BY <2>3, <2>4, <2>5, <1>1, <1>2, <1>4 DEF TypeInv, TypeOK, memory, env
<1>24. CASE TrackBackward
  <2>1. CASE CanRollBackward(window, batch.back)
    <3>1. RollBackward(window, batch.back) \in Seq(Blocks)
      BY <2>1, <1>1, <1>4, CutType DEF CanRollBackward, RollBackward
    <3> QED BY <2>1, <3>1, <1>1, <1>2, <1>7, <1>24 DEF TrackBackward, Proceed, disk, env, Phases
  <2>2. CASE ~CanRollBackward(window, batch.back)
    BY <2>2, <1>14, <1>24 DEF TrackBackward
  <2> QED BY <2>1, <2>2
<1>25. CASE TruncateSnapshots
  BY <1>1, <1>2, <1>7, <1>25 DEF TruncateSnapshots, Proceed, TruncateAfter, AtOrBefore, memory, env, Phases
<1>26. CASE TruncateSidecars
  BY <1>1, <1>2, <1>7, <1>26 DEF TruncateSidecars, Proceed, TruncateAfter, AtOrBefore, memory, env, Phases
<1>27. CASE AdvanceLedger
  <2>1. CASE Ascends(ledger \o batch.fwd)
    BY <2>1, <1>1, <1>2, <1>5, <1>7, <1>27 DEF AdvanceLedger, Proceed, disk, env, Phases
  <2>2. CASE ~Ascends(ledger \o batch.fwd)
    BY <2>2, <1>14, <1>27 DEF AdvanceLedger
  <2> QED BY <2>1, <2>2
<1>28. CASE RecoverLedger
  <2> DEFINE ledgers == IF InitialSync THEN {base \o batch.fwd} ELSE Recovery(imm, vol, snaps, base)
             nonces == NonceAt(imm, vol, sides, batch.back)
  <2>1. batch.back \in Points
    BY <1>1, <1>28 DEF RecoverLedger
  <2>2. ledgers \subseteq Seq(Blocks)
    BY <1>1, <1>5, RecoveryType
  <2>3. nonces \subseteq Seq(Blocks)
    BY <2>1, <1>1, NonceType
  <2>4. CASE ledgers = {} \/ nonces = {}
    BY <2>4, <1>14, <1>28 DEF RecoverLedger
  <2>5. CASE ~(ledgers = {} \/ nonces = {})
    <3>1. ledger' \in ledgers /\ nonce' \in nonces /\ phase' = "save"
          /\ UNCHANGED <<confirm, batch, env, window, base, persisted, from, queue, disk>>
      BY <2>5, <1>28 DEF RecoverLedger, Proceed
    <3> HIDE DEF ledgers, nonces
    <3> QED BY <3>1, <2>2, <2>3, <1>1, <1>2, <1>7 DEF disk, env, Phases
  <2> QED BY <2>4, <2>5
<1>29. ASSUME RecordProgress PROVE from' \in Points /\ nonce' \in Seq(Blocks)
  BY <1>1, <1>5, <1>6, <1>29 DEF RecordProgress
<1>30. ASSUME NEW p \in Blocks, NEW s \in Seq(Blocks) PROVE File(p, s) \in Files
  BY DEF File, Files
<1>31. CASE SaveSnapshot
  <2>1. File(TipOf(ledger), ledger) \in Files
    BY <1>1, <1>30, <1>31, TipType DEF SaveSnapshot
  <2> QED BY <2>1, <1>1, <1>2, <1>7, <1>31 DEF SaveSnapshot, Save, Proceed, memory, env, Phases
<1>32. ASSUME BatchDone, UNCHANGED <<imm, vol>>,
              snaps' \in SUBSET Files, sides' \in SUBSET Files,
              {window', ledger', base', nonce'} \subseteq Seq(Blocks),
              {persisted', from'} \subseteq Points
       PROVE  TypeInv'
  <2>1. Promotes(phase', queue', imm', vol') /\ phase' \in Phases /\ batch' \in Batches
    BY <1>4, <1>32 DEF BatchDone, Promotes, Phases
  <2> QED BY <2>1, <1>1, <1>2, <1>32 DEF BatchDone, TypeInv, TypeOK, env
<1>33. CASE SkipSnapshot
  BY <1>1, <1>29, <1>32, <1>33 DEF SkipSnapshot, disk
<1>34. CASE ClearSnapshots
  BY <1>1, <1>4, <1>29, <1>32, <1>34 DEF ClearSnapshots
<1>35. CASE RetainSnapshots
  BY <1>1, <1>2, <1>6, <1>7, <1>29, <1>35 DEF RetainSnapshots, RetainLatest, Proceed, env, Phases
<1>36. CASE SaveSidecar
  <2>1. CASE from # Origin
    <3>1. File(from, nonce) \in Files
      BY <2>1, <1>1, <1>30 DEF Points
    <3> QED BY <2>1, <3>1, <1>1, <1>2, <1>7, <1>36 DEF SaveSidecar, Save, Proceed, memory, env, Phases
  <2>2. CASE from = Origin
    BY <2>2, <1>14, <1>36 DEF SaveSidecar, disk
  <2> QED BY <2>1, <2>2
<1>37. CASE RetainSidecars
  BY <1>1, <1>32, <1>37 DEF RetainSidecars, RetainLatest, memory
<1>38. CASE UNCHANGED vars
  BY <1>1, <1>8, <1>38 DEF vars, env
<1> QED BY <1>9, <1>10, <1>11, <1>12, <1>13, <1>16, <1>17, <1>18, <1>19, <1>20, <1>21, <1>22, <1>23,
           <1>24, <1>25, <1>26, <1>27, <1>28, <1>31, <1>33, <1>34, <1>35, <1>36, <1>37, <1>38
           DEF Next, ApplyStep

(***************************************************************************)
(* Whatever the peer does and wherever the process is killed, every        *)
(* variable of the service has a value of its type: in particular every    *)
(* cut of a store is made at a block the store holds, and the blocks that  *)
(* reopened stores are put in the order of are theirs.                     *)
(***************************************************************************)
THEOREM TypesAlways == Spec => []TypeOK
<1>1. TypeInv => TypeOK
  BY DEF TypeInv
<1> QED BY <1>1, TypeInit, TypeNext, PTL DEF Spec

(* No step but a rollback of the volatile store drops a stored block. *)
LEMMA KeepsStored ==
    TypeInv /\ [Next]_vars => (StoredBlocks \subseteq StoredBlocks' \/ phase = "rollback")
<1> SUFFICES ASSUME TypeInv, [Next]_vars, phase # "rollback" PROVE StoredBlocks \subseteq StoredBlocks'
  OBVIOUS
<1>1. imm \in Seq(Blocks) /\ vol \in Seq(Blocks) /\ queue \in Seq(Blocks)
  BY Types DEF TypeInv
<1>2. Promotes(phase, queue, imm, vol)
  BY DEF TypeInv
<1>3. CASE UNCHANGED <<imm, vol>>
  BY <1>3 DEF StoredBlocks
<1>4. CASE Restart
  <2>1. imm' = BySlot(ToSet(imm)) /\ vol' = BySlot(ToSet(vol))
    BY <1>4 DEF Restart
  <2>2. ToSet(imm) \in SUBSET Blocks /\ ToSet(vol) \in SUBSET Blocks
    BY <1>1, TipType
  <2>3. ToSet(BySlot(ToSet(imm))) = ToSet(imm) /\ ToSet(BySlot(ToSet(vol))) = ToSet(vol)
    BY <2>2, BySlotFacts
  <2> QED BY <2>1, <2>3 DEF StoredBlocks
<1>5. CASE AddVolatile
  <2>1. queue # <<>>
    BY <1>2, <1>5 DEF AddVolatile, Promotes
  <2>2. Head(queue) \in Blocks
    BY <2>1, <1>1, TailType
  <2>3. ToSet(vol) \subseteq ToSet(vol') /\ imm' = imm
    BY <2>2, <1>1, <1>5, AppendType DEF AddVolatile
  <2> QED BY <2>3 DEF StoredBlocks
<1>6. CASE AppendImmutable
  <2>1. queue # <<>>
    BY <1>2, <1>6 DEF AppendImmutable, Promotes
  <2>2. Head(queue) \in Blocks
    BY <2>1, <1>1, TailType
  <2>3. ToSet(imm) \subseteq ToSet(imm') /\ vol' = vol
    BY <2>2, <1>1, <1>6, AppendType DEF AppendImmutable
  <2> QED BY <2>3 DEF StoredBlocks
<1>7. CASE PruneVolatile
  <2>1. queue # <<>> /\ TipOf(queue) \in ToSet(vol) /\ Len(queue) = 1 /\ Head(queue) \in ToSet(imm)
        /\ ToSet(UpTo(vol, TipOf(queue))) \subseteq ToSet(imm) \cup ToSet(queue)
    BY <1>2, <1>7 DEF PruneVolatile, Promotes
  <2>2. TipOf(queue) = Head(queue) /\ ToSet(queue) = {Head(queue)} \cup ToSet(Tail(queue)) /\ Tail(queue) = <<>>
    BY <2>1, <1>1, TailType
  <2>3. ToSet(queue) \subseteq ToSet(imm)
    <3>1. ToSet(<<>>) = {}
      BY DEF ToSet
    <3> QED BY <3>1, <2>1, <2>2
  <2>4. ToSet(vol) \subseteq ToSet(UpTo(vol, Head(queue))) \cup ToSet(After(vol, Head(queue)))
    BY <2>1, <2>2, <1>1, CutType
  <2>5. vol' = After(vol, Head(queue)) /\ imm' = imm
    BY <1>7 DEF PruneVolatile
  <2> QED BY <2>1, <2>2, <2>3, <2>4, <2>5 DEF StoredBlocks
<1>8. ASSUME ~Restart, ~AddVolatile, ~AppendImmutable, ~PruneVolatile PROVE UNCHANGED <<imm, vol>>
  <2> USE DEF disk, memory
  <2>1. ~RollbackVolatile
    BY DEF RollbackVolatile
  <2>2. UNCHANGED vars => UNCHANGED <<imm, vol>>
    BY DEF vars
  <2>3. PeerAdopts \/ Connect \/ Drop \/ Crash => UNCHANGED <<imm, vol>>
    BY DEF PeerAdopts, Connect, Drop, Crash
  <2>4. ReceiveRollback \/ ReceiveForward \/ ReceiveForwardThenRollback => UNCHANGED <<imm, vol>>
    BY DEF ReceiveRollback, ReceiveForward, ReceiveForwardThenRollback, Receive
  <2>5. TrackForward \/ TrackBackward \/ TruncateSnapshots \/ TruncateSidecars \/ AdvanceLedger
        \/ RecoverLedger => UNCHANGED <<imm, vol>>
    BY DEF TrackForward, TrackBackward, TruncateSnapshots, TruncateSidecars, AdvanceLedger, RecoverLedger
  <2>6. SaveSnapshot \/ SkipSnapshot \/ ClearSnapshots \/ RetainSnapshots \/ SaveSidecar
        \/ RetainSidecars => UNCHANGED <<imm, vol>>
    BY DEF SaveSnapshot, SkipSnapshot, ClearSnapshots, RetainSnapshots, SaveSidecar, RetainSidecars
  <2> QED BY <1>8, <2>1, <2>2, <2>3, <2>4, <2>5, <2>6 DEF Next, ApplyStep
<1> QED BY <1>3, <1>4, <1>5, <1>6, <1>7, <1>8

(***************************************************************************)
(* Promotion (promote_volatile_prefix), killed after any of its appends or *)
(* before its prune_up_to, and the reopening of the stores keep every      *)
(* block in at least one store, for every peer, k, batch size and number   *)
(* of crashes.                                                             *)
(***************************************************************************)
THEOREM BlocksAreKept == Spec => NoBlockIsLost
<1>1. TypeInv /\ [Next]_vars => [StoredBlocks \subseteq StoredBlocks' \/ phase = "rollback"]_vars
  BY KeepsStored
<1> QED BY <1>1, TypeInit, TypeNext, PTL DEF Spec, NoBlockIsLost

-----------------------------------------------------------------------------
(* The stores and the window while batches are applied. *)

(* How many blocks of its chain come before s. *)
Below(s) == Height(TipOf(s)) - Len(s)

(* s is the end of the chain of its tip. *)
IsSeg(s) == Below(s) \in Nat /\ s = Seg(Below(s), TipOf(s))

(* An end of a chain, by its tip and where it begins. *)
LEMMA SegOpen ==
    ASSUME NEW s \in Seq(Blocks), IsSeg(s)
    PROVE  /\ TipOf(s) \in Points /\ Below(s) \in 0 .. Height(TipOf(s)) /\ Below(s) \in Nat
           /\ s = Seg(Below(s), TipOf(s))
           /\ s = <<>> <=> TipOf(s) = Origin
           /\ s = <<>> => Below(s) = 0
           /\ s # <<>> => Below(s) < Height(TipOf(s)) /\ TipOf(s) \in Blocks
           /\ Height(TipOf(s)) \in Nat
<1>1. TipOf(s) \in Points /\ (s # <<>> => TipOf(s) \in Blocks) /\ (s = <<>> => TipOf(s) = Origin)
  BY TipType
<1>2. Height(TipOf(s)) \in Nat /\ Len(s) \in Nat /\ (s = <<>> <=> Len(s) = 0)
  BY <1>1, Heights
<1>3. Below(s) \in Nat /\ Below(s) = Height(TipOf(s)) - Len(s) /\ s = Seg(Below(s), TipOf(s))
  BY DEF IsSeg, Below
<1>4. Below(s) \in 0 .. Height(TipOf(s))
  BY <1>2, <1>3
<1>5. s # <<>> => Below(s) < Height(TipOf(s))
  BY <1>2, <1>3
<1>6. s = <<>> => Below(s) = 0
  BY <1>1, <1>2, <1>3, Heights
<1>7. Origin \notin Blocks
  BY ChainTreeAssumption
<1> QED BY <1>1, <1>2, <1>3, <1>4, <1>5, <1>6, <1>7

(* A piece of a chain that is not empty. *)
LEMMA SegMake ==
    ASSUME NEW x \in Points, NEW a \in Nat, a < Height(x)
    PROVE  /\ IsSeg(Seg(a, x)) /\ TipOf(Seg(a, x)) = x /\ Below(Seg(a, x)) = a
           /\ Seg(a, x) # <<>> /\ Seg(a, x) \in Seq(Blocks)
<1>1. Height(x) \in Nat /\ a \in 0 .. Height(x) /\ a # Height(x)
  BY Heights
<1>2. TipOf(Seg(a, x)) = x /\ Seg(a, x) # <<>> /\ Seg(a, x) \in Seq(Blocks) /\ Len(Seg(a, x)) = Height(x) - a
  BY <1>1, SegFacts, SegTip
<1>3. Below(Seg(a, x)) = a
  <2>1. Height(x) - (Height(x) - a) = a
    BY <1>1
  <2> QED BY <2>1, <1>2 DEF Below
<1> QED BY <1>2, <1>3 DEF IsSeg

(* The empty piece. *)
LEMMA SegEmpty == IsSeg(<<>>) /\ TipOf(<<>>) = Origin /\ Below(<<>>) = 0 /\ Seg(0, Origin) = <<>>
<1>1. TipOf(<<>>) = Origin
  BY DEF TipOf
<1>2. Below(<<>>) = 0
  BY <1>1, Heights DEF Below
<1>3. Seg(0, Origin) = <<>>
  BY Heights, SegWhole
<1> QED BY <1>1, <1>2, <1>3 DEF IsSeg

(* One of the two points is on the chain of the other. *)
Comparable(x, y) == OnChain(x, y) \/ OnChain(y, x)

(* The points of one chain are comparable. *)
LEMMA Compare ==
    ASSUME NEW x \in Points, NEW y \in Points, NEW z \in Points, OnChain(x, z), OnChain(y, z)
    PROVE  Comparable(x, y)
<1>1. Height(x) \in Nat /\ Height(y) \in Nat
  BY Heights
<1>2. Height(x) <= Height(y) \/ Height(y) <= Height(x)
  BY <1>1
<1> QED BY <1>2, ChainLinear DEF Comparable

(* The peer follows tip; it was at x, or beyond, before. *)
Followed(x, tip) ==
    /\ Height(x) <= Height(tip)
    /\ \A p \in Points : OnChain(p, x) /\ Height(p) + MaxRollback <= Height(x) => OnChain(p, tip)

(* A block the peer will not abandon. *)
Final(x, tip) == OnChain(x, tip) /\ (x = Origin \/ Height(x) + K <= Height(tip))

(* What the peer adopts, it follows. *)
LEMMA Adoption ==
    ASSUME peerTip \in Points, NEW t \in Adoptable
    PROVE  t \in Blocks /\ Followed(peerTip, t)
<1>1. t \in Blocks /\ t \in Points /\ Height(t) > Height(peerTip)
      /\ Height(peerTip) - Height(CommonAncestor(t, peerTip)) <= MaxRollback
  BY DEF Adoptable, Points
<1> DEFINE c == CommonAncestor(t, peerTip)
<1>2. c \in Points /\ OnChain(c, t) /\ OnChain(c, peerTip)
  BY <1>1, Common
<1>3. Height(t) \in Nat /\ Height(peerTip) \in Nat /\ Height(c) \in Nat /\ MaxRollback \in Nat
  BY <1>1, <1>2, Heights, SyncPipelineAssumption
<1>4. ASSUME NEW p \in Points, OnChain(p, peerTip), Height(p) + MaxRollback <= Height(peerTip)
      PROVE  OnChain(p, t)
  <2>1. Height(p) \in Nat
    BY Heights
  <2>2. Height(p) <= Height(c)
    BY <2>1, <1>1, <1>3, <1>4
  <2>3. OnChain(p, c)
    BY <2>2, <1>2, <1>4, ChainLinear
  <2> QED BY <2>3, <1>1, <1>2, ChainTrans
<1>5. Height(peerTip) <= Height(t)
  BY <1>1, <1>3
<1> QED BY <1>1, <1>4, <1>5 DEF Followed

(* Followed is kept when the peer adopts another chain. *)
LEMMA FollowedOn ==
    ASSUME NEW x \in Points, NEW t \in Points, NEW tn \in Points, Followed(x, t), Followed(t, tn)
    PROVE  Followed(x, tn)
<1>1. Height(x) \in Nat /\ Height(t) \in Nat /\ Height(tn) \in Nat /\ MaxRollback \in Nat
  BY Heights, SyncPipelineAssumption
<1>2. Height(x) <= Height(t) /\ Height(t) <= Height(tn)
  BY DEF Followed
<1>3. ASSUME NEW p \in Points, OnChain(p, x), Height(p) + MaxRollback <= Height(x) PROVE OnChain(p, tn)
  <2>1. OnChain(p, t)
    BY <1>3 DEF Followed
  <2>2. Height(p) \in Nat
    BY Heights
  <2>3. Height(p) + MaxRollback <= Height(t)
    BY <2>2, <1>1, <1>2, <1>3
  <2> QED BY <2>1, <2>3 DEF Followed
<1>4. Height(x) <= Height(tn)
  BY <1>1, <1>2
<1> QED BY <1>3, <1>4 DEF Followed

(* A point of the peer's chain is followed. *)
LEMMA FollowedBelow ==
    ASSUME NEW x \in Points, NEW t \in Points, OnChain(x, t)
    PROVE  Followed(x, t)
<1>1. Height(x) <= Height(t)
  BY OnChainAt
<1> QED BY <1>1, ChainTrans DEF Followed

(* A final point stays final: the peer abandons fewer than k blocks. *)
LEMMA FinalOn ==
    ASSUME MaxRollback < K, NEW x \in Points, NEW t \in Points, NEW tn \in Points, Final(x, t), Followed(t, tn)
    PROVE  Final(x, tn)
<1>1. Height(x) \in Nat /\ Height(t) \in Nat /\ Height(tn) \in Nat /\ MaxRollback \in Nat /\ K \in Nat
  BY Heights, SyncPipelineAssumption, SecurityParamAssumption
<1>2. CASE x = Origin
  BY <1>2 DEF Final, OnChain
<1>3. CASE x # Origin
  <2>1. OnChain(x, t) /\ Height(x) + K <= Height(t) /\ Height(t) <= Height(tn)
    BY <1>3 DEF Final, Followed
  <2>2. Height(x) + MaxRollback <= Height(t) /\ Height(x) + K <= Height(tn)
    BY <2>1, <1>1
  <2> QED BY <2>1, <2>2 DEF Final, Followed
<1> QED BY <1>2, <1>3

(* The immutable chain is the beginning of the peer's chain and deep in    *)
(* it; the volatile chain begins no later than where the immutable chain   *)
(* ends, and one of them goes on where the other ends.                     *)
Stored ==
    /\ imm = PathTo[TipOf(imm)] /\ Final(TipOf(imm), peerTip)
    /\ IsSeg(vol) /\ Below(vol) <= Height(TipOf(imm)) /\ Comparable(TipOf(imm), TipOf(vol))

(* The window is an end of a chain that begins no earlier than the         *)
(* volatile store.                                                         *)
Aligned == IsSeg(window) /\ Below(vol) <= Below(window)

(* The forward blocks of a batch, if there are any, go on from from_point. *)
top == TipOf(batch.fwd)

(* The forward blocks of the batch go on from the read pointer. *)
Ahead ==
    /\ batch.fwd # <<>> /\ batch.fwd = Seg(Height(from), top)
    /\ OnChain(from, top) /\ Height(from) < Height(top)

(* They come after the window, and the peer had them in its chain when it  *)
(* sent them; a rollback after them goes no deeper than a peer's may.      *)
Fresh ==
    /\ Ahead /\ TipOf(window) = from
    /\ Followed(top, peerTip) /\ Comparable(TipOf(imm), top)
    /\ batch.back # NoRollback =>
          OnChain(batch.back, top) /\ Height(batch.back) + MaxRollback >= Height(top)

(* The volatile store has been rolled back, or it does not hold the target *)
(* and then the window does not either.                                    *)
Rolled ==
    /\ batch.back \in Points
    /\ batch.back = Origin => vol = <<>>
    /\ batch.back # Origin =>
          \/ TipOf(vol) = batch.back
          \/ Height(batch.back) <= Below(window)
          \/ window = <<>> /\ batch.fwd = <<>>

(* The volatile store has seen all of the batch. *)
CaughtUp == IF batch.back = NoRollback THEN TipOf(vol) = top ELSE Rolled

(* The point the batch ends at. *)
Target == IF batch.back = NoRollback THEN top ELSE batch.back

(* A promotion ends below the window, and leaves the volatile tip where it *)
(* is.                                                                     *)
Promoting ==
    /\ Ahead /\ CaughtUp
    /\ IsSeg(queue) /\ queue # <<>> /\ Below(vol) <= Below(queue)
    /\ TipOf(queue) \in ToSet(vol) /\ TipOf(queue) # TipOf(vol)
    /\ Final(TipOf(queue), peerTip)
    /\ IsSeg(window) /\ TipOf(window) = top /\ Below(window) = Height(TipOf(queue))

(* What holds in each phase. *)
InIdle ==
    /\ Aligned /\ TipOf(window) = TipOf(vol)
    /\ from = TipOf(vol) \/ (confirm /\ (from = Origin \/ vol = <<>>))

(* What holds in each phase. *)
InAdd ==
    /\ Aligned /\ Fresh
    /\ IsSeg(queue) /\ queue # <<>> /\ TipOf(queue) = top /\ Below(queue) = Height(TipOf(vol))
    /\ OnChain(TipOf(vol), top)

InRollback ==
    /\ Aligned /\ batch.back \in Points
    /\ IF batch.fwd = <<>>
       THEN TipOf(window) = TipOf(vol) /\ (OnChain(batch.back, TipOf(vol)) \/ vol = <<>>)
       ELSE Fresh /\ TipOf(vol) = top

InTrack == Aligned /\ Fresh /\ CaughtUp /\ OnChain(TipOf(vol), top)

InAppend == Promoting /\ Below(queue) <= Height(TipOf(imm))

InPrune == Promoting /\ Len(queue) = 1 /\ Height(TipOf(queue)) <= Height(TipOf(imm))

InTrackBack == Aligned /\ Rolled /\ (batch.fwd # <<>> => Ahead)

InApplied ==
    /\ Aligned /\ TipOf(window) = TipOf(vol) /\ TipOf(vol) = Target
    /\ batch.fwd # <<>> => Ahead
    /\ batch.back = NoRollback => batch.fwd # <<>>

InRecorded == Aligned /\ TipOf(window) = TipOf(vol) /\ TipOf(vol) = from

(* The phases together. *)
PhaseInv ==
    /\ phase \in {"down", "dead", "offline", "idle"} => batch = NoBatch
    /\ phase = "idle" => InIdle
    /\ phase = "add" => InAdd
    /\ phase = "rollback" => InRollback
    /\ phase = "track" => InTrack
    /\ phase = "append" => InAppend
    /\ phase = "prune" => InPrune
    /\ phase = "trackBack" => InTrackBack
    /\ phase \in {"truncate", "truncateSides", "ledger", "save", "retain"} => InApplied
    /\ phase \in {"sidecar", "retainSides"} => InRecorded

(* The inductive invariant of the stores. *)
StoreInv == TypeInv /\ Stored /\ PhaseInv

(* The stores by their tips. *)
LEMMA StoredFacts ==
    ASSUME StoreInv
    PROVE  /\ TipOf(imm) \in Points /\ Height(TipOf(imm)) \in Nat /\ imm = PathTo[TipOf(imm)]
           /\ TipOf(vol) \in Points /\ Height(TipOf(vol)) \in Nat
           /\ Below(vol) \in Nat /\ Below(vol) \in 0 .. Height(TipOf(vol))
           /\ vol = Seg(Below(vol), TipOf(vol)) /\ IsSeg(vol)
           /\ vol = <<>> <=> TipOf(vol) = Origin
           /\ vol = <<>> => Below(vol) = 0
           /\ vol # <<>> => Below(vol) < Height(TipOf(vol)) /\ TipOf(vol) \in Blocks
           /\ Below(vol) <= Height(TipOf(imm)) /\ Comparable(TipOf(imm), TipOf(vol))
           /\ peerTip \in Points /\ Height(peerTip) \in Nat /\ Final(TipOf(imm), peerTip)
           /\ K \in Nat /\ K > 0 /\ MaxRollback \in Nat
<1>1. TypeOK /\ Stored
  BY DEF StoreInv, TypeInv
<1>2. imm \in Seq(Blocks) /\ vol \in Seq(Blocks) /\ peerTip \in Points
  BY <1>1, Types
<1>3. IsSeg(vol)
  BY <1>1 DEF Stored
<1>4. TipOf(imm) \in Points
  BY <1>2, TipType
<1>5. K \in Nat /\ K > 0 /\ MaxRollback \in Nat
  BY SecurityParamAssumption, SyncPipelineAssumption
<1>6. Height(TipOf(imm)) \in Nat /\ Height(peerTip) \in Nat
  BY <1>2, <1>4, Heights
<1>7. /\ TipOf(vol) \in Points /\ Below(vol) \in 0 .. Height(TipOf(vol)) /\ Below(vol) \in Nat
      /\ vol = Seg(Below(vol), TipOf(vol))
      /\ vol = <<>> <=> TipOf(vol) = Origin
      /\ vol = <<>> => Below(vol) = 0
      /\ vol # <<>> => Below(vol) < Height(TipOf(vol)) /\ TipOf(vol) \in Blocks
      /\ Height(TipOf(vol)) \in Nat
  BY <1>2, <1>3, SegOpen
<1> QED BY <1>1, <1>2, <1>3, <1>4, <1>5, <1>6, <1>7 DEF Stored

(* At the start the stores are empty. *)
LEMMA StoreInit == Init => StoreInv
<1> SUFFICES ASSUME Init PROVE StoreInv
  OBVIOUS
<1>1. TypeInv
  BY TypeInit
<1>2. imm = <<>> /\ vol = <<>> /\ peerTip = Origin /\ phase = "offline" /\ batch = NoBatch
  BY DEF Init
<1>3. TipOf(<<>>) = Origin /\ IsSeg(<<>>) /\ Below(<<>>) = 0 /\ PathTo[Origin] = <<>> /\ Height(Origin) = 0
      /\ OnChain(Origin, Origin)
  BY SegEmpty, Paths, Heights DEF OnChain
<1>4. Stored
  <2>1. TipOf(imm) = Origin /\ TipOf(vol) = Origin /\ Below(vol) = 0
    BY <1>2, <1>3
  <2>2. Final(TipOf(imm), peerTip) /\ Comparable(TipOf(imm), TipOf(vol))
    BY <2>1, <1>2, <1>3 DEF Final, Comparable
  <2> QED BY <2>1, <2>2, <1>2, <1>3 DEF Stored
<1>5. PhaseInv
  BY <1>2 DEF PhaseInv
<1> QED BY <1>1, <1>4, <1>5 DEF StoreInv

(* The peer moves on. *)
LEMMA StorePeer ==
    ASSUME MaxRollback < K, StoreInv, peerTip' \in Points, Followed(peerTip, peerTip'),
           UNCHANGED <<phase, imm, vol, window, from, confirm, batch, queue>>
    PROVE  Stored' /\ PhaseInv'
<1>1. /\ TipOf(imm) \in Points /\ TipOf(vol) \in Points /\ Final(TipOf(imm), peerTip) /\ peerTip \in Points
      /\ batch.fwd \in Seq(Blocks) /\ queue \in Seq(Blocks)
  BY StoredFacts, Types DEF StoreInv, TypeInv
<1>2. Final(TipOf(imm), peerTip')
  BY <1>1, FinalOn
<1>3. Stored'
  BY <1>2 DEF StoreInv, Stored
<1>4. top \in Points /\ TipOf(queue) \in Points
  BY <1>1, TipType DEF top
<1>5. Followed(top, peerTip) => Followed(top, peerTip')
  BY <1>1, <1>4, FollowedOn
<1>6. Final(TipOf(queue), peerTip) => Final(TipOf(queue), peerTip')
  BY <1>1, <1>4, FinalOn
<1>7. (Ahead => Ahead') /\ top' = top /\ (CaughtUp => CaughtUp') /\ (Aligned => Aligned') /\ (Rolled => Rolled')
      /\ Target' = Target
  BY DEF Ahead, top, CaughtUp, Rolled, Aligned, Target
<1>8. Fresh => Fresh'
  BY <1>5, <1>7 DEF Fresh
<1>9. Promoting => Promoting'
  BY <1>6, <1>7 DEF Promoting
<1>10. PhaseInv
  BY DEF StoreInv
<1>11. (InIdle => InIdle') /\ (InAdd => InAdd') /\ (InRollback => InRollback') /\ (InTrack => InTrack')
  BY <1>7, <1>8 DEF InIdle, InAdd, InRollback, InTrack
<1>12. (InAppend => InAppend') /\ (InPrune => InPrune') /\ (InTrackBack => InTrackBack')
       /\ (InApplied => InApplied') /\ (InRecorded => InRecorded')
  BY <1>7, <1>9 DEF InAppend, InPrune, InTrackBack, InApplied, InRecorded
<1> QED BY <1>3, <1>10, <1>11, <1>12 DEF PhaseInv

(* A batch with forward blocks arrives: the peer's chain goes on after     *)
(* from_point to b, and the peer is now at tn.                             *)
LEMMA StoreForward ==
    ASSUME MaxRollback < K, StoreInv, phase = "idle", ~confirm, OnChain(from, peerTip),
           NEW n \in Nat \ {0}, n <= Height(peerTip) - Height(from), NEW back,
           Receive(Headers(n), back), peerTip' \in Points, Followed(peerTip, peerTip'),
           back = NoRollback \/ /\ back \in Points /\ OnChain(back, TipOf(Headers(n)))
                                /\ Height(back) + MaxRollback >= Height(TipOf(Headers(n)))
    PROVE  Stored' /\ PhaseInv'
<1>1. /\ TipOf(imm) \in Points /\ TipOf(vol) \in Points /\ Final(TipOf(imm), peerTip) /\ peerTip \in Points
      /\ from \in Points
  BY StoredFacts, Types DEF StoreInv, TypeInv
<1>2. InIdle
  BY DEF StoreInv, PhaseInv
<1>3. from = TipOf(vol) /\ TipOf(window) = TipOf(vol) /\ Aligned
  BY <1>2 DEF InIdle
<1> DEFINE b == At(peerTip, Height(from) + n)
           fwd == Headers(n)
<1>4. b \in Blocks /\ fwd = Seg(Height(from), b) /\ OnChain(b, peerTip) /\ OnChain(from, b)
      /\ Height(b) = Height(from) + n /\ fwd # <<>> /\ TipOf(fwd) = b
  BY <1>1, HeadersAre
<1>5. Height(from) \in Nat /\ Height(from) < Height(b) /\ b \in Points
  <2>1. Height(from) \in Nat
    BY <1>1, Heights
  <2> QED BY <2>1, <1>4 DEF Points
<1> HIDE DEF b, fwd
<1>6. phase' = "add" /\ batch' = [fwd |-> fwd, back |-> back] /\ queue' = fwd
      /\ UNCHANGED <<imm, vol, window, from>>
  BY <1>4 DEF Receive, disk, memory, fwd
<1>7. Stored'
  <2>1. Final(TipOf(imm), peerTip')
    BY <1>1, FinalOn
  <2> QED BY <2>1, <1>6 DEF StoreInv, Stored
<1>8. top' = b /\ batch'.fwd = fwd /\ batch'.back = back
  BY <1>4, <1>6 DEF top
<1>9. Ahead'
  BY <1>4, <1>5, <1>6, <1>8 DEF Ahead
<1>10. Followed(b, peerTip')
  BY <1>1, <1>4, <1>5, FollowedBelow, FollowedOn
<1>11. Comparable(TipOf(imm), b)
  BY <1>1, <1>4, <1>5, Compare DEF Final
<1>12. Fresh'
  BY <1>3, <1>4, <1>6, <1>8, <1>9, <1>10, <1>11 DEF Fresh, fwd
<1>13. IsSeg(fwd) /\ Below(fwd) = Height(from)
  BY <1>4, <1>5, SegMake
<1>14. Aligned'
  BY <1>3, <1>6 DEF Aligned
<1>15. InAdd'
  BY <1>3, <1>4, <1>6, <1>8, <1>12, <1>13, <1>14 DEF InAdd
<1> QED BY <1>6, <1>7, <1>15 DEF PhaseInv

(* The peer names the point to roll back to. *)
LEMMA StoreBackward ==
    ASSUME StoreInv, ReceiveRollback
    PROVE  Stored' /\ PhaseInv'
<1>1. TipOf(imm) \in Points /\ TipOf(vol) \in Points /\ peerTip \in Points /\ from \in Points
  BY StoredFacts, Types DEF StoreInv, TypeInv
<1>2. InIdle
  BY DEF StoreInv, PhaseInv, ReceiveRollback
<1> DEFINE c == CommonAncestor(from, peerTip)
<1>3. c \in Points /\ OnChain(c, from)
  BY <1>1, Common
<1> HIDE DEF c
<1>4. phase' = "rollback" /\ batch' = [fwd |-> <<>>, back |-> c] /\ UNCHANGED <<imm, vol, window, peerTip>>
  BY DEF ReceiveRollback, Receive, disk, memory, c
<1>5. Stored' /\ Aligned' /\ TipOf(window)' = TipOf(vol)'
  BY <1>2, <1>4 DEF StoreInv, Stored, InIdle, Aligned
<1>6. OnChain(c, TipOf(vol)) \/ vol = <<>>
  <2>1. CASE from = TipOf(vol)
    BY <2>1, <1>3
  <2>2. CASE from = Origin
    <3>1. c = Origin
      BY <2>2, <1>1, <1>3, ChainRefl, ChainEqual, Heights
    <3> QED BY <3>1 DEF OnChain
  <2> QED BY <2>1, <2>2, <1>2 DEF InIdle
<1>7. InRollback'
  BY <1>3, <1>4, <1>5, <1>6 DEF InRollback
<1> QED BY <1>4, <1>5, <1>7 DEF PhaseInv

(* A forward block is written. *)
LEMMA StoreAdd ==
    ASSUME StoreInv, AddVolatile
    PROVE  /\ Stored' /\ PhaseInv'
           /\ vol' # <<>> /\ Below(vol') = Below(vol) /\ OnChain(TipOf(vol), TipOf(vol'))
           /\ OnChain(TipOf(vol'), top) /\ Height(TipOf(vol')) = Height(TipOf(vol)) + 1
<1> DEFINE i == TipOf(imm)
           v == TipOf(vol)
           a == Below(vol)
           h == Height(v)
           b == Head(queue)
<1>1. /\ i \in Points /\ Height(i) \in Nat /\ v \in Points /\ h \in Nat /\ a \in Nat /\ a \in 0 .. h
      /\ vol = Seg(a, v) /\ a <= Height(i) /\ Comparable(i, v) /\ (vol = <<>> => a = 0)
      /\ (vol # <<>> => a < h)
  BY StoredFacts
<1>2. InAdd /\ queue \in Seq(Blocks) /\ batch.fwd \in Seq(Blocks) /\ batch.back \in Points \cup {NoRollback}
  BY Types DEF StoreInv, TypeInv, PhaseInv, AddVolatile
<1>3. /\ IsSeg(queue) /\ queue # <<>> /\ TipOf(queue) = top /\ Below(queue) = h
      /\ OnChain(v, top) /\ Aligned /\ Fresh
  BY <1>2 DEF InAdd
<1>4. top \in Points /\ h < Height(top) /\ queue = Seg(h, top) /\ Height(top) \in Nat
  BY <1>2, <1>3, SegOpen
<1>5. b = At(top, h + 1) /\ Tail(queue) = Seg(h + 1, top) /\ b \in Blocks /\ Height(b) = h + 1 /\ OnChain(b, top)
  BY <1>1, <1>4, SegHead
<1>6. b \in Points /\ OnChain(v, b)
  <2>1. b \in Points /\ Height(v) <= Height(b)
    BY <1>1, <1>5 DEF Points
  <2> QED BY <2>1, <1>1, <1>3, <1>4, <1>5, ChainLinear
<1>7. b \notin ToSet(vol)
  <2> SUFFICES ASSUME b \in ToSet(vol) PROVE FALSE
    OBVIOUS
  <2>1. OnChain(b, v)
    BY <1>1, <1>6, SegHolds
  <2>2. Height(b) <= h
    BY <2>1, <1>1, <1>6, OnChainAt
  <2> QED BY <2>2, <1>1, <1>5
<1>8. vol' = Seg(a, b) /\ UNCHANGED <<imm, window, from, batch, peerTip, confirm>> /\ queue' = Tail(queue)
  <2>1. Append(Seg(a, v), b) = Seg(a, b)
    BY <1>1, <1>5, <1>6, SegAppend
  <2> HIDE DEF b, a, v
  <2> QED BY <2>1, <1>1, <1>7 DEF AddVolatile, Proceed, memory, env, b
<1> HIDE DEF b
<1>9. IsSeg(vol') /\ TipOf(vol') = b /\ Below(vol') = a /\ vol' # <<>>
  <2>1. a < Height(b)
    BY <1>1, <1>5
  <2> QED BY <2>1, <1>1, <1>6, <1>8, SegMake
<1>10. Comparable(i, b)
  <2>1. Comparable(i, top)
    BY <1>3 DEF Fresh
  <2>2. CASE OnChain(i, top)
    BY <2>2, <1>1, <1>4, <1>5, <1>6, Compare
  <2>3. CASE OnChain(top, i)
    BY <2>3, <1>1, <1>4, <1>5, <1>6, ChainTrans DEF Comparable
  <2> QED BY <2>1, <2>2, <2>3 DEF Comparable
<1>11. Stored'
  BY <1>1, <1>8, <1>9, <1>10 DEF StoreInv, Stored
<1>12. top' = top /\ Ahead' /\ Fresh' /\ Aligned'
  BY <1>3, <1>8, <1>9 DEF top, Ahead, Fresh, Aligned
<1> SUFFICES Stored' /\ PhaseInv'
  BY <1>5, <1>6, <1>9
<1>13. CASE Tail(queue) # <<>>
  <2>1. h + 1 < Height(top)
    <3>1. h + 1 # Height(top)
      BY <1>4, <1>5, <1>13, SegWhole
    <3> QED BY <3>1, <1>1, <1>4
  <2>2. IsSeg(queue') /\ queue' # <<>> /\ TipOf(queue') = top /\ Below(queue') = h + 1
    <3>1. h + 1 \in Nat /\ queue' = Seg(h + 1, top)
      BY <1>1, <1>5, <1>8
    <3>2. IsSeg(Seg(h + 1, top)) /\ TipOf(Seg(h + 1, top)) = top /\ Below(Seg(h + 1, top)) = h + 1
      BY <3>1, <2>1, <1>4, SegMake
    <3> QED BY <3>1, <3>2, <1>8, <1>13
  <2>3. InAdd'
    BY <2>2, <1>5, <1>8, <1>9, <1>12 DEF InAdd
  <2>4. phase' = "add"
    BY <1>13 DEF AddVolatile, Proceed
  <2> QED BY <2>3, <2>4, <1>11 DEF PhaseInv
<1>14. CASE Tail(queue) = <<>>
  <2>1. h + 1 = Height(top)
    <3>1. h + 1 \in 0 .. Height(top)
      BY <1>1, <1>4
    <3> QED BY <3>1, <1>4, <1>5, <1>14, SegTip
  <2>2. b = top
    <3>1. Height(b) >= Height(top)
      BY <2>1, <1>4, <1>5
    <3> QED BY <3>1, <1>4, <1>5, <1>6, ChainEqual
  <2>3. CASE batch.back = NoRollback
    <3>1. phase' = "track" /\ CaughtUp'
      BY <2>2, <2>3, <1>8, <1>9, <1>12, <1>14 DEF AddVolatile, Proceed, CaughtUp
    <3>2. InTrack'
      BY <3>1, <2>2, <1>5, <1>9, <1>12 DEF InTrack
    <3> QED BY <3>1, <3>2, <1>11 DEF PhaseInv
  <2>4. CASE batch.back # NoRollback
    <3>1. phase' = "rollback"
      BY <2>4, <1>14 DEF AddVolatile, Proceed
    <3>2. InRollback'
      BY <2>2, <2>4, <1>2, <1>8, <1>9, <1>12 DEF InRollback, Ahead
    <3> QED BY <3>1, <3>2, <1>11 DEF PhaseInv
  <2> QED BY <2>3, <2>4
<1> QED BY <1>13, <1>14

(* The volatile store is rolled back. *)
LEMMA StoreRollback ==
    ASSUME StoreInv, RollbackVolatile
    PROVE  /\ Stored' /\ PhaseInv'
           /\ vol' # <<>> => Below(vol') = Below(vol)
           /\ OnChain(batch.back, TipOf(vol)) \/ vol = <<>>
           /\ batch.back = TipOf(vol) => vol' = vol
<1> DEFINE i == TipOf(imm)
           v == TipOf(vol)
           a == Below(vol)
           p == batch.back
<1>1. /\ i \in Points /\ Height(i) \in Nat /\ v \in Points /\ Height(v) \in Nat /\ a \in Nat /\ a \in 0 .. Height(v)
      /\ vol = Seg(a, v) /\ a <= Height(i) /\ Comparable(i, v)
      /\ (vol = <<>> <=> v = Origin)
  BY StoredFacts
<1>2. InRollback /\ window \in Seq(Blocks)
  BY Types DEF StoreInv, TypeInv, PhaseInv, RollbackVolatile
<1>3. Aligned /\ p \in Points /\ Height(p) \in Nat
  BY <1>2, Heights DEF InRollback
<1>4. IsSeg(window) /\ a <= Below(window) /\ Below(window) \in Nat
  BY <1>2, <1>3, SegOpen DEF Aligned
<1>5. vol' = (IF p = Origin THEN <<>> ELSE IF p \in ToSet(vol) THEN UpTo(vol, p) ELSE vol)
      /\ UNCHANGED <<imm, window, from, batch, peerTip, confirm>>
      /\ phase' = (IF batch.fwd = <<>> THEN "trackBack" ELSE "track")
  BY DEF RollbackVolatile, Proceed, memory, env
<1>6. Final(i, peerTip)
  BY StoredFacts
<1>7. OnChain(p, v) \/ vol = <<>>
  <2>1. CASE batch.fwd = <<>>
    BY <2>1, <1>2 DEF InRollback
  <2>2. CASE batch.fwd # <<>>
    <3>1. Fresh /\ v = top /\ p # NoRollback
      BY <2>2, <1>2, <1>3, SyncPipelineAssumption DEF InRollback
    <3> QED BY <3>1 DEF Fresh
  <2> QED BY <2>1, <2>2
(* The three outcomes. *)
<1>8. /\ Stored' /\ Below(vol') <= a /\ (TipOf(vol') = p \/ vol' = vol) /\ (p = Origin => vol' = <<>>)
      /\ p # Origin => TipOf(vol') = p \/ (vol' = vol /\ (vol = <<>> \/ Height(p) <= a))
  <2>1. CASE p = Origin
    <3>1. vol' = <<>> /\ TipOf(vol') = Origin /\ Below(vol') = 0 /\ IsSeg(vol')
      BY <2>1, <1>5, SegEmpty
    <3>2. Comparable(i, Origin)
      BY DEF Comparable, OnChain
    <3>3. Stored'
      BY <3>1, <3>2, <1>1, <1>5, <1>6 DEF StoreInv, Stored
    <3> QED BY <2>1, <3>1, <3>3, <1>1
  <2>2. CASE p # Origin /\ p \in ToSet(vol)
    <3>1. vol' = Seg(a, p) /\ OnChain(p, v) /\ Height(p) > a
      BY <2>2, <1>1, <1>3, <1>5, SegCut, SegHolds
    <3>2. IsSeg(vol') /\ TipOf(vol') = p /\ Below(vol') = a
      BY <3>1, <1>1, <1>3, SegMake
    <3>3. Comparable(i, p)
      <4>1. CASE OnChain(i, v)
        BY <4>1, <3>1, <1>1, <1>3, Compare
      <4>2. CASE OnChain(v, i)
        BY <4>2, <3>1, <1>1, <1>3, ChainTrans DEF Comparable
      <4> QED BY <4>1, <4>2, <1>1 DEF Comparable
    <3>4. Stored'
      BY <3>2, <3>3, <1>1, <1>5, <1>6 DEF StoreInv, Stored
    <3> QED BY <2>2, <3>2, <3>4, <1>1
  <2>3. CASE p # Origin /\ p \notin ToSet(vol)
    <3>1. vol' = vol
      BY <2>3, <1>5
    <3>2. Stored'
      BY <3>1, <1>5 DEF StoreInv, Stored
    <3>3. vol = <<>> \/ Height(p) <= a
      <4> SUFFICES ASSUME OnChain(p, v), ~(Height(p) <= a) PROVE FALSE
        BY <1>7
      <4>1. Height(p) > a
        BY <1>1, <1>3
      <4> QED BY <4>1, <2>3, <1>1, <1>3, SegHolds
    <3> QED BY <2>3, <3>1, <3>2, <3>3, <1>1
  <2> QED BY <2>1, <2>2, <2>3
<1>9. Aligned'
  <2>1. Below(vol') <= Below(window) 
    <3>1. TipOf(vol') = p \/ vol' = vol
      BY <1>8
    <3>2. Below(vol') \in Nat
      BY <1>8 DEF Stored, IsSeg
    <3> QED BY <3>2, <1>1, <1>4, <1>8
  <2> QED BY <2>1, <1>4, <1>5 DEF Aligned
<1>10. ASSUME p # Origin, p \in ToSet(vol) PROVE vol' = Seg(a, p) /\ Below(vol') = a
  <2>1. p \in ToSet(Seg(a, v)) /\ vol = Seg(a, v)
    BY <1>1, <1>10
  <2>2. UpTo(Seg(a, v), p) = Seg(a, p) /\ Height(p) > a
    BY <2>1, <1>1, <1>3, SegCut, SegHolds
  <2>3. vol' = Seg(a, p)
    BY <2>1, <2>2, <1>5, <1>10
  <2> QED BY <2>2, <2>3, <1>1, <1>3, SegMake
<1>11. vol' # <<>> => Below(vol') = a
  BY <1>5, <1>10
<1>12. p = v => vol' = vol
  BY <1>1, <1>5, <1>10
<1> SUFFICES Stored' /\ PhaseInv'
  BY <1>7, <1>11, <1>12
<1>13. CASE batch.fwd = <<>>
  <2>1. TipOf(window) = v
    BY <1>2, <1>13 DEF InRollback
  <2>2. vol = <<>> => window = <<>>
    BY <2>1, <1>1, <1>2, <1>4, SegOpen
  <2>3. p # Origin => TipOf(vol') = p \/ Height(p) <= Below(window) \/ window = <<>>
    <3>1. Height(p) <= a => Height(p) <= Below(window)
      BY <1>1, <1>3, <1>4
    <3> QED BY <3>1, <2>2, <1>8
  <2>4. Rolled'
    BY <2>3, <1>3, <1>5, <1>8, <1>13 DEF Rolled
  <2>5. InTrackBack'
    BY <2>4, <1>5, <1>9, <1>13 DEF InTrackBack
  <2> QED BY <2>5, <1>5, <1>8, <1>13 DEF PhaseInv
<1>14. CASE batch.fwd # <<>>
  <2>1. Fresh /\ v = top /\ Ahead /\ top \in Points /\ Height(top) \in Nat
    <3>1. batch.fwd \in Seq(Blocks)
      BY Types DEF StoreInv, TypeInv
    <3> QED BY <3>1, <1>2, <1>14, TipType, Heights DEF InRollback, Fresh, top
  <2>2. vol # <<>>
    <3>1. Height(from) \in Nat
      BY Types, Heights DEF StoreInv, TypeInv
    <3>2. v # Origin
      BY <3>1, <2>1, <1>1, Heights DEF Ahead
    <3> QED BY <3>2, <1>1
  <2>3. p # NoRollback
    BY <1>3, SyncPipelineAssumption
  <2>4. OnChain(p, top)
    BY <2>1, <2>3 DEF Fresh
  <2>5. p # Origin => TipOf(vol') = p \/ Height(p) <= Below(window)
    <3>1. Height(p) <= a => Height(p) <= Below(window)
      BY <1>1, <1>3, <1>4
    <3> QED BY <3>1, <2>2, <1>8
  <2>6. Rolled' /\ CaughtUp'
    BY <2>3, <2>5, <1>3, <1>5, <1>8 DEF Rolled, CaughtUp
  <2>7. top' = top /\ Ahead' /\ Fresh'
    BY <2>1, <1>5 DEF top, Ahead, Fresh
  <2>8. OnChain(TipOf(vol'), top)
    BY <2>1, <2>4, <1>1, <1>8, ChainRefl
  <2>9. InTrack'
    BY <2>6, <2>7, <2>8, <1>9 DEF InTrack
  <2> QED BY <2>9, <1>5, <1>8, <1>14 DEF PhaseInv
<1> QED BY <1>13, <1>14

(* The process ends. *)
LEMMA StoreExit ==
    ASSUME StoreInv, Exit, UNCHANGED <<imm, vol, peerTip>>
    PROVE  Stored' /\ PhaseInv'
<1>1. Stored'
  BY DEF StoreInv, Stored
<1>2. phase' = "down" /\ batch' = NoBatch
  BY DEF Exit
<1> QED BY <1>1, <1>2 DEF PhaseInv

(* The window takes the forward blocks, and those that have become stable  *)
(* are to be promoted.                                                     *)
LEMMA StoreTrackForward ==
    ASSUME MaxRollback < K, StoreInv, TrackForward
    PROVE  /\ Stored' /\ PhaseInv' /\ UNCHANGED <<imm, vol, peerTip>>
           /\ \/ Exit
              \/ /\ TipOf(window') = top /\ Below(window') + K >= Height(top)
                 /\ \/ Below(window') = Below(window)
                    \/ Below(window') + K = Height(top) /\ phase' = "append"
                 /\ Below(window) + K = Height(TipOf(window)) => Below(window') + K = Height(top)
                 /\ phase' \in {"append", AfterForward} /\ UNCHANGED <<ledger, base, nonce, from, batch>>
<1> DEFINE i == TipOf(imm)
           v == TipOf(vol)
           a == Below(vol)
           w == Below(window)
           u == TipOf(window)
           p == batch.back
           e == Edge(w, top)
           s == At(top, e)
           grown == window \o batch.fwd
           stable == StableEntries(grown)
<1>1. /\ v \in Points /\ Height(v) \in Nat /\ a \in Nat /\ a \in 0 .. Height(v)
      /\ vol = Seg(a, v) /\ a <= Height(i) /\ Height(i) \in Nat /\ peerTip \in Points /\ Height(peerTip) \in Nat
      /\ K \in Nat /\ K > 0 /\ MaxRollback \in Nat
  BY StoredFacts
<1>2. InTrack /\ window \in Seq(Blocks) /\ batch.fwd \in Seq(Blocks)
  BY Types DEF StoreInv, TypeInv, PhaseInv, TrackForward
<1>3. Aligned /\ Fresh /\ CaughtUp /\ OnChain(v, top) /\ Ahead
  BY <1>2 DEF InTrack, Fresh
<1>4. IsSeg(window) /\ a <= w /\ u = from /\ batch.fwd # <<>> /\ batch.fwd = Seg(Height(from), top)
      /\ OnChain(from, top) /\ Height(from) < Height(top) /\ Followed(top, peerTip)
  BY <1>3 DEF Aligned, Fresh, Ahead
<1>5. u \in Points /\ w \in 0 .. Height(u) /\ w \in Nat /\ window = Seg(w, u) /\ Height(u) \in Nat
  BY <1>2, <1>4, SegOpen
<1>6. top \in Points /\ Height(top) \in Nat
  BY <1>2, TipType, Heights DEF top
<1>7. grown = Seg(w, top)
  BY <1>4, <1>5, <1>6, SegJoin
<1>8. w \in 0 .. Height(top) /\ w < Height(top)
  BY <1>4, <1>5, <1>6
<1>9. /\ LastK(grown) = Seg(e, top) /\ e \in w .. Height(top) /\ e < Height(top)
      /\ stable = IF e = w THEN <<>> ELSE Seg(w, s)
      /\ e # w => e = Height(top) - K
      /\ e + K >= Height(top)
  BY <1>6, <1>7, <1>8, SegWindow
<1> HIDE DEF grown, stable, e
<1>10. e \in Nat /\ w <= e /\ e \in 0 .. Height(top)
  BY <1>5, <1>6, <1>9
<1>11. IsSeg(Seg(e, top)) /\ TipOf(Seg(e, top)) = top /\ Below(Seg(e, top)) = e
  BY <1>6, <1>9, <1>10, SegMake
<1>12. Stored' /\ UNCHANGED <<imm, vol, peerTip>>
  BY DEF TrackForward, disk, Exit, Proceed, env, StoreInv, Stored
<1>13. CASE /\ CanRollForward(window, batch.fwd)
            /\ stable # <<>> => TipOf(stable) \in ToSet(vol)
  <2>1. /\ window' = Seg(e, top) /\ UNCHANGED <<from, batch, confirm>>
        /\ queue' = (IF stable = <<>> THEN <<>> ELSE UpTo(vol, TipOf(stable)))
        /\ phase' = (IF stable = <<>> THEN AfterForward ELSE "append")
    BY <1>9, <1>13 DEF TrackForward, Drained, grown, stable, Proceed
  <2>2. top' = top /\ Ahead' /\ TipOf(window') = top /\ Below(window') = e /\ Aligned'
    <3>1. top' = top /\ Ahead'
      BY <2>1, <1>3 DEF top, Ahead
    <3>2. TipOf(window') = top /\ Below(window') = e /\ IsSeg(window')
      BY <2>1, <1>11
    <3>3. Below(vol') <= Below(window')
      <4>1. a <= e
        BY <1>1, <1>4, <1>5, <1>10
      <4> QED BY <4>1, <3>2, <1>12
    <3> QED BY <3>1, <3>2, <3>3 DEF Aligned
  <2>3. ASSUME p # NoRollback PROVE Rolled'
    <3>1. Rolled
      BY <2>3, <1>3 DEF CaughtUp
    <3>2. Height(p) <= w => Height(p) <= e
      <4>1. Height(p) \in Nat
        BY <3>1, Heights DEF Rolled
      <4> QED BY <4>1, <1>5, <1>10
    <3> QED BY <3>1, <3>2, <2>1, <2>2, <1>4, <1>12 DEF Rolled
  <2>4. CaughtUp'
    BY <2>1, <2>2, <2>3, <1>3, <1>12 DEF CaughtUp
  <2>5. e = w \/ (e + K = Height(top) /\ stable # <<>>)
    <3> SUFFICES ASSUME e # w PROVE e + K = Height(top) /\ stable # <<>>
      OBVIOUS
    <3>1. e = Height(top) - K /\ stable = Seg(w, s) /\ w < e
      BY <1>5, <1>9, <1>10
    <3>2. s \in Points /\ Height(s) = e
      BY <1>6, <1>10, Ancestor
    <3>3. Seg(w, s) # <<>>
      BY <3>1, <3>2, <1>5, SegMake
    <3> QED BY <3>1, <3>3, <1>1, <1>6
  <2>6. w + K = Height(u) => e + K = Height(top)
    <3> SUFFICES ASSUME w + K = Height(u), e = w PROVE FALSE
      BY <2>5
    <3>1. Height(u) >= Height(top)
      BY <1>1, <1>6, <1>9
    <3> QED BY <3>1, <1>4, <1>5, <1>6
  <2>7. UNCHANGED <<ledger, base, nonce, from, batch>>
    BY <1>13 DEF TrackForward, grown, stable, Proceed
  <2>8. phase' \in {"append", AfterForward} /\ (stable # <<>> => phase' = "append")
    BY <2>1
  <2> SUFFICES Stored' /\ PhaseInv'
    BY <2>2, <2>5, <2>6, <2>7, <2>8, <1>9, <1>12
  <2>9. CASE stable = <<>>
    <3>1. phase' = AfterForward
      BY <2>1, <2>9
    <3>2. CASE p = NoRollback
      <4>1. phase' = "ledger" /\ v = top /\ TipOf(vol') = top
        BY <3>1, <3>2, <1>3, <1>12 DEF AfterForward, CaughtUp
      <4>2. InApplied'
        BY <4>1, <3>2, <2>1, <2>2, <1>4 DEF InApplied, Target
      <4> QED BY <4>1, <4>2, <1>12 DEF PhaseInv
    <3>3. CASE p # NoRollback
      <4>1. phase' = "trackBack"
        BY <3>1, <3>3 DEF AfterForward
      <4>2. InTrackBack'
        BY <3>3, <2>2, <2>3 DEF InTrackBack
      <4> QED BY <4>1, <4>2, <1>12 DEF PhaseInv
    <3> QED BY <3>2, <3>3
  <2>10. CASE stable # <<>>
    <3>1. e # w /\ stable = Seg(w, s) /\ e = Height(top) - K /\ w < e
      <4>1. e # w
        BY <2>10, <1>9
      <4> QED BY <4>1, <1>5, <1>9, <1>10
    <3>2. s \in Points /\ Height(s) = e /\ OnChain(s, top)
      BY <1>6, <1>10, Ancestor
    <3>3. TipOf(stable) = s /\ s \in ToSet(vol)
      <4>1. TipOf(Seg(w, s)) = s
        BY <3>1, <3>2, <1>5, SegMake
      <4> QED BY <4>1, <3>1, <2>10, <1>13
    <3>4. queue' = Seg(a, s) /\ a < Height(s)
      <4>1. queue' = UpTo(vol, s)
        BY <3>3, <2>1, <2>10
      <4>2. s \in ToSet(Seg(a, v)) /\ vol = Seg(a, v)
        BY <3>3, <1>1
      <4>3. UpTo(Seg(a, v), s) = Seg(a, s)
        BY <4>2, <1>1, SegCut
      <4>4. Height(s) > a
        BY <4>2, <3>2, <1>1, SegHolds
      <4> QED BY <4>1, <4>2, <4>3, <4>4, <3>2, <1>1, <1>10
    <3> HIDE DEF s
    <3>5. IsSeg(queue') /\ TipOf(queue') = s /\ Below(queue') = a /\ queue' # <<>>
      BY <3>2, <3>4, <1>1, SegMake
    <3>6. Height(s) + MaxRollback < Height(top) /\ Height(s) + K <= Height(top)
      BY <3>1, <3>2, <1>1, <1>6
    <3>7. Final(s, peerTip)
      <4>1. OnChain(s, peerTip) /\ Height(top) <= Height(peerTip)
        <5>1. Height(s) + MaxRollback <= Height(top)
          BY <3>2, <3>6, <1>1, <1>6, <1>10
        <5> QED BY <5>1, <3>2, <1>4 DEF Followed
      <4>2. Height(s) + K <= Height(peerTip)
        BY <4>1, <3>2, <3>6, <1>1, <1>6, <1>10
      <4> QED BY <4>1, <4>2 DEF Final
    <3>8. s # v
      <4>1. CASE p = NoRollback
        <5>1. v = top
          BY <4>1, <1>3 DEF CaughtUp
        <5> QED BY <5>1, <3>6, <1>1, <3>2, <1>10
      <4>2. CASE p # NoRollback
        <5>1. Rolled /\ Height(p) + MaxRollback >= Height(top)
          BY <4>2, <1>3 DEF CaughtUp, Fresh
        <5>2. p \in Points /\ Height(p) \in Nat
          BY <5>1, Heights DEF Rolled
        <5>3. Height(p) > Height(s)
          BY <5>1, <5>2, <3>2, <3>6, <1>1, <1>6, <1>10
        <5>4. vol # <<>>
          <6>1. vol \in Seq(Blocks)
            BY Types DEF StoreInv, TypeInv
          <6> QED BY <6>1, <3>3, TipType
        <5>5. ~(Height(p) <= w)
          BY <5>2, <5>3, <3>1, <3>2, <1>5, <1>10
        <5>6. v = p
          BY <5>1, <5>4, <5>5, <1>4 DEF Rolled
        <5> QED BY <5>2, <5>3, <5>6
      <4> QED BY <4>1, <4>2
    <3>9. Promoting'
      <4>1. Below(vol') <= Below(queue')
        BY <3>5, <1>1, <1>12
      <4>2. TipOf(queue') \in ToSet(vol') /\ TipOf(queue') # TipOf(vol') /\ Final(TipOf(queue'), peerTip')
        BY <3>3, <3>5, <3>7, <3>8, <1>12
      <4>3. IsSeg(window') /\ TipOf(window') = top' /\ Below(window') = Height(TipOf(queue'))
        BY <3>2, <3>5, <2>2 DEF Aligned
      <4> QED BY <4>1, <4>2, <4>3, <3>5, <2>2, <2>4 DEF Promoting
    <3>10. InAppend'
      BY <3>5, <3>9, <1>1, <1>12 DEF InAppend
    <3>11. phase' = "append"
      BY <2>1, <2>10
    <3> QED BY <3>10, <3>11, <1>12 DEF PhaseInv
  <2> QED BY <2>9, <2>10
<1>14. CASE ~( /\ CanRollForward(window, batch.fwd)
               /\ stable # <<>> => TipOf(stable) \in ToSet(vol) )
  <2>1. Exit
    BY <1>14 DEF TrackForward, grown, stable
  <2> QED BY <2>1, <1>12, StoreExit
<1> QED BY <1>13, <1>14

(* A block is appended to the immutable store. *)
LEMMA StoreAppend ==
    ASSUME StoreInv, AppendImmutable
    PROVE  Stored' /\ PhaseInv' /\ (TipOf(imm') = TipOf(imm) \/ Height(TipOf(imm')) <= Height(TipOf(vol)))
<1> DEFINE i == TipOf(imm)
           v == TipOf(vol)
           a == Below(vol)
           q == Below(queue)
           s == TipOf(queue)
           b == Head(queue)
<1>1. /\ i \in Points /\ Height(i) \in Nat /\ imm = PathTo[i] /\ v \in Points /\ Height(v) \in Nat
      /\ a \in Nat /\ a \in 0 .. Height(v) /\ vol = Seg(a, v) /\ a <= Height(i) /\ Comparable(i, v)
      /\ peerTip \in Points /\ Height(peerTip) \in Nat /\ Final(i, peerTip) /\ K \in Nat
  BY StoredFacts
<1>2. InAppend /\ queue \in Seq(Blocks)
  BY Types DEF StoreInv, TypeInv, PhaseInv, AppendImmutable
<1>3. /\ Promoting /\ q <= Height(i) /\ IsSeg(queue) /\ queue # <<>> /\ a <= q /\ s \in ToSet(vol)
      /\ Final(s, peerTip) /\ Below(window) = Height(s)
  BY <1>2 DEF InAppend, Promoting
<1>4. s \in Points /\ q \in Nat /\ queue = Seg(q, s) /\ q < Height(s) /\ Height(s) \in Nat
  BY <1>2, <1>3, SegOpen
<1>5. /\ b = At(s, q + 1) /\ Tail(queue) = Seg(q + 1, s) /\ b \in Blocks
      /\ Height(b) = q + 1 /\ OnChain(b, s)
  BY <1>4, SegHead
<1>6. b \in Points /\ OnChain(s, v)
  <2>1. s \in ToSet(Seg(a, v))
    BY <1>1, <1>3
  <2> QED BY <2>1, <1>1, <1>4, <1>5, SegHolds DEF Points
<1>7. /\ imm' = (IF b \in ToSet(imm) THEN imm ELSE Append(imm, b))
      /\ queue' = (IF Len(queue) = 1 THEN queue ELSE Tail(queue))
      /\ phase' = (IF Len(queue) = 1 THEN "prune" ELSE "append")
      /\ UNCHANGED <<vol, window, from, confirm, batch, peerTip>>
  BY DEF AppendImmutable, Proceed, memory, env
<1> HIDE DEF b
(* Its tip is where it was, or b; it is now at least at the height of b. *)
<1>8. /\ TipOf(imm') \in Points /\ imm' = PathTo[TipOf(imm')] /\ Final(TipOf(imm'), peerTip)
      /\ Comparable(TipOf(imm'), v)
      /\ TipOf(imm') = TipOf(imm) \/ OnChain(TipOf(imm'), v)
      /\ Height(TipOf(imm')) \in Nat /\ Height(TipOf(imm')) >= Height(i) /\ Height(TipOf(imm')) >= q + 1
  <2>1. OnChain(b, peerTip) /\ OnChain(i, peerTip) /\ OnChain(b, v)
    BY <1>1, <1>3, <1>4, <1>5, <1>6, ChainTrans DEF Final
  <2>2. b \in ToSet(imm) <=> OnChain(b, i)
    <3>1. b # Origin
      BY <1>5, ChainTreeAssumption
    <3> QED BY <3>1, <1>1 DEF OnChain
  <2>3. CASE b \in ToSet(imm)
    <3>1. imm' = imm /\ Height(b) <= Height(i)
      BY <2>2, <2>3, <1>1, <1>6, <1>7, OnChainAt
    <3>2. Height(i) >= q + 1 /\ Height(i) >= Height(i)
      BY <3>1, <1>1, <1>4, <1>5
    <3> QED BY <3>1, <3>2, <1>1
  <2>4. CASE b \notin ToSet(imm)
    <3>1. Height(i) = q
      <4>1. ~(Height(b) <= Height(i))
        BY <2>1, <2>2, <2>4, <1>1, <1>6, ChainLinear
      <4> QED BY <4>1, <1>1, <1>3, <1>4, <1>5
    <3>2. OnChain(i, b)
      <4>1. Height(i) <= Height(b)
        BY <3>1, <1>1, <1>5
      <4> QED BY <4>1, <2>1, <1>1, <1>6, ChainLinear
    <3>3. imm' = PathTo[b]
      <4>1. Append(Seg(0, i), b) = Seg(0, b)
        <5>1. 0 \in 0 .. Height(i) /\ Height(b) = Height(i) + 1
          BY <3>1, <1>1, <1>5
        <5> QED BY <5>1, <3>2, <1>1, <1>5, SegAppend
      <4>2. Seg(0, i) = PathTo[i] /\ Seg(0, b) = PathTo[b]
        BY <1>1, <1>6, SegWhole
      <4> QED BY <4>1, <4>2, <2>4, <1>1, <1>7
    <3>4. TipOf(imm') = b
      <4>1. 0 \in 0 .. Height(b)
        BY <1>4, <1>5
      <4> QED BY <4>1, <3>3, <1>6, SegTip
    <3>5. Final(b, peerTip)
      <4>1. s # Origin /\ Height(s) + K <= Height(peerTip)
        BY <1>3, <1>4, Heights DEF Final
      <4>2. Height(b) + K <= Height(peerTip)
        BY <4>1, <1>1, <1>4, <1>5
      <4> QED BY <4>2, <2>1 DEF Final
    <3>6. Height(b) \in Nat /\ Height(b) >= Height(i) /\ Height(b) >= q + 1
      BY <3>1, <1>1, <1>5
    <3> QED BY <3>3, <3>4, <3>5, <3>6, <2>1, <1>6 DEF Comparable
  <2> QED BY <2>3, <2>4
<1>9. Stored'
  <2>1. Below(vol') <= Height(TipOf(imm'))
    BY <1>1, <1>7, <1>8
  <2>2. IsSeg(vol')
    BY <1>7, StoredFacts
  <2> QED BY <2>1, <2>2, <1>7, <1>8 DEF Stored
<1>10. Len(queue) = Height(s) - q
  <2>1. q \in 0 .. Height(s)
    BY <1>4
  <2> QED BY <2>1, <1>4, SegFacts
<1>11. top' = top /\ (Ahead => Ahead') /\ (CaughtUp => CaughtUp')
  BY <1>7 DEF top, Ahead, CaughtUp, Rolled
<1>12. Ahead' /\ CaughtUp' /\ top' = top
  BY <1>3, <1>11 DEF Promoting
<1>13. TipOf(imm') = i \/ Height(TipOf(imm')) <= Height(v)
  BY <1>1, <1>8, OnChainAt
<1> SUFFICES Stored' /\ PhaseInv'
  BY <1>13
<1>14. CASE Len(queue) = 1
  <2>1. Promoting'
    BY <1>3, <1>7, <1>12, <1>14 DEF Promoting
  <2>2. Height(s) = q + 1
    <3>1. Height(s) - q = 1
      BY <1>10, <1>14
    <3>2. Height(s) \in Nat /\ q \in Nat
      BY <1>4
    <3> QED BY <3>1, <3>2
  <2>3. InPrune'
    BY <2>1, <2>2, <1>7, <1>8, <1>14 DEF InPrune
  <2> QED BY <2>3, <1>7, <1>9, <1>14 DEF PhaseInv
<1>15. CASE Len(queue) # 1
  <2>1. q + 1 < Height(s) /\ q + 1 \in Nat
    BY <1>4, <1>10, <1>15
  <2>2. queue' = Seg(q + 1, s)
    BY <1>5, <1>7, <1>15
  <2>3. IsSeg(queue') /\ TipOf(queue') = s /\ Below(queue') = q + 1 /\ queue' # <<>>
    BY <2>1, <2>2, <1>4, SegMake
  <2>4. Below(vol') <= Below(queue')
    BY <2>3, <1>1, <1>3, <1>4, <1>7
  <2>5. Promoting'
    <3>1. TipOf(queue') \in ToSet(vol') /\ TipOf(queue') # TipOf(vol') /\ Final(TipOf(queue'), peerTip')
      BY <2>3, <1>3, <1>7 DEF Promoting
    <3>2. IsSeg(window') /\ TipOf(window') = top' /\ Below(window') = Height(TipOf(queue'))
      BY <2>3, <1>3, <1>7, <1>12 DEF Promoting
    <3> QED BY <3>1, <3>2, <2>3, <2>4, <1>12 DEF Promoting
  <2>6. InAppend'
    BY <2>3, <2>5, <1>8 DEF InAppend
  <2> QED BY <2>6, <1>7, <1>9, <1>15 DEF PhaseInv
<1> QED BY <1>14, <1>15

(* The promoted blocks leave the volatile store. *)
LEMMA StorePrune ==
    ASSUME StoreInv, PruneVolatile
    PROVE  Stored' /\ PhaseInv' /\ TipOf(vol') = TipOf(vol) /\ Below(vol') = Below(window)
<1> DEFINE i == TipOf(imm)
           v == TipOf(vol)
           a == Below(vol)
           s == TipOf(queue)
           p == batch.back
<1>1. /\ i \in Points /\ Height(i) \in Nat /\ imm = PathTo[i] /\ v \in Points /\ Height(v) \in Nat
      /\ a \in Nat /\ a \in 0 .. Height(v) /\ vol = Seg(a, v) /\ Comparable(i, v) /\ Final(i, peerTip)
  BY StoredFacts
<1>2. InPrune /\ queue \in Seq(Blocks)
  BY Types DEF StoreInv, TypeInv, PhaseInv, PruneVolatile
<1>3. /\ Promoting /\ Len(queue) = 1 /\ Height(s) <= Height(i) /\ queue # <<>>
      /\ s \in ToSet(vol) /\ s # v /\ IsSeg(window) /\ TipOf(window) = top /\ Below(window) = Height(s)
      /\ Ahead /\ CaughtUp
  BY <1>2 DEF InPrune, Promoting
<1>4. Head(queue) = s /\ s \in Points
  BY <1>2, <1>3, TailType, TipType
<1>5. vol' = After(vol, s) /\ phase' = AfterForward /\ UNCHANGED <<imm, window, from, confirm, batch, peerTip>>
  BY <1>4 DEF PruneVolatile, Proceed, memory, env
<1>6. vol' = Seg(Height(s), v) /\ OnChain(s, v) /\ Height(s) \in Nat
  <2>1. s \in ToSet(Seg(a, v)) /\ vol = Seg(a, v)
    BY <1>1, <1>3
  <2>2. After(Seg(a, v), s) = Seg(Height(s), v)
    BY <2>1, <1>1, SegCut
  <2>3. OnChain(s, v)
    BY <2>1, <1>1, <1>4, SegHolds
  <2> QED BY <2>1, <2>2, <2>3, <1>4, <1>5, Heights
<1>7. Height(s) < Height(v)
  <2>1. ~(Height(s) >= Height(v))
    BY <1>1, <1>3, <1>4, <1>6, ChainEqual
  <2> QED BY <2>1, <1>1, <1>6
<1>8. IsSeg(vol') /\ TipOf(vol') = v /\ Below(vol') = Height(s)
  BY <1>1, <1>6, <1>7, SegMake
<1>9. Stored'
  BY <1>1, <1>3, <1>5, <1>8 DEF Stored
<1>10. Aligned'
  <2>1. Below(vol') <= Below(window')
    BY <1>3, <1>5, <1>6, <1>8
  <2> QED BY <2>1, <1>3, <1>5 DEF Aligned
<1>11. top' = top /\ Ahead'
  BY <1>3, <1>5 DEF top, Ahead
<1> SUFFICES Stored' /\ PhaseInv'
  BY <1>3, <1>8
<1>12. CASE p = NoRollback
  <2>1. phase' = "ledger" /\ v = top /\ TipOf(vol') = top
    BY <1>3, <1>5, <1>8, <1>12 DEF AfterForward, CaughtUp
  <2>2. InApplied'
    BY <2>1, <1>3, <1>5, <1>10, <1>11, <1>12 DEF InApplied, Target, Ahead
  <2> QED BY <2>1, <2>2, <1>9 DEF PhaseInv
<1>13. CASE p # NoRollback
  <2>1. phase' = "trackBack" /\ Rolled
    BY <1>3, <1>5, <1>13 DEF AfterForward, CaughtUp
  <2>2. Rolled'
    <3>1. vol # <<>>
      <4>1. vol \in Seq(Blocks)
        BY Types DEF StoreInv, TypeInv
      <4> QED BY <4>1, <1>3, TipType
    <3> QED BY <3>1, <2>1, <1>3, <1>5, <1>8 DEF Rolled
  <2>3. InTrackBack'
    BY <2>2, <1>10, <1>11 DEF InTrackBack
  <2> QED BY <2>1, <2>3, <1>9 DEF PhaseInv
<1> QED BY <1>12, <1>13

(* The window is rolled back. *)
LEMMA StoreTrackBack ==
    ASSUME StoreInv, TrackBackward
    PROVE  /\ Stored' /\ PhaseInv' /\ UNCHANGED <<imm, vol, peerTip>>
           /\ \/ Exit
              \/ /\ phase' = "truncate" /\ UNCHANGED <<ledger, base, nonce, from, batch>>
                 /\ \/ window' = <<>>
                    \/ Below(window') = Below(window) /\ Height(TipOf(window')) <= Height(TipOf(window))
                 /\ batch.back = TipOf(window) => window' = window
<1> DEFINE v == TipOf(vol)
           a == Below(vol)
           w == Below(window)
           u == TipOf(window)
           p == batch.back
<1>1. a \in Nat /\ (vol = <<>> <=> v = Origin) /\ (vol = <<>> => a = 0)
  BY StoredFacts
<1>2. InTrackBack /\ window \in Seq(Blocks)
  BY Types DEF StoreInv, TypeInv, PhaseInv, TrackBackward
<1>3. IsSeg(window) /\ a <= w /\ Rolled /\ (batch.fwd # <<>> => Ahead)
  BY <1>2 DEF InTrackBack, Aligned
<1>4. u \in Points /\ w \in 0 .. Height(u) /\ w \in Nat /\ window = Seg(w, u)
  BY <1>2, <1>3, SegOpen
<1>5. p \in Points /\ p # NoRollback /\ Height(p) \in Nat
  BY <1>3, SyncPipelineAssumption, Heights DEF Rolled
<1>6. CASE CanRollBackward(window, p)
  <2>1. /\ window' = RollBackward(window, p) /\ phase' = "truncate"
        /\ UNCHANGED <<imm, vol, from, confirm, batch, peerTip>>
    BY <1>6 DEF TrackBackward, Proceed, disk, env
  <2>2. Stored' /\ (batch.fwd # <<>> => Ahead')
    BY <2>1, <1>3 DEF StoreInv, Stored, Ahead, top
  <2>3. v = p /\ IsSeg(window') /\ TipOf(window') = p /\ a <= Below(window')
    <3>1. CASE p = Origin
      <4>1. window' = <<>> /\ vol = <<>>
        BY <3>1, <2>1, <1>3 DEF RollBackward, Rolled
      <4> QED BY <4>1, <3>1, <1>1, SegEmpty
    <3>2. CASE p # Origin
      <4>1. p \in ToSet(window) /\ window' = UpTo(window, p)
        BY <3>2, <2>1, <1>6 DEF CanRollBackward, RollBackward
      <4>2. p \in ToSet(Seg(w, u)) /\ window = Seg(w, u)
        BY <4>1, <1>4
      <4>3. UpTo(Seg(w, u), p) = Seg(w, p) /\ Height(p) > w
        BY <4>2, <1>4, <1>5, SegCut, SegHolds
      <4>4. window' = Seg(w, p)
        BY <4>1, <4>2, <4>3
      <4>5. IsSeg(window') /\ TipOf(window') = p /\ Below(window') = w
        BY <4>3, <4>4, <1>4, <1>5, SegMake
      <4>6. window # <<>>
        BY <4>1, <1>2, TipType
      <4>7. ~(Height(p) <= w)
        BY <4>3, <1>4, <1>5
      <4>8. v = p
        BY <4>6, <4>7, <3>2, <1>3 DEF Rolled
      <4> QED BY <4>5, <4>8, <1>3
    <3> QED BY <3>1, <3>2
  <2>4. InApplied'
    BY <2>1, <2>2, <2>3, <1>5 DEF InApplied, Aligned, Target
  <2>5. CASE p = Origin
    <3>1. window' = <<>>
      BY <2>1, <2>5 DEF RollBackward
    <3>2. u = Origin => window = <<>>
      BY <1>2, <1>3, SegOpen
    <3> QED BY <3>1, <3>2, <2>1, <2>4, <2>5, <2>2, <1>6 DEF PhaseInv, TrackBackward, Proceed
  <2>6. CASE p # Origin
    <3>1. p \in ToSet(window) /\ window' = UpTo(window, p)
      BY <2>6, <2>1, <1>6 DEF CanRollBackward, RollBackward
    <3>2. p \in ToSet(Seg(w, u)) /\ window = Seg(w, u)
      BY <3>1, <1>4
    <3>3. UpTo(Seg(w, u), p) = Seg(w, p) /\ Height(p) > w /\ OnChain(p, u)
      BY <3>2, <1>4, <1>5, SegCut, SegHolds
    <3>4. window' = Seg(w, p) /\ Height(p) <= Height(u)
      BY <3>1, <3>2, <3>3, <1>4, <1>5, OnChainAt
    <3>5. TipOf(window') = p /\ Below(window') = w /\ (p = u => window' = window)
      BY <3>2, <3>3, <3>4, <1>4, <1>5, SegMake
    <3> QED BY <3>4, <3>5, <2>1, <2>4, <2>2, <1>6 DEF PhaseInv, TrackBackward, Proceed
  <2> QED BY <2>5, <2>6
<1>7. CASE ~CanRollBackward(window, p)
  BY <1>7, StoreExit DEF TrackBackward, disk, env
<1> QED BY <1>6, <1>7

(* The stores are as they were when they are opened again. *)
LEMMA Reopened ==
    ASSUME StoreInv
    PROVE  BySlot(ToSet(imm)) = imm /\ BySlot(ToSet(vol)) = vol
<1> DEFINE i == TipOf(imm)
           v == TipOf(vol)
           a == Below(vol)
<1>1. /\ i \in Points /\ Height(i) \in Nat /\ imm = PathTo[i]
      /\ v \in Points /\ a \in 0 .. Height(v) /\ vol = Seg(a, v)
  BY StoredFacts
<1>2. 0 \in 0 .. Height(i) /\ imm = Seg(0, i)
  BY <1>1, SegWhole
<1>3. BySlot(ToSet(Seg(0, i))) = Seg(0, i)
  BY <1>1, <1>2, SegBySlot
<1>4. BySlot(ToSet(Seg(a, v))) = Seg(a, v)
  BY <1>1, SegBySlot
<1> QED BY <1>1, <1>2, <1>3, <1>4

(* A start leaves the stores as they were. *)
LEMMA StoreRestart ==
    ASSUME StoreInv, Restart
    PROVE  Stored' /\ PhaseInv'
<1>1. imm' = imm /\ vol' = vol /\ UNCHANGED <<batch, peerTip>> /\ phase = "down" /\ phase' \in {"dead", "offline"}
  BY Reopened DEF Restart, env
<1>2. Stored'
  BY <1>1 DEF StoreInv, Stored
<1>3. batch = NoBatch
  BY <1>1 DEF StoreInv, PhaseInv
<1> QED BY <1>1, <1>2, <1>3 DEF PhaseInv

(* The window is seeded from the volatile store. *)
LEMMA StoreConnect ==
    ASSUME StoreInv, Connect
    PROVE  /\ Stored' /\ PhaseInv' /\ UNCHANGED <<imm, vol, peerTip>>
           /\ Below(window') + K >= Height(TipOf(window'))
           /\ vol # <<>> => \/ Below(window') = Below(vol)
                            \/ Below(window') + K = Height(TipOf(window')) /\ Len(vol) > K
<1> DEFINE v == TipOf(vol)
           a == Below(vol)
           e == Edge(a, v)
<1>1. /\ v \in Points /\ Height(v) \in Nat /\ a \in Nat /\ a \in 0 .. Height(v) /\ vol = Seg(a, v)
      /\ (vol # <<>> => a < Height(v)) /\ (vol = <<>> => a = 0) /\ K \in Nat
  BY StoredFacts
<1>2. /\ window' = LastK(vol) /\ phase' = "idle" /\ confirm'
      /\ from' = (IF OnChain(BestTip(imm, vol), peerTip) THEN BestTip(imm, vol) ELSE Origin)
      /\ UNCHANGED <<imm, vol, batch, peerTip>> /\ phase = "offline"
  BY DEF Connect, SeedFromEntries, disk, env
<1>3. Stored' /\ batch' = NoBatch
  BY <1>2 DEF StoreInv, Stored, PhaseInv
<1>4. /\ IsSeg(window') /\ TipOf(window') = v /\ a <= Below(window')
      /\ Below(window') + K >= Height(v)
      /\ vol # <<>> => Below(window') = a \/ (Below(window') + K = Height(v) /\ Len(vol) > K)
  <2>1. CASE vol = <<>>
    <3>1. window' = <<>>
      BY <2>1, <1>1, <1>2 DEF LastK
    <3> QED BY <3>1, <2>1, <1>1, SegEmpty, Heights
  <2>2. CASE vol # <<>>
    <3>1. /\ window' = Seg(e, v) /\ e \in a .. Height(v) /\ e < Height(v)
          /\ e + K >= Height(v) /\ (e # a => e = Height(v) - K)
      <4>1. /\ LastK(Seg(a, v)) = Seg(e, v) /\ e \in a .. Height(v) /\ e < Height(v)
            /\ e + K >= Height(v) /\ (e # a => e = Height(v) - K)
        BY <2>2, <1>1, SegWindow
      <4> QED BY <4>1, <1>1, <1>2
    <3> HIDE DEF e
    <3>2. e \in Nat /\ a <= e
      BY <3>1, <1>1
    <3>3. IsSeg(window') /\ TipOf(window') = v /\ Below(window') = e
      BY <3>1, <3>2, <1>1, SegMake
    <3>4. e # a => e + K = Height(v) /\ Len(vol) > K
      <4>1. Len(vol) = Height(v) - a
        BY <1>1, SegFacts
      <4> QED BY <4>1, <3>1, <3>2, <1>1
    <3> QED BY <3>1, <3>2, <3>3, <3>4, <2>2
  <2> QED BY <2>1, <2>2
<1>5. InIdle'
  <2>1. Aligned' /\ TipOf(window') = TipOf(vol')
    BY <1>2, <1>4 DEF Aligned
  <2>2. from' = Origin \/ from' = v \/ vol = <<>>
    BY <1>2 DEF BestTip
  <2> QED BY <2>1, <2>2, <1>2 DEF InIdle
<1> QED BY <1>2, <1>3, <1>4, <1>5 DEF PhaseInv

(* A rollback that comes after forward blocks goes no deeper than the      *)
(* peer's own.                                                             *)
LEMMA RollbackDepth ==
    ASSUME peerTip \in Points, NEW t \in Adoptable, NEW x \in Points, OnChain(x, peerTip), ~OnChain(x, t)
    PROVE  /\ CommonAncestor(x, t) \in Points /\ OnChain(CommonAncestor(x, t), x)
           /\ Height(CommonAncestor(x, t)) + MaxRollback >= Height(x)
<1> DEFINE c == CommonAncestor(t, peerTip)
           d == CommonAncestor(x, t)
<1>1. t \in Points /\ Height(peerTip) - Height(c) <= MaxRollback
  BY DEF Adoptable, Points
<1>2. c \in Points /\ OnChain(c, t) /\ OnChain(c, peerTip)
  BY <1>1, Common
<1>3. d \in Points /\ OnChain(d, x) /\ \A z \in Points : OnChain(z, x) /\ OnChain(z, t) => OnChain(z, d)
  BY <1>1, Common
<1> HIDE DEF c, d
<1>4. Height(c) \in Nat /\ Height(d) \in Nat /\ Height(x) \in Nat /\ Height(peerTip) \in Nat /\ MaxRollback \in Nat
  BY <1>1, <1>2, <1>3, Heights, SyncPipelineAssumption
<1>5. ~OnChain(x, c)
  BY <1>1, <1>2, ChainTrans
<1>6. OnChain(c, x)
  <2>1. Height(c) <= Height(x)
    BY <1>2, <1>4, <1>5, ChainLinear
  <2> QED BY <2>1, <1>2, ChainLinear
<1>7. Height(c) <= Height(d) /\ Height(x) <= Height(peerTip)
  BY <1>2, <1>3, <1>6, OnChainAt
<1>8. Height(d) + MaxRollback >= Height(x)
  BY <1>1, <1>4, <1>7
<1> QED BY <1>3, <1>8 DEF d

(* The remaining phases leave the stores and the window alone. *)
LEMMA StoreRest ==
    ASSUME StoreInv,
           \/ Drop \/ TruncateSnapshots \/ TruncateSidecars \/ AdvanceLedger \/ RecoverLedger
           \/ SaveSnapshot \/ SkipSnapshot \/ ClearSnapshots \/ RetainSnapshots
           \/ SaveSidecar \/ RetainSidecars
    PROVE  Stored' /\ PhaseInv'
<1>1. PhaseInv /\ Stored
  BY DEF StoreInv
<1>3. ASSUME UNCHANGED <<imm, vol, window, from, batch, peerTip>>, InApplied,
             phase' \in {"truncate", "truncateSides", "ledger", "save", "retain"}
      PROVE  Stored' /\ PhaseInv'
  <2>1. InApplied' /\ Stored'
    BY <1>1, <1>3 DEF InApplied, Aligned, Target, Ahead, top, Stored
  <2> QED BY <2>1, <1>3 DEF PhaseInv
<1>4. ASSUME UNCHANGED <<imm, vol, window, peerTip>>, InApplied, RecordProgress, BatchDone
      PROVE  Stored' /\ PhaseInv'
  <2>1. from' = Target /\ phase' = "idle" /\ batch' = NoBatch
    BY <1>4 DEF RecordProgress, BatchDone, Target, top
  <2>2. InIdle' /\ Stored'
    BY <2>1, <1>1, <1>4 DEF InApplied, Aligned, InIdle, Stored
  <2> QED BY <2>1, <2>2 DEF PhaseInv
<1>5. CASE Drop
  <2>1. phase' = "offline" /\ phase = "idle" /\ UNCHANGED <<imm, vol, batch, peerTip>>
    BY <1>5 DEF Drop, disk
  <2> QED BY <2>1, <1>1 DEF PhaseInv, Stored
<1>6. CASE TruncateSnapshots
  BY <1>1, <1>3, <1>6 DEF PhaseInv, TruncateSnapshots, Proceed, memory, env
<1>7. CASE TruncateSidecars
  BY <1>1, <1>3, <1>7 DEF PhaseInv, TruncateSidecars, Proceed, memory, env
<1>8. CASE AdvanceLedger
  <2>1. InApplied /\ UNCHANGED <<imm, vol>>
    BY <1>1, <1>8 DEF PhaseInv, AdvanceLedger, disk
  <2>2. CASE Ascends(ledger \o batch.fwd)
    BY <2>1, <2>2, <1>3, <1>8 DEF AdvanceLedger, Proceed, env
  <2>3. CASE ~Ascends(ledger \o batch.fwd)
    BY <2>1, <2>3, <1>8, StoreExit DEF AdvanceLedger, env
  <2> QED BY <2>2, <2>3
<1>9. CASE RecoverLedger
  <2>1. InApplied /\ UNCHANGED <<imm, vol>>
    BY <1>1, <1>9 DEF PhaseInv, RecoverLedger, disk
  <2>2. CASE phase' = "save" /\ UNCHANGED <<window, from, batch, peerTip>>
    BY <2>1, <2>2, <1>3
  <2>3. CASE Exit /\ UNCHANGED peerTip
    BY <2>1, <2>3, StoreExit
  <2> QED BY <2>2, <2>3, <1>9 DEF RecoverLedger, Proceed, env
<1>10. CASE SaveSnapshot
  BY <1>1, <1>3, <1>10 DEF PhaseInv, SaveSnapshot, Proceed, memory, env
<1>11. CASE SkipSnapshot
  BY <1>1, <1>4, <1>11 DEF PhaseInv, SkipSnapshot, BatchDone, disk, env
<1>12. CASE ClearSnapshots
  BY <1>1, <1>4, <1>12 DEF PhaseInv, ClearSnapshots, BatchDone, env
<1>13. CASE RetainSnapshots
  <2>1. InApplied /\ UNCHANGED <<imm, vol, window, peerTip, batch>> /\ phase' = "sidecar" /\ RecordProgress
    BY <1>1, <1>13 DEF PhaseInv, RetainSnapshots, Proceed, env
  <2>2. from' = Target
    BY <2>1 DEF RecordProgress, Target, top
  <2>3. InRecorded' /\ Stored'
    BY <2>1, <2>2, <1>1 DEF InApplied, InRecorded, Aligned, Stored
  <2> QED BY <2>1, <2>3 DEF PhaseInv
<1>14. CASE SaveSidecar
  <2>1. InRecorded /\ UNCHANGED <<imm, vol>>
    BY <1>1, <1>14 DEF PhaseInv, SaveSidecar
  <2>2. CASE from # Origin
    <3>1. phase' = "retainSides" /\ UNCHANGED <<window, from, peerTip>>
      BY <2>2, <1>14 DEF SaveSidecar, Proceed, memory, env
    <3>2. InRecorded' /\ Stored'
      BY <3>1, <2>1, <1>1 DEF InRecorded, Aligned, Stored
    <3> QED BY <3>1, <3>2 DEF PhaseInv
  <2>3. CASE ~(from # Origin)
    BY <2>1, <2>3, <1>14, StoreExit DEF SaveSidecar, env
  <2> QED BY <2>2, <2>3
<1>15. CASE RetainSidecars
  <2>1. InRecorded /\ UNCHANGED <<imm, vol, window, from, peerTip>> /\ phase' = "idle" /\ batch' = NoBatch
    BY <1>1, <1>15 DEF PhaseInv, RetainSidecars, BatchDone, memory, env
  <2>2. InIdle' /\ Stored'
    BY <2>1, <1>1 DEF InRecorded, InIdle, Aligned, Stored
  <2> QED BY <2>1, <2>2 DEF PhaseInv
<1> QED BY <1>5, <1>6, <1>7, <1>8, <1>9, <1>10, <1>11, <1>12, <1>13, <1>14, <1>15

(* Every step keeps the stores and the window in order, when the peer      *)
(* abandons fewer than k blocks at once.                                   *)
LEMMA StoreNext ==
    ASSUME MaxRollback < K, StoreInv, [Next]_vars
    PROVE  StoreInv'
<1>1. TypeInv' /\ peerTip' \in Points /\ peerTip \in Points /\ from \in Points
  BY TypeNext, Types DEF StoreInv, TypeInv, TypeOK
<1> SUFFICES Stored' /\ PhaseInv'
  BY <1>1 DEF StoreInv
<1>2. CASE UNCHANGED vars
  BY <1>2 DEF StoreInv, vars, disk, memory, env, Stored, PhaseInv, InIdle, InAdd, InRollback, InTrack, InAppend,
     InPrune, InTrackBack, InApplied, InRecorded, Aligned, Fresh, Ahead, top, Rolled, CaughtUp, Target, Promoting
<1>3. CASE PeerAdopts
  <2>1. Followed(peerTip, peerTip')
    BY <1>1, <1>3, Adoption DEF PeerAdopts
  <2> QED BY <2>1, <1>1, <1>3, StorePeer DEF PeerAdopts, disk, memory
<1>4. CASE Restart
  BY <1>4, StoreRestart
<1>5. CASE Connect
  BY <1>5, StoreConnect
<1>6. CASE Drop
  BY <1>6, StoreRest
<1>7. CASE Crash
  BY <1>7, StoreExit DEF Crash, disk
<1>8. CASE ReceiveRollback
  BY <1>8, StoreBackward
<1>9. CASE ReceiveForward
  <2>1. /\ phase = "idle" /\ ~confirm /\ OnChain(from, peerTip) /\ Receive(Headers(BatchSize), NoRollback)
        /\ Height(peerTip) - Height(from) >= BatchSize /\ BatchSize \in Nat \ {0} /\ UNCHANGED peerTip
    BY <1>9, SyncPipelineAssumption DEF ReceiveForward
  <2>2. BatchSize <= Height(peerTip) - Height(from)
    <3>1. Height(peerTip) \in Nat /\ Height(from) \in Nat
      BY <1>1, Heights
    <3> QED BY <2>1, <3>1
  <2>3. Followed(peerTip, peerTip')
    BY <2>1, <1>1, ChainRefl, FollowedBelow
  <2> QED BY <2>1, <2>2, <2>3, <1>1, StoreForward
<1>10. CASE ReceiveForwardThenRollback
  <2>1. PICK n \in 1 .. BatchSize - 1, t \in Adoptable :
          /\ n <= Height(peerTip) - Height(from)
          /\ ~OnChain(TipOf(Headers(n)), t)
          /\ Receive(Headers(n), CommonAncestor(TipOf(Headers(n)), t))
          /\ peerTip' = t
    BY <1>10 DEF ReceiveForwardThenRollback
  <2>2. phase = "idle" /\ ~confirm /\ OnChain(from, peerTip)
    BY <1>10 DEF ReceiveForwardThenRollback
  <2>3. n \in Nat \ {0}
    BY SyncPipelineAssumption
  <2>4. TipOf(Headers(n)) \in Points /\ OnChain(TipOf(Headers(n)), peerTip)
    BY <2>1, <2>2, <2>3, <1>1, HeadersAre DEF Points
  <2>5. Followed(peerTip, peerTip')
    BY <2>1, <1>1, Adoption
  <2> DEFINE d == CommonAncestor(TipOf(Headers(n)), t)
  <2>6. d \in Points /\ OnChain(d, TipOf(Headers(n))) /\ Height(d) + MaxRollback >= Height(TipOf(Headers(n)))
    BY <2>1, <2>4, <1>1, RollbackDepth
  <2>7. Receive(Headers(n), d)
    BY <2>1
  <2> HIDE DEF d
  <2> QED BY <2>1, <2>2, <2>3, <2>5, <2>6, <2>7, <1>1, StoreForward
<1>11. CASE ApplyStep
  BY <1>11, StoreAdd, StoreRollback, StoreTrackForward, StoreAppend, StorePrune, StoreTrackBack, StoreRest
     DEF ApplyStep
<1> QED BY <1>2, <1>3, <1>4, <1>5, <1>6, <1>7, <1>8, <1>9, <1>10, <1>11 DEF Next

(* The chain of an ancestor is a prefix. *)
LEMMA SegPrefix ==
    ASSUME NEW p \in Points, NEW x \in Points, OnChain(p, x)
    PROVE  IsPrefix(PathTo[p], PathTo[x])
<1> DEFINE s == PathTo[p]
           r == PathTo[x]
<1>1. s \in Seq(Blocks) /\ r \in Seq(Blocks) /\ Len(s) = Height(p) /\ Len(r) = Height(x)
      /\ Height(p) \in Nat /\ Height(x) \in Nat /\ Height(p) <= Height(x)
  BY Heights, OnChainAt
<1>2. ASSUME NEW k \in 1 .. Len(s) PROVE s[k] = r[k]
  <2>1. k \in 0 .. Height(p) /\ k # 0
    BY <1>1
  <2>2. At(p, k) = At(x, k)
    BY <2>1, AtBelow
  <2> QED BY <2>1, <2>2 DEF At
<1> HIDE DEF s, r
<1>3. SubSeq(s, 1, Len(s)) = SubSeq(r, 1, Len(s))
  BY <1>1, <1>2
<1>4. IsPrefix(s, r)
  BY <1>1, <1>3 DEF IsPrefix
<1> QED BY <1>4 DEF s, r

(* The stores and the window stay in order. *)
LEMMA StoreAlways ==
    ASSUME MaxRollback < K
    PROVE  Spec => []StoreInv
<1>1. StoreInv /\ [Next]_vars => StoreInv'
  BY StoreNext
<1> QED BY <1>1, StoreInit, PTL DEF Spec

(* promote_volatile_prefix: whatever the peer does short of abandoning k   *)
(* blocks at once, whenever the process is killed or the connection lost,  *)
(* and however batches and rollbacks come, the immutable store holds the   *)
(* beginning of the chain the peer follows.                                *)
THEOREM ImmutableStaysFinal ==
    ASSUME MaxRollback < K
    PROVE  Spec => []ImmutableIsFinal
<1>1. StoreInv => ImmutableIsFinal
  <2> SUFFICES ASSUME StoreInv PROVE ImmutableIsFinal
    OBVIOUS
  <2>1. TipOf(imm) \in Points /\ peerTip \in Points /\ imm = PathTo[TipOf(imm)] /\ OnChain(TipOf(imm), peerTip)
    BY StoredFacts DEF Final
  <2>2. IsPrefix(PathTo[TipOf(imm)], PathTo[peerTip])
    BY <2>1, SegPrefix
  <2> QED BY <2>1, <2>2 DEF ImmutableIsFinal
<1> QED BY <1>1, StoreAlways, PTL

(* record_verified_batch_progress and reconnect_storage_tip: between two   *)
(* batches the read pointer is the tip of the stores, or Origin with the   *)
(* volatile store empty.                                                   *)
THEOREM StoresFollowReadPointer ==
    ASSUME MaxRollback < K
    PROVE  Spec => []StoresAtReadPointer
<1>1. StoreInv => StoresAtReadPointer
  <2> SUFFICES ASSUME StoreInv, phase = "idle", ~confirm
               PROVE  from = BestTip(imm, vol) \/ (from = Origin /\ vol = <<>>)
    BY DEF StoresAtReadPointer, Settled
  <2>1. from = TipOf(vol)
    BY DEF StoreInv, PhaseInv, InIdle
  <2> QED BY <2>1 DEF BestTip, TipOf
<1> QED BY <1>1, StoreAlways, PTL

-----------------------------------------------------------------------------
(* A peer that never abandons a block. *)

(* The volatile store is a part of the peer's chain that reaches at least  *)
(* as far as the immutable one, and a rollback only confirms where it is.  *)
LineInv ==
    MaxRollback = 0 =>
        /\ OnChain(TipOf(vol), peerTip) /\ Height(TipOf(imm)) <= Height(TipOf(vol))
        /\ phase = "idle" => from = TipOf(vol)
        /\ batch.back # NoRollback => batch.fwd = <<>> /\ batch.back = TipOf(vol)
        /\ phase = "trackBack" => TipOf(window) = TipOf(vol)

(* LineInv holds at first ... *)
LEMMA LineInit == Init => LineInv
<1> SUFFICES ASSUME Init PROVE LineInv
  OBVIOUS
<1>1. imm = <<>> /\ vol = <<>> /\ phase = "offline" /\ batch.back = NoRollback
  BY DEF Init, NoBatch
<1>2. TipOf(vol) = Origin /\ TipOf(imm) = Origin
  BY <1>1 DEF TipOf
<1> QED BY <1>1, <1>2, Heights DEF LineInv, OnChain

(* What it followed, it still follows. *)
LEMMA LineFollowed ==
    ASSUME MaxRollback = 0, NEW x \in Points, NEW t \in Points, Followed(x, t)
    PROVE  OnChain(x, t)
<1>1. OnChain(x, x) /\ Height(x) \in Nat
  BY ChainRefl, Heights
<1>2. Height(x) + MaxRollback <= Height(x)
  BY <1>1
<1> QED BY <1>1, <1>2 DEF Followed

(* ... and every step keeps it. *)
LEMMA LineNext ==
    ASSUME StoreInv, LineInv, [Next]_vars
    PROVE  LineInv'
<1> DEFINE v == TipOf(vol)
           i == TipOf(imm)
<1> SUFFICES ASSUME MaxRollback = 0
             PROVE  /\ OnChain(TipOf(vol'), peerTip') /\ Height(TipOf(imm')) <= Height(TipOf(vol'))
                    /\ phase' = "idle" => from' = TipOf(vol')
                    /\ batch'.back # NoRollback => batch'.fwd = <<>> /\ batch'.back = TipOf(vol')
                    /\ phase' = "trackBack" => TipOf(window') = TipOf(vol')
  BY DEF LineInv
<1>1. /\ OnChain(v, peerTip) /\ Height(i) <= Height(v)
      /\ phase = "idle" => from = v
      /\ batch.back # NoRollback => batch.fwd = <<>> /\ batch.back = v
      /\ phase = "trackBack" => TipOf(window) = v
  BY DEF LineInv
<1>2. /\ v \in Points /\ i \in Points /\ peerTip \in Points /\ from \in Points
      /\ Height(v) \in Nat /\ Height(i) \in Nat /\ MaxRollback < K /\ TypeInv' /\ peerTip' \in Points
      /\ batch.fwd \in Seq(Blocks) /\ PhaseInv
  BY StoredFacts, Types, TypeNext DEF StoreInv, TypeInv, TypeOK
<1>3. ASSUME Exit, UNCHANGED <<imm, vol, peerTip>> PROVE LineInv'
  BY <1>1, <1>3 DEF Exit, NoBatch, LineInv
<1>4. (Ahead => batch.back = NoRollback) /\ AfterForward \in {"ledger", "trackBack"}
      /\ (batch.back = NoRollback => AfterForward = "ledger")
  BY <1>1 DEF Ahead, AfterForward
<1>5. CASE UNCHANGED vars
  BY <1>1, <1>5 DEF vars, disk, memory, env
<1>6. CASE PeerAdopts
  <2>1. Followed(peerTip, peerTip')
    BY <1>2, <1>6, Adoption DEF PeerAdopts
  <2>2. OnChain(v, peerTip')
    BY <2>1, <1>1, <1>2, LineFollowed, ChainTrans
  <2> QED BY <2>2, <1>1, <1>6 DEF PeerAdopts, disk, memory
<1>7. CASE Restart
  <2>1. imm' = imm /\ vol' = vol /\ UNCHANGED <<batch, peerTip>> /\ phase' \in {"dead", "offline"}
    BY <1>7, Reopened DEF Restart, env
  <2> QED BY <2>1, <1>1
<1>8. CASE Connect
  <2>1. UNCHANGED <<imm, vol, batch, peerTip>> /\ phase' = "idle"
        /\ from' = (IF OnChain(BestTip(imm, vol), peerTip) THEN BestTip(imm, vol) ELSE Origin)
    BY <1>8 DEF Connect, disk, env
  <2>2. BestTip(imm, vol) = v
    <3>1. CASE vol = <<>>
      <4>1. v = Origin
        BY <3>1 DEF TipOf
      <4>2. Height(i) <= 0
        BY <4>1, <1>1, Heights
      <4>3. i = Origin
        BY <4>2, <1>2, Heights DEF Points
      <4> QED BY <4>1, <4>3, <3>1 DEF BestTip
    <3>2. CASE vol # <<>>
      BY <3>2 DEF BestTip
    <3> QED BY <3>1, <3>2
  <2> QED BY <2>1, <2>2, <1>1
<1>9. CASE Drop
  BY <1>1, <1>9 DEF Drop, disk, memory
<1>10. CASE Crash
  BY <1>3, <1>10 DEF Crash, disk, LineInv
<1>11. CASE ReceiveRollback
  <2>1. phase = "idle" /\ batch' = [fwd |-> <<>>, back |-> CommonAncestor(from, peerTip)]
        /\ phase' = "rollback" /\ UNCHANGED <<imm, vol, peerTip>>
    BY <1>11 DEF ReceiveRollback, Receive, disk
  <2>2. CommonAncestor(v, peerTip) = v
    <3> DEFINE c == CommonAncestor(v, peerTip)
    <3>1. c \in Points /\ OnChain(c, v) /\ (OnChain(v, v) => OnChain(v, c))
      BY <1>1, <1>2, Common
    <3> HIDE DEF c
    <3>2. OnChain(v, c)
      BY <3>1, <1>2, ChainRefl
    <3>3. Height(c) >= Height(v)
      BY <3>1, <3>2, <1>2, OnChainAt, Heights
    <3>4. c = v
      BY <3>1, <3>3, <1>2, ChainEqual
    <3> QED BY <3>4 DEF c
  <2> QED BY <2>1, <2>2, <1>1
<1>12. CASE ReceiveForward
  BY <1>1, <1>12 DEF ReceiveForward, Receive, disk
<1>13. CASE ReceiveForwardThenRollback
  <2>1. PICK n \in 1 .. BatchSize - 1, t \in Adoptable :
          n <= Height(peerTip) - Height(from) /\ ~OnChain(TipOf(Headers(n)), t)
    BY <1>13 DEF ReceiveForwardThenRollback
  <2>2. TipOf(Headers(n)) \in Points /\ OnChain(TipOf(Headers(n)), peerTip)
    <3>1. OnChain(from, peerTip) /\ n \in Nat \ {0}
      BY <1>13, SyncPipelineAssumption DEF ReceiveForwardThenRollback
    <3> QED BY <3>1, <2>1, <1>2, HeadersAre DEF Points
  <2>3. t \in Points /\ OnChain(peerTip, t)
    BY <1>2, Adoption, LineFollowed DEF Points
  <2> QED BY <2>1, <2>2, <2>3, <1>2, ChainTrans
<1>14. CASE AddVolatile
  <2>1. /\ OnChain(v, TipOf(vol')) /\ OnChain(TipOf(vol'), top)
        /\ Height(TipOf(vol')) = Height(v) + 1
    BY <1>14, StoreAdd
  <2>2. InAdd /\ UNCHANGED <<imm, peerTip, batch>> /\ phase' \notin {"idle", "trackBack"}
    BY <1>2, <1>14 DEF PhaseInv, AddVolatile, Proceed, env
  <2>3. Followed(top, peerTip) /\ batch.back = NoRollback
    BY <2>2, <1>4 DEF InAdd, Fresh
  <2>4. TipOf(vol') \in Points /\ top \in Points
    <3>1. vol' \in Seq(Blocks)
      BY <1>2 DEF TypeInv, TypeOK
    <3> QED BY <3>1, <1>2, TipType DEF top
  <2>5. OnChain(TipOf(vol'), peerTip)
    BY <2>1, <2>3, <2>4, <1>2, LineFollowed, ChainTrans
  <2>6. Height(i) <= Height(TipOf(vol'))
    BY <2>1, <1>1, <1>2
  <2> QED BY <2>2, <2>3, <2>5, <2>6
<1>15. CASE RollbackVolatile
  <2>1. InRollback /\ UNCHANGED <<imm, peerTip, batch, window>> /\ phase' # "idle"
    BY <1>2, <1>15 DEF PhaseInv, RollbackVolatile, Proceed, env, memory
  <2>2. batch.back # NoRollback
    BY <2>1, SyncPipelineAssumption DEF InRollback
  <2>3. vol' = vol /\ TipOf(window) = v
    BY <2>1, <2>2, <1>1, <1>15, StoreRollback DEF InRollback
  <2> QED BY <2>1, <2>3, <1>1
<1>16. CASE TrackForward
  <2>1. InTrack /\ UNCHANGED <<imm, vol, peerTip>>
    BY <1>2, <1>16, StoreTrackForward DEF PhaseInv, TrackForward
  <2>2. CASE Exit
    BY <2>1, <2>2, <1>3 DEF LineInv
  <2>3. CASE ~Exit
    <3>1. phase' \in {"append", AfterForward} /\ UNCHANGED batch
      BY <2>3, <1>2, <1>16, StoreTrackForward
    <3>2. batch.back = NoRollback
      BY <2>1, <1>4 DEF InTrack, Fresh
    <3> QED BY <2>1, <3>1, <3>2, <1>1, <1>4
  <2> QED BY <2>2, <2>3
<1>17. CASE AppendImmutable
  <2>1. UNCHANGED <<vol, peerTip, batch>> /\ phase' \in {"append", "prune"}
    BY <1>17 DEF AppendImmutable, Proceed, env
  <2>2. TipOf(imm') = i \/ Height(TipOf(imm')) <= Height(v)
    BY <1>17, StoreAppend
  <2> QED BY <2>1, <2>2, <1>1
<1>18. CASE PruneVolatile
  <2>1. InPrune /\ UNCHANGED <<imm, peerTip, batch>> /\ phase' = AfterForward
    BY <1>2, <1>18 DEF PhaseInv, PruneVolatile, Proceed, env
  <2>2. TipOf(vol') = v /\ batch.back = NoRollback
    BY <2>1, <1>4, <1>18, StorePrune DEF InPrune, Promoting
  <2> QED BY <2>1, <2>2, <1>1, <1>4
<1>19. CASE TrackBackward
  <2>1. UNCHANGED <<imm, vol, peerTip>> /\ (Exit \/ (phase' = "truncate" /\ UNCHANGED batch))
    BY <1>19, StoreTrackBack
  <2> QED BY <2>1, <1>1, <1>3 DEF LineInv
<1>20. CASE TruncateSnapshots \/ TruncateSidecars \/ SaveSnapshot
  BY <1>1, <1>20 DEF TruncateSnapshots, TruncateSidecars, SaveSnapshot, Proceed, env
<1>21. CASE AdvanceLedger
  <2>1. UNCHANGED <<imm, vol, peerTip>> /\ (Exit \/ (phase' = "save" /\ UNCHANGED batch))
    BY <1>21 DEF AdvanceLedger, Proceed, env, disk
  <2> QED BY <2>1, <1>1, <1>3 DEF LineInv
<1>22. CASE RecoverLedger
  <2>1. UNCHANGED <<imm, vol, peerTip>> /\ (Exit \/ (phase' = "save" /\ UNCHANGED batch))
    BY <1>22 DEF RecoverLedger, Proceed, env, disk
  <2> QED BY <2>1, <1>1, <1>3 DEF LineInv
<1>23. CASE SkipSnapshot \/ ClearSnapshots
  <2>1. InApplied /\ UNCHANGED <<imm, vol, peerTip>> /\ phase' = "idle" /\ batch' = NoBatch /\ RecordProgress
    BY <1>2, <1>23 DEF PhaseInv, SkipSnapshot, ClearSnapshots, BatchDone, env, disk
  <2>2. from' = v
    BY <2>1 DEF InApplied, RecordProgress, Target, top
  <2> QED BY <2>1, <2>2, <1>1 DEF NoBatch
<1>24. CASE RetainSnapshots
  BY <1>1, <1>24 DEF RetainSnapshots, Proceed, env
<1>25. CASE SaveSidecar
  <2>1. UNCHANGED <<imm, vol, peerTip>> /\ (Exit \/ (phase' = "retainSides" /\ UNCHANGED batch))
    BY <1>25 DEF SaveSidecar, Proceed, env
  <2> QED BY <2>1, <1>1, <1>3 DEF LineInv
<1>26. CASE RetainSidecars
  <2>1. InRecorded /\ UNCHANGED <<imm, vol, peerTip, from>> /\ phase' = "idle" /\ batch' = NoBatch
    BY <1>2, <1>26 DEF PhaseInv, RetainSidecars, BatchDone, env, memory
  <2> QED BY <2>1, <1>1 DEF NoBatch, InRecorded
<1> QED BY <1>5, <1>6, <1>7, <1>8, <1>9, <1>10, <1>11, <1>12, <1>13, <1>14, <1>15, <1>16, <1>17, <1>18,
           <1>19, <1>20, <1>21, <1>22, <1>23, <1>24, <1>25, <1>26 DEF Next, ApplyStep

-----------------------------------------------------------------------------
(* The window and the ledger of a process that is to be trusted: it began  *)
(* with an empty database, or the peer never abandons a block.             *)
Trusted == MaxRollback = 0 \/ (base = <<>> /\ phase \notin {"down", "dead"})

(* Only a start makes a process one that is to be trusted. *)
LEMMA TrustKept ==
    ASSUME [Next]_vars, Trusted'
    PROVE  Restart \/ (Trusted /\ (MaxRollback # 0 => ~Exit /\ base = <<>> /\ phase \notin {"down", "dead"}))
<1> SUFFICES ASSUME MaxRollback # 0, ~Restart PROVE ~Exit /\ base = <<>> /\ phase \notin {"down", "dead"}
  BY DEF Trusted
<1>1. base' = <<>> /\ phase' \notin {"down", "dead"}
  BY DEF Trusted
<1>2. ~Exit
  BY <1>1 DEF Exit
<1> SUFFICES UNCHANGED base /\ phase \notin {"down", "dead"}
  BY <1>1, <1>2
<1>3. CASE UNCHANGED vars
  BY <1>1, <1>3 DEF vars, memory
<1>4. CASE PeerAdopts
  BY <1>1, <1>4 DEF PeerAdopts, memory
<1>5. CASE Connect \/ Drop
  BY <1>5 DEF Connect, Drop, memory
<1>6. CASE Crash
  BY <1>2, <1>6 DEF Crash
<1>7. CASE ReceiveRollback \/ ReceiveForward \/ ReceiveForwardThenRollback
  BY <1>7 DEF ReceiveRollback, ReceiveForward, ReceiveForwardThenRollback, Receive, memory
<1>8. CASE AddVolatile \/ RollbackVolatile \/ AppendImmutable \/ PruneVolatile \/ TruncateSnapshots
           \/ TruncateSidecars \/ SaveSnapshot \/ SkipSnapshot \/ ClearSnapshots \/ RetainSnapshots
           \/ RetainSidecars
  BY <1>8 DEF AddVolatile, RollbackVolatile, AppendImmutable, PruneVolatile, TruncateSnapshots,
     TruncateSidecars, SaveSnapshot, SkipSnapshot, ClearSnapshots, RetainSnapshots, RetainSidecars, memory
<1>9. CASE TrackForward
  BY <1>2, <1>9 DEF TrackForward
<1>10. CASE TrackBackward \/ AdvanceLedger
  BY <1>2, <1>10 DEF TrackBackward, AdvanceLedger
<1>11. CASE RecoverLedger
  BY <1>2, <1>11 DEF RecoverLedger
<1>12. CASE SaveSidecar
  BY <1>2, <1>12 DEF SaveSidecar, memory
<1> QED BY <1>3, <1>4, <1>5, <1>6, <1>7, <1>8, <1>9, <1>10, <1>11, <1>12 DEF Next, ApplyStep

(* The service is connected. *)
Live == phase \notin {"down", "dead", "offline"}

(* While it runs, the window holds all of the volatile store; k blocks of  *)
(* it while others are promoted, or after a restart with the peer that     *)
(* abandons none.                                                          *)
WinInv == Trusted =>
    /\ phase = "offline" /\ MaxRollback # 0 => Len(vol) <= K
    /\ phase = "add" /\ vol = <<>> => window = <<>>
    /\ Live =>
         /\ Below(window) + K >= Height(TipOf(window))
         /\ vol # <<>> =>
              \/ Below(window) = Below(vol)
              \/ /\ Below(window) + K = Height(TipOf(window))
                 /\ MaxRollback = 0 \/ phase \in {"append", "prune"}

(* WinInv holds at first ... *)
LEMMA WinInit == Init => WinInv
<1> SUFFICES ASSUME Init PROVE WinInv
  OBVIOUS
<1>1. vol = <<>> /\ phase = "offline" /\ K \in Nat
  BY SecurityParamAssumption DEF Init
<1>2. Len(vol) <= K
  BY <1>1
<1> QED BY <1>1, <1>2 DEF WinInv, Live

(* A ledger that is recovered ends at the tip of the stores. *)
LEMMA RecoveredTip ==
    ASSUME NEW im, NEW vo, NEW sn, NEW ba, NEW l \in Recovery(im, vo, sn, ba)
    PROVE  TipOf(l) = BestTip(im, vo) /\ Ascends(l)
  BY DEF Recovery

(* A process that starts with an empty ledger has empty stores. *)
LEMMA StartsEmpty ==
    ASSUME StoreInv, Restart, phase' = "offline", base' = <<>>
    PROVE  imm = <<>> /\ vol = <<>> /\ imm' = <<>> /\ vol' = <<>> /\ ledger' = <<>>
           /\ from' = Origin /\ <<>> \in Recovery(<<>>, <<>>, snaps, <<>>) /\ UNCHANGED snaps
<1>1. imm' = imm /\ vol' = vol
  BY Reopened DEF Restart
<1>2. ledger' \in Recovery(imm, vol, snaps, <<>>) /\ ledger' = <<>> /\ from' = BestTip(imm, vol) /\ UNCHANGED snaps
  BY <1>1 DEF Restart
<1>3. TipOf(<<>>) = BestTip(imm, vol)
  BY <1>2, RecoveredTip
<1>4. BestTip(imm, vol) = Origin
  BY <1>3 DEF TipOf
<1>5. vol = <<>>
  BY <1>4, StoredFacts, ChainTreeAssumption DEF BestTip
<1>6. imm = <<>>
  <2>1. TipOf(imm) = Origin
    BY <1>4, <1>5 DEF BestTip
  <2>2. imm \in Seq(Blocks)
    BY Types DEF StoreInv, TypeInv
  <2> QED BY <2>1, <2>2, TipType, ChainTreeAssumption
<1> QED BY <1>1, <1>2, <1>4, <1>5, <1>6

(* ... and every step keeps it. *)
LEMMA WinNext ==
    ASSUME MaxRollback < K, StoreInv, LineInv, WinInv, [Next]_vars
    PROVE  WinInv'
<1> DEFINE v == TipOf(vol)
           a == Below(vol)
           u == TipOf(window)
           w == Below(window)
<1>1. CASE Restart
  <2> SUFFICES ASSUME MaxRollback # 0, Trusted', phase' = "offline" PROVE Len(vol') <= K
    BY <1>1 DEF WinInv, Live, Restart
  <2>1. vol' = <<>>
    BY <1>1, StartsEmpty DEF Trusted
  <2> QED BY <2>1, SecurityParamAssumption
<1>2. CASE ~Restart
  <2> SUFFICES ASSUME Trusted' PROVE WinInv'
    BY DEF WinInv
  <2>1. Trusted /\ StoreInv'
    BY <1>2, TrustKept, StoreNext
  <2>2. /\ phase = "offline" /\ MaxRollback # 0 => Len(vol) <= K
        /\ phase = "add" /\ vol = <<>> => window = <<>>
        /\ Live => w + K >= Height(u)
        /\ Live /\ vol # <<>> =>
              w = a \/ (w + K = Height(u) /\ (MaxRollback = 0 \/ phase \in {"append", "prune"}))
    BY <2>1 DEF WinInv
  <2>3. ASSUME Exit PROVE WinInv'
    BY <2>3 DEF Exit, WinInv, Live
  <2>4. ASSUME UNCHANGED <<vol, window>>, phase' \notin {"offline", "add"}, Live,
               phase \in {"append", "prune"} => phase' \in {"append", "prune"}
        PROVE  WinInv'
    BY <2>2, <2>4 DEF WinInv
  <2>5. PhaseInv /\ window \in Seq(Blocks) /\ vol \in Seq(Blocks) /\ K \in Nat /\ PhaseInv' /\ TypeInv
    BY Types, StoredFacts, <2>1 DEF StoreInv, TypeInv
  <2>6. v \in Points /\ a \in Nat /\ Height(v) \in Nat /\ (vol = <<>> <=> v = Origin) /\ (vol = <<>> => a = 0)
        /\ vol = Seg(a, v) /\ a \in 0 .. Height(v)
    BY StoredFacts
  <2>7. CASE UNCHANGED vars
    BY <2>2, <2>7 DEF vars, disk, memory, WinInv, Live
  <2>8. CASE PeerAdopts
    BY <2>2, <2>8 DEF PeerAdopts, disk, memory, WinInv, Live
  <2>9. CASE Connect
    <3>1. phase = "offline" /\ phase' = "idle" /\ UNCHANGED vol
      BY <2>9 DEF Connect, disk
    <3>2. /\ Below(window') + K >= Height(TipOf(window'))
          /\ vol # <<>> => \/ Below(window') = a
                           \/ Below(window') + K = Height(TipOf(window')) /\ Len(vol) > K
      BY <2>9, StoreConnect
    <3>3. MaxRollback # 0 => ~(Len(vol) > K)
      BY <3>1, <2>2, <2>5
    <3> QED BY <3>1, <3>2, <3>3 DEF WinInv
  <2>10. CASE Drop
    <3>1. phase = "idle" /\ phase' = "offline" /\ UNCHANGED <<vol, window>>
      BY <2>10 DEF Drop, disk, memory
    <3>2. TipOf(window) = v /\ Live
      BY <3>1, <2>5 DEF PhaseInv, InIdle, Live
    <3>3. ASSUME MaxRollback # 0 PROVE Len(vol) <= K
      <4>1. Len(vol) = Height(v) - a
        BY <2>6, SegFacts
      <4>2. CASE vol = <<>>
        BY <4>2, <2>5
      <4>3. CASE vol # <<>>
        BY <4>1, <4>3, <3>1, <3>2, <3>3, <2>2, <2>5, <2>6
      <4> QED BY <4>2, <4>3
    <3> QED BY <3>1, <3>3 DEF WinInv, Live
  <2>11. CASE Crash
    BY <2>3, <2>11 DEF Crash
  <2>12. CASE ReceiveRollback \/ ReceiveForward \/ ReceiveForwardThenRollback
    <3>1. phase = "idle" /\ phase' \in {"add", "rollback"} /\ UNCHANGED <<vol, window>>
      BY <2>12 DEF ReceiveRollback, ReceiveForward, ReceiveForwardThenRollback, Receive, disk, memory
    <3>2. TipOf(window) = v /\ Live /\ IsSeg(window)
      BY <3>1, <2>5 DEF PhaseInv, InIdle, Live, Aligned
    <3>3. vol = <<>> => window = <<>>
      BY <3>2, <2>5, <2>6, SegOpen
    <3> QED BY <3>1, <3>2, <3>3, <2>2 DEF WinInv
  <2>13. CASE AddVolatile
    <3>1. phase = "add" /\ UNCHANGED window /\ phase' \in {"add", "track", "rollback"} /\ Live
      BY <2>13 DEF AddVolatile, Proceed, memory, Live
    <3>2. vol' # <<>> /\ Below(vol') = a
      BY <2>13, StoreAdd
    <3>3. vol = <<>> => w = a
      BY <3>1, <2>2, <2>6, SegEmpty
    <3> QED BY <3>1, <3>2, <3>3, <2>2 DEF WinInv
  <2>14. CASE RollbackVolatile
    <3>1. phase = "rollback" /\ UNCHANGED window /\ phase' \in {"track", "trackBack"} /\ Live
          /\ vol' = (IF batch.back = Origin THEN <<>>
                     ELSE IF batch.back \in ToSet(vol) THEN UpTo(vol, batch.back) ELSE vol)
      BY <2>14 DEF RollbackVolatile, Proceed, memory, Live
    <3>2. vol' # <<>> => vol # <<>> /\ Below(vol') = a
      BY <3>1, <2>5, <2>14, TipType, StoreRollback
    <3> QED BY <3>1, <3>2, <2>2 DEF WinInv
  <2>15. CASE TrackForward
    <3>1. phase = "track" /\ Live
      BY <2>15 DEF TrackForward, Live
    <3>2. CASE ~Exit
      <4>1. /\ TipOf(window') = top /\ Below(window') + K >= Height(top)
            /\ \/ Below(window') = w
               \/ Below(window') + K = Height(top) /\ phase' = "append"
            /\ w + K = Height(u) => Below(window') + K = Height(top)
            /\ phase' \in {"append", AfterForward} /\ UNCHANGED vol
        BY <3>2, <2>15, StoreTrackForward
      <4>2. phase' \notin {"add", "offline"}
        BY <4>1 DEF AfterForward
      <4> QED BY <4>1, <4>2, <3>1, <2>2 DEF WinInv
    <3> QED BY <3>2, <2>3
  <2>16. CASE AppendImmutable
    BY <2>4, <2>16 DEF AppendImmutable, Proceed, memory, Live
  <2>17. CASE PruneVolatile
    <3>1. phase = "prune" /\ phase' \notin {"add", "offline"} /\ UNCHANGED window /\ Live
      BY <2>17 DEF PruneVolatile, Proceed, memory, Live, AfterForward
    <3>2. Below(vol') = w
      BY <2>17, StorePrune
    <3> QED BY <3>1, <3>2, <2>2 DEF WinInv
  <2>18. CASE TrackBackward
    <3>1. phase = "trackBack" /\ Live
      BY <2>18 DEF TrackBackward, Live
    <3>2. CASE ~Exit
      <4>1. /\ phase' = "truncate" /\ UNCHANGED vol
            /\ \/ window' = <<>>
               \/ Below(window') = w /\ Height(TipOf(window')) <= Height(u)
            /\ batch.back = u => window' = window
        BY <3>2, <2>18, StoreTrackBack
      <4>2. MaxRollback = 0 => window' = window
        <5>1. batch.back # NoRollback
          BY <3>1, <2>5, SyncPipelineAssumption DEF PhaseInv, InTrackBack, Rolled
        <5> QED BY <5>1, <4>1, <3>1 DEF LineInv
      <4>3. CASE window' = <<>>
        <5>1. vol' = <<>>
          <6>1. TipOf(vol') = Origin
            BY <4>1, <4>3, <2>5 DEF PhaseInv, InApplied, TipOf
          <6> QED BY <6>1, <4>1, <2>6
        <5>2. Below(window') + K >= Height(TipOf(window'))
          BY <4>3, <2>5, SegEmpty, Heights
        <5> QED BY <5>1, <5>2, <4>1 DEF WinInv
      <4>4. CASE window' # <<>>
        <5>1. Height(TipOf(window')) \in Nat /\ Height(u) \in Nat /\ w \in Nat
          <6>1. window' \in Seq(Blocks) /\ IsSeg(window)
            BY <3>1, <2>1, <2>5 DEF StoreInv, TypeInv, TypeOK, PhaseInv, InTrackBack, Aligned
          <6> QED BY <6>1, <2>5, TipType, Heights, SegOpen
        <5>2. Below(window') + K >= Height(TipOf(window'))
          BY <5>1, <4>1, <4>4, <3>1, <2>2, <2>5
        <5>3. vol' # <<>> => Below(window') = Below(vol')
                             \/ (Below(window') + K = Height(TipOf(window')) /\ MaxRollback = 0)
          BY <4>1, <4>2, <4>4, <3>1, <2>2
        <5> QED BY <5>2, <5>3, <4>1 DEF WinInv
      <4> QED BY <4>3, <4>4
    <3> QED BY <3>2, <2>3
  <2>19. CASE TruncateSnapshots \/ TruncateSidecars \/ SaveSnapshot \/ RetainSnapshots
    BY <2>4, <2>19 DEF TruncateSnapshots, TruncateSidecars, SaveSnapshot, RetainSnapshots, Proceed, memory, Live
  <2>20. CASE AdvanceLedger
    BY <2>3, <2>4, <2>20 DEF AdvanceLedger, Proceed, disk, Live
  <2>21. CASE RecoverLedger
    BY <2>3, <2>4, <2>21 DEF RecoverLedger, Proceed, disk, Live
  <2>22. CASE SkipSnapshot \/ ClearSnapshots \/ RetainSidecars
    BY <2>4, <2>22 DEF SkipSnapshot, ClearSnapshots, RetainSidecars, BatchDone, disk, memory, Live
  <2>23. CASE SaveSidecar
    BY <2>3, <2>4, <2>23 DEF SaveSidecar, Proceed, memory, Live
  <2> QED BY <1>2, <2>7, <2>8, <2>9, <2>10, <2>11, <2>12, <2>13, <2>14, <2>15, <2>16, <2>17, <2>18,
             <2>19, <2>20, <2>21, <2>22, <2>23 DEF Next, ApplyStep
<1> QED BY <1>1, <1>2

-----------------------------------------------------------------------------
(* Recovery. *)

(* Each slot of a chain is above the one before. *)
LEMMA PathAscends ==
    ASSUME NEW x \in Points
    PROVE  Ascends(PathTo[x])
<1>1. Height(x) \in Nat /\ Len(PathTo[x]) = Height(x)
  BY Heights
<1>2. ASSUME NEW j \in 2 .. Height(x) PROVE Slot[PathTo[x][j - 1]] < Slot[PathTo[x][j]]
  <2>1. j \in 1 .. Height(x) /\ j - 1 \in 1 .. Height(x) /\ j - 1 < j
    BY <1>1
  <2> QED BY <2>1, SlotsAscend
<1> QED BY <1>1, <1>2 DEF Ascends

(* ImmutableSuffixAfter for two points of one chain: the immutable blocks  *)
(* after x.                                                                *)
LEMMA SuffixIs ==
    ASSUME NEW i \in Points, NEW x \in Points, NEW y \in Points, OnChain(i, y), OnChain(x, y)
    PROVE  /\ ImmutableSuffixAfter(PathTo[i], x) = IF OnChain(x, i) THEN Seg(Height(x), i) ELSE <<>>
           /\ SuffixFound(PathTo[i], x)
<1> DEFINE im == PathTo[i]
<1>1. /\ Height(i) \in Nat /\ Height(x) \in Nat /\ im \in Seq(Blocks) /\ Len(im) = Height(i)
      /\ Seg(0, i) = im /\ 0 \in 0 .. Height(i)
  BY Heights, SegWhole
<1>2. CASE x = Origin
  <2>1. OnChain(x, i) /\ Seg(Height(x), i) = im
    BY <1>1, <1>2, Heights DEF OnChain
  <2>2. ImmutableSuffixAfter(im, x) = im /\ SuffixFound(im, x)
    BY <1>2 DEF ImmutableSuffixAfter, SuffixFound
  <2> QED BY <2>1, <2>2
<1>3. CASE x # Origin /\ im = <<>>
  <2>1. ~OnChain(x, i)
    <3>1. ToSet(im) = {}
      BY <1>1, <1>3, TipType
    <3> QED BY <3>1, <1>3 DEF OnChain
  <2>2. ImmutableSuffixAfter(im, x) = im /\ SuffixFound(im, x)
    BY <1>3 DEF ImmutableSuffixAfter, SuffixFound
  <2> QED BY <2>1, <2>2, <1>3
<1>4. CASE x # Origin /\ im # <<>>
  <2>1. x \in Blocks /\ Height(x) > 0 /\ Height(i) > 0 /\ i \in Blocks
    <3>1. x \in Blocks
      BY <1>4 DEF Points
    <3>2. i # Origin
      BY <1>4, Paths
    <3>3. i \in Blocks
      BY <3>2 DEF Points
    <3> QED BY <3>1, <3>3, Heights
  <2>2. x \in ToSet(im) <=> OnChain(x, i)
    BY <1>4 DEF OnChain
  <2>3. im[1] \in Blocks /\ Height(im[1]) = 1 /\ OnChain(im[1], y)
    <3>1. 1 \in 0 .. Height(i) /\ 1 \in 1 .. Height(i)
      BY <2>1, <1>1
    <3>2. At(i, 1) = im[1]
      BY DEF At
    <3>3. im[1] \in Blocks /\ Height(im[1]) = 1
      BY <3>1, OnPath
    <3>4. OnChain(im[1], i) /\ im[1] \in Points
      BY <3>1, <3>2, Ancestor
    <3> QED BY <3>3, <3>4, ChainTrans
  <2>4. ~(Slot[x] < Slot[im[1]])
    <3>1. Slot[x] < Slot[im[1]] <=> Height(x) < Height(im[1])
      BY <2>1, <2>3, ChainSlots
    <3>2. ~(Height(x) < 1)
      BY <2>1, <1>1
    <3> QED BY <3>1, <3>2, <2>3
  <2>5. CASE OnChain(x, i)
    <3>1. x \in ToSet(im) /\ x \in ToSet(Seg(0, i))
      BY <2>2, <2>5, <1>1
    <3>2. After(Seg(0, i), x) = Seg(Height(x), i)
      BY <3>1, <1>1, SegCut
    <3>3. ImmutableSuffixAfter(im, x) = After(im, x)
      BY <3>1, <2>4, <1>4 DEF ImmutableSuffixAfter
    <3>4. SuffixFound(im, x)
      BY <3>1 DEF SuffixFound
    <3> QED BY <3>2, <3>3, <3>4, <2>5, <1>1
  <2>6. CASE ~OnChain(x, i)
    <3>1. ImmutableSuffixAfter(im, x) = <<>>
      BY <2>2, <2>4, <2>6, <1>4 DEF ImmutableSuffixAfter
    <3>2. TipOf(im) = i
      BY <1>1, SegTip
    <3>3. Slot[x] > Slot[i]
      <4>1. Slot[x] \in Nat /\ Slot[i] \in Nat /\ (Slot[x] <= Slot[i] <=> OnChain(x, i))
        BY <2>1, ChainSlots
      <4> QED BY <4>1, <2>6
    <3>4. SuffixFound(im, x)
      BY <3>2, <3>3 DEF SuffixFound
    <3> QED BY <3>1, <3>4, <2>6
  <2> QED BY <2>5, <2>6
<1> QED BY <1>2, <1>3, <1>4

(* The tip of the two stores. *)
LEMMA BestTipIs ==
    ASSUME NEW i \in Points, NEW v \in Points, OnChain(i, v), NEW a \in 0 .. Height(v), v = Origin \/ a < Height(v)
    PROVE  BestTip(PathTo[i], Seg(a, v)) = v
<1>1. CASE a < Height(v)
  <2>1. TipOf(Seg(a, v)) = v /\ a # Height(v) /\ Seg(a, v) # <<>>
    BY <1>1, SegTip, Heights
  <2> QED BY <2>1 DEF BestTip
<1>2. CASE v = Origin
  <2>1. i = Origin
    BY <1>2, Paths, TipType DEF OnChain
  <2>2. a = 0
    BY <1>2, Heights
  <2> QED BY <2>1, <2>2, <1>2, SegEmpty, Paths DEF BestTip
<1> QED BY <1>1, <1>2

(* What is replayed after a state at x, when the volatile chain goes on    *)
(* from the immutable one: the rest of the chain.                          *)
LEMMA ReplayIs ==
    ASSUME NEW i \in Points, NEW v \in Points, NEW x \in Points, OnChain(i, v), OnChain(x, v),
           NEW a \in 0 .. Height(v), a <= Height(i)
    PROVE  ReplayBlocks(PathTo[i], Seg(a, v), x) = Seg(Height(x), v) /\ SuffixFound(PathTo[i], x)
<1> DEFINE suffix == ImmutableSuffixAfter(PathTo[i], x)
           anchor == IF suffix = <<>> THEN x ELSE TipOf(suffix)
<1>1. suffix = (IF OnChain(x, i) THEN Seg(Height(x), i) ELSE <<>>) /\ SuffixFound(PathTo[i], x)
  BY SuffixIs
<1>2. Height(i) \in Nat /\ Height(x) \in Nat /\ Height(v) \in Nat /\ a \in Nat
  BY Heights
<1>3. ReplayBlocks(PathTo[i], Seg(a, v), x) = suffix \o VolatileReplayAfter(Seg(a, v), anchor)
  BY DEF ReplayBlocks
<1> HIDE DEF suffix
<1>4. ASSUME NEW z \in Points, OnChain(z, v), Height(z) >= a
      PROVE  VolatileReplayAfter(Seg(a, v), z) = Seg(Height(z), v)
  <2>1. z \in ToSet(Seg(a, v)) <=> Height(z) > a
    BY <1>4, SegHolds
  <2>2. CASE z \in ToSet(Seg(a, v))
    BY <2>2, SegCut DEF VolatileReplayAfter
  <2>3. CASE z \notin ToSet(Seg(a, v))
    <3>1. Height(z) \in Nat
      BY Heights
    <3>2. Height(z) = a
      BY <3>1, <2>1, <2>3, <1>2, <1>4
    <3> QED BY <3>2, <2>3 DEF VolatileReplayAfter
  <2> QED BY <2>2, <2>3
<1>5. CASE OnChain(x, i)
  <2>1. /\ suffix = Seg(Height(x), i) /\ Height(x) <= Height(i)
        /\ Height(x) \in 0 .. Height(i) /\ Height(x) \in 0 .. Height(x)
    BY <1>1, <1>2, <1>5, OnChainAt
  <2>2. anchor = i
    <3>1. CASE suffix = <<>>
      <4>1. Height(x) = Height(i)
        BY <2>1, <3>1, SegTip
      <4>2. x = i
        BY <4>1, <1>2, <1>5, ChainEqual
      <4> QED BY <3>1, <4>2
    <3>2. CASE suffix # <<>>
      <4>1. Height(x) # Height(i)
        BY <2>1, <3>2, SegTip
      <4>2. Height(x) < Height(i)
        BY <4>1, <2>1, <1>2
      <4> QED BY <4>2, <2>1, <3>2, SegTip
    <3> QED BY <3>1, <3>2
  <2>3. VolatileReplayAfter(Seg(a, v), anchor) = Seg(Height(i), v)
    BY <2>2, <1>2, <1>4
  <2>4. Seg(Height(x), i) \o Seg(Height(i), v) = Seg(Height(x), v)
    BY <2>1, SegJoin
  <2> QED BY <2>1, <2>3, <2>4, <1>1, <1>3
<1>6. CASE ~OnChain(x, i)
  <2>1. suffix = <<>> /\ anchor = x
    BY <1>1, <1>6
  <2>2. Height(x) >= a
    <3>1. ~(Height(x) <= Height(i))
      BY <1>6, ChainLinear
    <3> QED BY <3>1, <1>2
  <2>3. VolatileReplayAfter(Seg(a, v), anchor) = Seg(Height(x), v)
    BY <2>1, <2>2, <1>4
  <2>4. Seg(Height(x), v) \in Seq(Blocks)
    <3>1. Height(x) \in 0 .. Height(v)
      BY <1>2, OnChainAt
    <3> QED BY <3>1, SegFacts
  <2>5. <<>> \o Seg(Height(x), v) = Seg(Height(x), v)
    BY <2>4
  <2> QED BY <2>1, <2>3, <2>5, <1>1, <1>3
<1> QED BY <1>5, <1>6

(* The files hold states of the chain of x. *)
FilesOn(files, x) == \A f \in files : f.state = PathTo[f.point] /\ OnChain(f.point, x)

(* Recovery begins with a state of the chain. *)
LEMMA RestoredOn ==
    ASSUME NEW im \in Seq(Blocks), NEW vo \in Seq(Blocks), NEW v \in Points, NEW sn \in SUBSET Files, FilesOn(sn, v),
           NEW y \in Points, OnChain(y, v), NEW s \in RestoredFrom(im, vo, sn, PathTo[y])
    PROVE  \E x \in Points : s = PathTo[x] /\ OnChain(x, v) /\ TipOf(s) = x
<1>1. \E x \in Points : s = PathTo[x] /\ OnChain(x, v)
  <2>1. CASE s = PathTo[y]
    BY <2>1
  <2>2. CASE s # PathTo[y]
    <3>1. PICK f \in sn : s = f.state
      BY <2>2 DEF RestoredFrom, RetainLatest, AtOrBefore
    <3>2. f.point \in Points /\ s = PathTo[f.point] /\ OnChain(f.point, v)
      BY <3>1 DEF FilesOn, Files, Points
    <3> QED BY <3>2
  <2> QED BY <2>1, <2>2
<1>2. ASSUME NEW x \in Points PROVE TipOf(PathTo[x]) = x
  <2>1. 0 \in 0 .. Height(x)
    BY Heights
  <2> QED BY <2>1, SegTip
<1> QED BY <1>1, <1>2

(* recover_ledger_state_chaindb, when the volatile chain goes on from the  *)
(* immutable one: the ledger of the tip.                                   *)
LEMMA RecoveryIs ==
    ASSUME NEW i \in Points, NEW v \in Points, OnChain(i, v), NEW a \in 0 .. Height(v), a <= Height(i),
           v = Origin \/ a < Height(v), NEW sn \in SUBSET Files, FilesOn(sn, v), NEW y \in Points, OnChain(y, v)
    PROVE  /\ Recovery(PathTo[i], Seg(a, v), sn, PathTo[y]) \subseteq {PathTo[v]}
           /\ RestoredFrom(PathTo[i], Seg(a, v), sn, PathTo[y]) # {} =>
                 Recovery(PathTo[i], Seg(a, v), sn, PathTo[y]) = {PathTo[v]}
<1> DEFINE im == PathTo[i]
           vo == Seg(a, v)
           from0 == RestoredFrom(im, vo, sn, PathTo[y])
<1>1. ASSUME NEW s \in from0
      PROVE  SuffixFound(im, TipOf(s)) /\ s \o ReplayBlocks(im, vo, TipOf(s)) = PathTo[v]
  <2>1. PICK x \in Points : s = PathTo[x] /\ OnChain(x, v) /\ TipOf(s) = x
    <3>1. im \in Seq(Blocks) /\ vo \in Seq(Blocks)
      BY Heights, SegFacts
    <3> HIDE DEF im, vo
    <3> QED BY <3>1, <1>1, RestoredOn
  <2>2. SuffixFound(im, x) /\ ReplayBlocks(im, vo, x) = Seg(Height(x), v)
    BY <2>1, ReplayIs
  <2>3. Seg(0, x) \o Seg(Height(x), v) = Seg(0, v) /\ Seg(0, x) = PathTo[x] /\ Seg(0, v) = PathTo[v]
    <3>1. 0 \in 0 .. Height(x)
      BY Heights
    <3> QED BY <3>1, <2>1, SegJoin, SegWhole
  <2> QED BY <2>1, <2>2, <2>3
<1>2. Ascends(PathTo[v]) /\ TipOf(PathTo[v]) = BestTip(im, vo)
  <2>1. 0 \in 0 .. Height(v)
    BY Heights
  <2> QED BY <2>1, PathAscends, BestTipIs, SegTip
<1> HIDE DEF im, vo, from0
<1>3. Recovery(im, vo, sn, PathTo[y]) =
         {l \in {s \o ReplayBlocks(im, vo, TipOf(s)) : s \in {r \in from0 : SuffixFound(im, TipOf(r))}} :
             Ascends(l) /\ TipOf(l) = BestTip(im, vo)}
  BY DEF Recovery, from0
<1>4. Recovery(im, vo, sn, PathTo[y]) \subseteq {PathTo[v]}
  BY <1>1, <1>3
<1>5. from0 # {} => PathTo[v] \in Recovery(im, vo, sn, PathTo[y])
  BY <1>1, <1>2, <1>3
<1> QED BY <1>4, <1>5 DEF im, vo, from0

(* When the immutable chain goes beyond the volatile one, the volatile     *)
(* blocks are replayed after it, which fails.                              *)
LEMMA RecoveryFails ==
    ASSUME NEW i \in Points, NEW v \in Points, OnChain(v, i), v # i, NEW a \in Nat, a < Height(v),
           NEW sn \in SUBSET Files, FilesOn(sn, v), NEW y \in Points, OnChain(y, v)
    PROVE  Recovery(PathTo[i], Seg(a, v), sn, PathTo[y]) = {}
<1> DEFINE im == PathTo[i]
           vo == Seg(a, v)
           b == At(v, a + 1)
<1>1. /\ Height(i) \in Nat /\ Height(v) \in Nat /\ Height(v) < Height(i) /\ a \in 0 .. Height(v)
      /\ im \in Seq(Blocks) /\ Len(im) = Height(i) /\ i \in Blocks
  <2>1. Height(i) \in Nat /\ Height(v) \in Nat /\ im \in Seq(Blocks) /\ Len(im) = Height(i) /\ Height(v) <= Height(i)
    BY Heights, OnChainAt
  <2>2. ~(Height(v) >= Height(i))
    BY ChainEqual
  <2>3. Height(i) > 0
    BY <2>1, <2>2
  <2>4. i \in Blocks
    BY <2>3, Heights DEF Points
  <2> QED BY <2>1, <2>2, <2>4
<1>2. /\ b \in Blocks /\ Height(b) = a + 1 /\ OnChain(b, v) /\ vo \in Seq(Blocks) /\ Len(vo) = Height(v) - a
      /\ vo[1] = b
  <2>1. b \in Blocks /\ Height(b) = a + 1 /\ OnChain(b, v)
    BY <1>1, SegHead
  <2>2. 1 \in 1 .. Height(v) - a
    BY <1>1
  <2>3. vo \in Seq(Blocks) /\ Len(vo) = Height(v) - a /\ vo[1] = At(v, a + 1)
    BY <2>2, <1>1, SegFacts
  <2> QED BY <2>1, <2>3
<1>3. ~(Slot[i] < Slot[b])
  <2>1. b \in Points /\ OnChain(b, i)
    BY <1>2, ChainTrans DEF Points
  <2>2. Slot[i] \in Nat /\ Slot[b] \in Nat /\ Slot[b] <= Slot[i]
    BY <2>1, <1>1, <1>2, ChainRefl, ChainSlots
  <2> QED BY <2>2
<1>4. ~Ascends(im \o vo)
  <2>1. Height(i) + 1 \in 2 .. Len(im \o vo) /\ (Height(i) + 1) - 1 = Height(i)
    BY <1>1, <1>2, Heights
  <2>2. (im \o vo)[Height(i)] = i /\ (im \o vo)[Height(i) + 1] = b
    <3>1. (im \o vo)[Height(i)] = im[Height(i)] /\ (im \o vo)[Height(i) + 1] = vo[1]
      <4> HIDE DEF im, vo, b
      <4>1. Height(i) > 0 /\ Height(i) \in 1 .. Len(im) /\ Len(vo) > 0
        BY <1>1, <1>2, Heights
      <4> QED BY <4>1, <1>1, <1>2
    <3> QED BY <3>1, <1>1, <1>2, Heights
  <2> HIDE DEF im, vo, b
  <2> QED BY <2>1, <2>2, <1>3 DEF Ascends
<1>5. ASSUME NEW s \in RestoredFrom(im, vo, sn, PathTo[y])
      PROVE  s \o ReplayBlocks(im, vo, TipOf(s)) = im \o vo
  <2>1. PICK x \in Points : s = PathTo[x] /\ OnChain(x, v) /\ TipOf(s) = x
    <3> HIDE DEF im, vo
    <3> QED BY <1>1, <1>2, <1>5, RestoredOn
  <2>2. OnChain(x, i) /\ OnChain(i, i) /\ Height(x) <= Height(v) /\ Height(x) \in Nat
    BY <2>1, ChainTrans, ChainRefl, OnChainAt, Heights
  <2>3. ImmutableSuffixAfter(im, x) = Seg(Height(x), i)
    BY <2>2, SuffixIs
  <2>4. TipOf(Seg(Height(x), i)) = i /\ Seg(Height(x), i) # <<>>
    <3>1. Height(x) < Height(i)
      BY <2>2, <1>1
    <3> QED BY <3>1, <2>2, SegMake
  <2>5. i \notin ToSet(vo)
    <3>1. ~OnChain(i, v)
      BY <1>1, OnChainAt
    <3> QED BY <3>1, <1>1, SegHolds
  <2>6. ReplayBlocks(im, vo, x) = Seg(Height(x), i) \o vo
    BY <2>3, <2>4, <2>5 DEF ReplayBlocks, VolatileReplayAfter
  <2>7. PathTo[x] \o Seg(Height(x), i) = im
    <3>1. 0 \in 0 .. Height(x)
      BY <2>2
    <3>2. Seg(0, x) \o Seg(Height(x), i) = Seg(0, i)
      BY <3>1, <2>2, <1>1, SegJoin
    <3>3. Seg(0, x) = PathTo[x] /\ Seg(0, i) = PathTo[i]
      BY <1>1, SegWhole
    <3> QED BY <3>2, <3>3
  <2>8. PathTo[x] \in Seq(Blocks) /\ Seg(Height(x), i) \in Seq(Blocks)
    <3>1. Height(x) \in 0 .. Height(i)
      BY <2>2, <1>1
    <3> QED BY <3>1, Heights, SegFacts
  <2>9. PathTo[x] \o (Seg(Height(x), i) \o vo) = (PathTo[x] \o Seg(Height(x), i)) \o vo
    <3>1. \A p, q, r \in Seq(Blocks) : p \o (q \o r) = (p \o q) \o r
      OBVIOUS
    <3> QED BY <3>1, <2>8, <1>2
  <2> QED BY <2>1, <2>6, <2>7, <2>9
<1> HIDE DEF im, vo
<1>6. Recovery(im, vo, sn, PathTo[y]) = {}
  BY <1>4, <1>5 DEF Recovery
<1> QED BY <1>6 DEF im, vo

-----------------------------------------------------------------------------
(* The snapshots and the ledger. *)

(* A snapshot is never of the ledger at Origin, and only a rollback        *)
(* truncates.                                                              *)
FileInv ==
    /\ \A f \in snaps : f.state # <<>>
    /\ phase \in {"truncate", "truncateSides"} => batch.back # NoRollback

(* A batch whose rollback to Origin comes after forward blocks: the ledger *)
(* keeps these blocks although the read pointer goes to Origin, and the    *)
(* service ends when it saves the sidecar.                                 *)
Mixed == batch.back = Origin /\ batch.fwd # <<>>

(* The base state is one of the stored chain. *)
BaseInv == Trusted => \E x \in Points : base = PathTo[x] /\ OnChain(x, TipOf(vol))

(* The phases between the rollback of the store and that of the snapshots. *)
Truncating == {"track", "append", "prune", "trackBack", "truncate"}

(* The snapshots are of the stored chain; between the rollback of the      *)
(* store and their own, of one that goes on from the rollback point.       *)
SnapInv == Trusted =>
    IF MaxRollback = 0 \/ batch.back = NoRollback \/ phase \notin Truncating
    THEN \/ phase = "retain" /\ Mixed
         \/ phase = "sidecar" /\ Mixed /\ from = Origin
         \/ FilesOn(snaps, TipOf(vol))
    ELSE \E x \in Points : OnChain(batch.back, x) /\ FilesOn(snaps, x)

(* The forward blocks of a batch without rollback are being stored. *)
Forwarding == phase \in {"add", "track", "append", "prune", "ledger"} /\ batch.back = NoRollback

(* The ledger is that of the read pointer, where the batch has left it. *)
LedgerInv == Trusted =>
    /\ Settled \/ Forwarding => ledger = PathTo[from]
    /\ phase \in {"save", "retain"} => IF Mixed THEN ledger # <<>> ELSE ledger = PathTo[Target]
    /\ phase \in {"sidecar", "retainSides"} =>
         ledger = PathTo[from] \/ (phase = "sidecar" /\ from = Origin)

(* States of a chain are states of the chains that go on from it. *)
LEMMA FilesUp ==
    ASSUME NEW sn \in SUBSET Files, NEW x \in Points, NEW y \in Points, FilesOn(sn, x), OnChain(x, y)
    PROVE  FilesOn(sn, y)
<1>1. ASSUME NEW f \in sn PROVE f.point \in Points
  BY DEF Files, Points
<1>2. ASSUME NEW f \in sn PROVE OnChain(f.point, y)
  BY <1>1, ChainTrans DEF FilesOn
<1> QED BY <1>2 DEF FilesOn

(* No state but the initial one is of the chain of Origin. *)
LEMMA FilesOrigin ==
    ASSUME NEW sn \in SUBSET Files, FilesOn(sn, Origin)
    PROVE  sn = {}
<1>1. ASSUME NEW f \in sn PROVE FALSE
  <2>1. f.point \in Blocks /\ OnChain(f.point, Origin)
    BY <1>1 DEF FilesOn, Files
  <2>2. f.point # Origin
    BY <2>1, Heights
  <2>3. PathTo[Origin] \in Seq(Blocks) /\ PathTo[Origin] = <<>>
    BY Heights, Paths
  <2>4. ToSet(PathTo[Origin]) = {}
    BY <2>3, TipType
  <2> QED BY <2>1, <2>2, <2>4 DEF OnChain
<1> QED BY <1>1

(* truncate_after leaves the states of the chain up to the point. *)
LEMMA FilesTruncated ==
    ASSUME NEW sn \in SUBSET Files, NEW x \in Points, NEW y \in Points, OnChain(y, x), FilesOn(sn, x)
    PROVE  FilesOn(TruncateAfter(sn, y), y)
<1>1. ASSUME NEW f \in TruncateAfter(sn, y) PROVE f.state = PathTo[f.point] /\ OnChain(f.point, y)
  <2>1. f \in sn /\ f.point \in Blocks /\ f.point # Origin /\ SlotOf(f.point) <= SlotOf(y)
    BY Heights DEF TruncateAfter, AtOrBefore, Files
  <2>2. f.state = PathTo[f.point] /\ OnChain(f.point, x) /\ f.point \in Points
    BY <2>1 DEF FilesOn, Points
  <2>3. Slot[f.point] \in Nat /\ Slot[f.point] > 0
    BY <2>1, ChainTreeAssumption
  <2>4. y # Origin
    BY <2>1, <2>3 DEF SlotOf
  <2>5. y \in Blocks
    BY <2>4 DEF Points
  <2>6. Slot[f.point] <= Slot[y]
    BY <2>1, <2>4 DEF SlotOf
  <2>7. OnChain(f.point, y)
    BY <2>1, <2>2, <2>5, <2>6, ChainSlots
  <2> QED BY <2>2, <2>7
<1> QED BY <1>1 DEF FilesOn

(* The volatile tip of a peer that never abandons a block only moves on. *)
LEMMA VolGrows ==
    ASSUME StoreInv, LineInv, [Next]_vars, MaxRollback = 0
    PROVE  OnChain(TipOf(vol), TipOf(vol')) /\ (phase = "rollback" => vol' = vol)
<1> DEFINE v == TipOf(vol)
<1>1. v \in Points /\ OnChain(v, v)
  BY StoredFacts, ChainRefl
<1>2. CASE vol' = vol
  BY <1>1, <1>2
<1>3. CASE AddVolatile
  BY <1>3, StoreAdd DEF AddVolatile
<1>4. CASE RollbackVolatile
  <2>1. batch.back # NoRollback
    BY <1>4, SyncPipelineAssumption DEF RollbackVolatile, StoreInv, PhaseInv, InRollback
  <2>2. vol' = vol
    BY <2>1, <1>4, StoreRollback DEF LineInv
  <2> QED BY <2>2, <1>2
<1>5. CASE PruneVolatile
  BY <1>1, <1>5, StorePrune DEF PruneVolatile
<1>6. CASE Restart
  BY <1>2, <1>6, Reopened DEF Restart
<1>7. \/ UNCHANGED vars \/ PeerAdopts \/ Connect \/ Drop \/ Crash \/ ReceiveRollback \/ ReceiveForward
      \/ ReceiveForwardThenRollback \/ TrackForward \/ AppendImmutable \/ TrackBackward
      \/ TruncateSnapshots \/ TruncateSidecars \/ AdvanceLedger \/ RecoverLedger
      \/ SaveSnapshot \/ SkipSnapshot \/ ClearSnapshots \/ RetainSnapshots \/ SaveSidecar \/ RetainSidecars
      => vol' = vol
  BY DEF vars, disk, PeerAdopts, Connect, Drop, Crash, ReceiveRollback, ReceiveForward,
         ReceiveForwardThenRollback, Receive, TrackForward, AppendImmutable, TrackBackward,
         TruncateSnapshots, TruncateSidecars, AdvanceLedger, RecoverLedger, SaveSnapshot, SkipSnapshot,
         ClearSnapshots, RetainSnapshots, SaveSidecar, RetainSidecars
<1> QED BY <1>2, <1>3, <1>4, <1>5, <1>6, <1>7 DEF Next, ApplyStep

(* The actions that change the stores of states are four. *)
LEMMA FileNext ==
    ASSUME StoreInv, FileInv, [Next]_vars
    PROVE  FileInv'
<1>1. ASSUME snaps' = snaps,
             \/ phase' = phase /\ batch' = batch
             \/ phase' \notin {"truncate", "truncateSides"}
      PROVE  FileInv'
  BY <1>1 DEF FileInv
<1>2. CASE UNCHANGED vars
  BY <1>1, <1>2 DEF vars, disk
<1>3. CASE PeerAdopts
  BY <1>1, <1>3 DEF PeerAdopts, disk
<1>4. CASE Restart \/ Connect \/ Drop \/ Crash
  BY <1>1, <1>4 DEF Restart, Connect, Drop, Crash, Exit, disk
<1>5. CASE ReceiveRollback \/ ReceiveForward \/ ReceiveForwardThenRollback
  BY <1>1, <1>5 DEF ReceiveRollback, ReceiveForward, ReceiveForwardThenRollback, Receive, disk
<1>6. CASE AddVolatile \/ RollbackVolatile \/ AppendImmutable \/ PruneVolatile
  BY <1>1, <1>6 DEF AddVolatile, RollbackVolatile, AppendImmutable, PruneVolatile, Proceed, AfterForward
<1>7. CASE TrackForward
  BY <1>1, <1>7 DEF TrackForward, Proceed, AfterForward, Exit, disk
<1>8. CASE TrackBackward
  <2>1. batch.back # NoRollback
    BY <1>8, SyncPipelineAssumption DEF TrackBackward, StoreInv, PhaseInv, InTrackBack, Rolled
  <2>2. snaps' = snaps /\ (phase' = "down" \/ batch' = batch)
    BY <1>8 DEF TrackBackward, Proceed, Exit, disk
  <2> QED BY <2>1, <2>2 DEF FileInv
<1>9. CASE TruncateSnapshots
  BY <1>9 DEF TruncateSnapshots, TruncateAfter, AtOrBefore, FileInv, Proceed
<1>10. CASE TruncateSidecars
  BY <1>1, <1>10 DEF TruncateSidecars, Proceed
<1>11. CASE AdvanceLedger \/ RecoverLedger
  BY <1>1, <1>11 DEF AdvanceLedger, RecoverLedger, Proceed, Exit, disk
<1>12. CASE SaveSnapshot
  BY <1>12 DEF SaveSnapshot, Save, File, FileInv, Proceed
<1>13. CASE SkipSnapshot \/ RetainSidecars
  BY <1>1, <1>13 DEF SkipSnapshot, RetainSidecars, BatchDone, disk
<1>14. CASE ClearSnapshots
  BY <1>14 DEF ClearSnapshots, FileInv, BatchDone
<1>15. CASE RetainSnapshots
  BY <1>15 DEF RetainSnapshots, RetainLatest, FileInv, Proceed
<1>16. CASE SaveSidecar
  BY <1>1, <1>16 DEF SaveSidecar, Proceed, Exit
<1> QED BY <1>2, <1>3, <1>4, <1>5, <1>6, <1>7, <1>8, <1>9, <1>10, <1>11, <1>12, <1>13, <1>14, <1>15, <1>16
        DEF Next, ApplyStep

(* A start with the stores of a peer that never abandons a block. *)
LEMMA RestartLine ==
    ASSUME StoreInv, LineInv, SnapInv, MaxRollback = 0, Restart
    PROVE  /\ vol' = vol /\ imm' = imm
           /\ \/ phase' = "dead" /\ UNCHANGED memory
              \/ /\ phase' = "offline" /\ base' = PathTo[TipOf(vol)] /\ ledger' = base'
                 /\ from' = TipOf(vol)
<1> DEFINE i == TipOf(imm)
           v == TipOf(vol)
           a == Below(vol)
<1>1. vol' = vol /\ imm' = imm
  BY Reopened DEF Restart
<1>2. /\ i \in Points /\ v \in Points /\ a \in 0 .. Height(v) /\ a <= Height(i)
      /\ v = Origin \/ a < Height(v)
      /\ imm = PathTo[i] /\ vol = Seg(a, v)
  BY StoredFacts
<1>3. OnChain(i, v)
  <2>1. Height(i) <= Height(v) /\ Comparable(i, v) /\ Height(i) \in Nat /\ Height(v) \in Nat
    BY StoredFacts DEF LineInv
  <2>2. OnChain(v, i) => v = i
    BY <2>1, <1>2, ChainEqual
  <2> QED BY <2>1, <2>2, <1>2 DEF Comparable
<1>4. snaps \in SUBSET Files /\ FilesOn(snaps, v)
  <2>1. snaps \in SUBSET Files
    BY Types DEF StoreInv, TypeInv
  <2>2. phase = "down"
    BY DEF Restart
  <2> QED BY <2>1, <2>2 DEF SnapInv, Trusted
<1>5. PathTo[Origin] = <<>> /\ Origin \in Points /\ OnChain(Origin, v)
  BY <1>2, Paths, Heights, ChainRefl
<1>6. Recovery(imm, vol, snaps, <<>>) \subseteq {PathTo[v]} /\ BestTip(imm, vol) = v
  <2>1. Recovery(PathTo[i], Seg(a, v), snaps, PathTo[Origin]) \subseteq {PathTo[v]}
    <3> HIDE DEF i, v, a
    <3> QED BY <1>2, <1>3, <1>4, <1>5, RecoveryIs
  <2>2. BestTip(PathTo[i], Seg(a, v)) = v
    <3> HIDE DEF i, v, a
    <3> QED BY <1>2, <1>3, BestTipIs
  <2> QED BY <2>1, <2>2, <1>2, <1>5
<1> HIDE DEF i, v, a
<1>7. \/ phase' = "dead" /\ UNCHANGED memory
      \/ /\ phase' = "offline" /\ ledger' \in Recovery(imm', vol', snaps, <<>>) /\ base' = ledger'
         /\ from' = BestTip(imm', vol')
  BY DEF Restart
<1>8. \/ phase' = "dead" /\ UNCHANGED memory
      \/ phase' = "offline" /\ base' = PathTo[v] /\ ledger' = base' /\ from' = v
  BY <1>1, <1>6, <1>7
<1> QED BY <1>1, <1>8 DEF v

(* Every step keeps the base state on the stored chain. *)
LEMMA BaseNext ==
    ASSUME StoreInv, LineInv, SnapInv, BaseInv, [Next]_vars
    PROVE  BaseInv'
<1> SUFFICES ASSUME Trusted' PROVE \E x \in Points : base' = PathTo[x] /\ OnChain(x, TipOf(vol'))
  BY DEF BaseInv
<1>1. PathTo[Origin] = <<>> /\ Origin \in Points /\ OnChain(Origin, TipOf(vol'))
  BY Paths, Heights DEF OnChain
<1>2. CASE base' = <<>>
  BY <1>1, <1>2
<1>3. CASE MaxRollback # 0
  BY <1>2, <1>3 DEF Trusted
<1>4. CASE MaxRollback = 0 /\ Restart
  <2>1. TipOf(vol) \in Points /\ OnChain(TipOf(vol), TipOf(vol)) /\ vol' = vol
    BY <1>4, StoredFacts, ChainRefl, RestartLine
  <2>2. CASE base' = PathTo[TipOf(vol)]
    BY <2>1, <2>2
  <2>3. CASE base' = base
    BY <2>1, <2>3, <1>4 DEF BaseInv, Trusted
  <2> QED BY <2>2, <2>3, <1>4, RestartLine DEF memory
<1>5. CASE MaxRollback = 0 /\ base' = base
  <2>1. PICK x \in Points : base = PathTo[x] /\ OnChain(x, TipOf(vol))
    BY <1>5 DEF BaseInv, Trusted
  <2>2. TipOf(vol) \in Points /\ TipOf(vol') \in Points
    <3>1. vol' \in Seq(Blocks)
      BY TypeNext DEF StoreInv, TypeInv, TypeOK
    <3> QED BY <3>1, TipType, StoredFacts
  <2>3. OnChain(x, TipOf(vol'))
    BY <2>1, <2>2, <1>5, VolGrows, ChainTrans
  <2> QED BY <2>1, <2>3, <1>5
<1>6. Restart \/ base' = <<>> \/ base' = base
  BY DEF Next, ApplyStep, vars, memory, PeerAdopts, Connect, Drop, Crash, Exit, ReceiveRollback, ReceiveForward,
         ReceiveForwardThenRollback, Receive, AddVolatile, RollbackVolatile, TrackForward, AppendImmutable,
         PruneVolatile, TrackBackward, TruncateSnapshots, TruncateSidecars, AdvanceLedger, RecoverLedger,
         SaveSnapshot, SkipSnapshot, ClearSnapshots, RetainSnapshots, SaveSidecar, RetainSidecars
<1> QED BY <1>2, <1>3, <1>4, <1>5, <1>6

(* A process with an empty base state starts with no snapshot. *)
LEMMA StartsBare ==
    ASSUME StoreInv, FileInv, Restart, phase' = "offline", base' = <<>>
    PROVE  vol' = <<>> /\ snaps' = {}
<1>1. vol' = <<>> /\ <<>> \in Recovery(<<>>, <<>>, snaps, <<>>) /\ snaps' = snaps
  BY StartsEmpty
<1>2. PICK s \in RestoredFrom(<<>>, <<>>, snaps, <<>>) : <<>> = s \o ReplayBlocks(<<>>, <<>>, TipOf(s))
  BY <1>1 DEF Recovery
<1>3. snaps \in SUBSET Files
  BY Types DEF StoreInv, TypeInv
<1>4. snaps = {}
  <2>1. SUFFICES ASSUME snaps # {} PROVE FALSE
    OBVIOUS
  <2>2. BestTip(<<>>, <<>>) = Origin
    BY SegEmpty DEF BestTip
  <2>3. PICK f \in snaps : s = f.state
    BY <2>1, <2>2, <1>2 DEF RestoredFrom, RetainLatest
  <2>4. s \in Seq(Blocks) /\ s # <<>>
    BY <2>3, <1>3 DEF Files, FileInv
  <2>5. ReplayBlocks(<<>>, <<>>, TipOf(s)) \in Seq(Blocks)
    <3>1. <<>> \in Seq(Blocks) /\ TipOf(s) \in Points
      BY <2>4, TipType
    <3> QED BY <3>1, ReplayType
  <2>6. Len(s \o ReplayBlocks(<<>>, <<>>, TipOf(s))) # 0
    <3> DEFINE r == ReplayBlocks(<<>>, <<>>, TipOf(s))
    <3> HIDE DEF r
    <3> QED BY <2>4, <2>5 DEF r
  <2> QED BY <2>6, <1>2
<1> QED BY <1>1, <1>4

(* Where the snapshots are those of the stored chain. *)
LEMMA SnapsOn ==
    ASSUME LineInv, SnapInv, Trusted,
           \/ MaxRollback = 0
           \/ phase \notin {"retain", "sidecar"} /\ (batch.back = NoRollback \/ phase \notin Truncating)
    PROVE  FilesOn(snaps, TipOf(vol))
<1>1. MaxRollback = 0 => ~Mixed
  <2>1. Origin # NoRollback
    BY SyncPipelineAssumption DEF Points
  <2> QED BY <2>1 DEF LineInv, Mixed
<1> QED BY <1>1 DEF SnapInv

(* Every step keeps the snapshots on the stored chain. *)
LEMMA SnapNext ==
    ASSUME MaxRollback < K, StoreInv, LineInv, FileInv, SnapInv, LedgerInv, [Next]_vars
    PROVE  SnapInv'
<1> SUFFICES ASSUME Trusted' PROVE SnapInv'
  BY DEF SnapInv
<1> DEFINE v == TipOf(vol)
<1>1. snaps \in SUBSET Files /\ batch.back \in Points \cup {NoRollback} /\ v \in Points /\ OnChain(v, v)
      /\ NoRollback \notin Points /\ Origin \in Points
  BY Types, StoredFacts, ChainRefl, Heights, SyncPipelineAssumption DEF StoreInv, TypeInv
<1>2. TipOf(vol') \in Points /\ OnChain(TipOf(vol'), TipOf(vol'))
  <2>1. vol' \in Seq(Blocks)
    BY TypeNext DEF StoreInv, TypeInv, TypeOK
  <2> QED BY <2>1, TipType, ChainRefl
<1>3. CASE FilesOn(snaps', TipOf(vol')) /\ (MaxRollback = 0 \/ batch'.back = NoRollback \/ phase' \notin Truncating)
  BY <1>3 DEF SnapInv
<1>4. CASE Restart
  <2>1. CASE MaxRollback = 0
    <3>1. vol' = vol /\ snaps' = snaps
      BY <1>4, <2>1, RestartLine DEF Restart
    <3>2. FilesOn(snaps, v)
      BY <2>1, SnapsOn DEF Trusted
    <3> QED BY <3>1, <3>2, <2>1, <1>3
  <2>2. CASE MaxRollback # 0
    <3>1. base' = <<>> /\ phase' = "offline"
      BY <1>4, <2>2 DEF Trusted, Restart
    <3>2. snaps' = {}
      BY <3>1, <1>4, StartsBare
    <3>3. FilesOn(snaps', TipOf(vol')) /\ phase' \notin Truncating
      BY <3>1, <3>2 DEF FilesOn, Truncating
    <3> QED BY <3>3, <1>3
  <2> QED BY <2>1, <2>2
<1>5. CASE ~Restart
  <2>1. Trusted /\ (MaxRollback # 0 => ~Exit)
    BY <1>5, TrustKept
  (* the snapshots and the volatile tip stay *)
  <2>2. ASSUME snaps' = snaps, TipOf(vol') = v,
               phase \notin {"retain", "sidecar"} \/ MaxRollback = 0,
               batch.back = NoRollback \/ phase \notin Truncating \/ MaxRollback = 0,
               batch'.back = NoRollback \/ phase' \notin Truncating \/ MaxRollback = 0
        PROVE  SnapInv'
    BY <2>1, <2>2, <1>3, SnapsOn
  <2>3. ASSUME snaps' = snaps, TipOf(vol') = v, batch' = batch, phase \in Truncating, phase' \in Truncating
        PROVE  SnapInv'
    <3>1. phase \notin {"retain", "sidecar"} /\ phase' \notin {"retain", "sidecar"}
      BY <2>3 DEF Truncating
    <3>2. CASE MaxRollback = 0 \/ batch.back = NoRollback
      BY <3>1, <3>2, <2>1, <2>3, <1>3, SnapsOn
    <3>3. CASE ~(MaxRollback = 0 \/ batch.back = NoRollback)
      <4>1. \E x \in Points : OnChain(batch.back, x) /\ FilesOn(snaps, x)
        BY <3>3, <2>1, <2>3 DEF SnapInv
      <4> QED BY <4>1, <3>3, <2>3 DEF SnapInv
    <3> QED BY <3>2, <3>3
  <2>4. CASE UNCHANGED vars
    <3>1. snaps' = snaps /\ vol' = vol /\ batch' = batch /\ phase' = phase /\ from' = from
      BY <2>4 DEF vars, disk, memory
    <3> QED BY <3>1, <2>1 DEF SnapInv, Mixed
  <2>5. CASE PeerAdopts
    <3>1. snaps' = snaps /\ vol' = vol /\ batch' = batch /\ phase' = phase /\ from' = from
      BY <2>5 DEF PeerAdopts, disk, memory
    <3> QED BY <3>1, <2>1 DEF SnapInv, Mixed
  <2>6. CASE Exit /\ UNCHANGED <<vol, snaps>>
    <3>1. MaxRollback = 0
      BY <2>1, <2>6
    <3> QED BY <3>1, <2>2, <2>6
  <2>7. CASE Connect \/ Drop
    BY <2>2, <2>7 DEF Connect, Drop, disk, Truncating
  <2>8. CASE Crash
    BY <2>6, <2>8 DEF Crash, disk
  <2>9. CASE ReceiveRollback \/ ReceiveForward \/ ReceiveForwardThenRollback
    <3>1. phase = "idle" /\ phase' \in {"add", "rollback"} /\ UNCHANGED disk
      BY <2>9 DEF ReceiveRollback, ReceiveForward, ReceiveForwardThenRollback, Receive
    <3> QED BY <3>1, <2>2 DEF disk, Truncating
  <2>10. CASE AddVolatile
    <3>1. phase = "add" /\ batch' = batch /\ snaps' = snaps /\ (phase' \notin Truncating \/ batch.back = NoRollback)
      BY <2>10 DEF AddVolatile, Proceed, Truncating
    <3>2. FilesOn(snaps, v)
      BY <3>1, <2>1, SnapsOn DEF Truncating
    <3>3. FilesOn(snaps, TipOf(vol'))
      BY <3>2, <2>10, <1>1, <1>2, StoreAdd, FilesUp
    <3> QED BY <3>1, <3>3, <1>3
  <2>11. CASE RollbackVolatile
    <3>1. phase = "rollback" /\ batch' = batch /\ snaps' = snaps /\ phase' \in {"track", "trackBack"}
          /\ batch.back \in Points
      BY <2>11 DEF RollbackVolatile, Proceed, StoreInv, PhaseInv, InRollback
    <3>2. FilesOn(snaps, v)
      BY <3>1, <2>1, SnapsOn DEF Truncating
    <3>3. CASE MaxRollback = 0
      BY <3>1, <3>2, <3>3, <1>3, VolGrows
    <3>4. CASE MaxRollback # 0
      <4>1. \E x \in Points : OnChain(batch.back, x) /\ FilesOn(snaps, x)
        <5>1. CASE OnChain(batch.back, v)
          BY <5>1, <3>2, <1>1
        <5>2. CASE vol = <<>>
          <6>1. snaps = {}
            BY <5>2, <3>2, <1>1, SegEmpty, FilesOrigin
          <6>2. OnChain(batch.back, batch.back) /\ FilesOn(snaps, batch.back)
            BY <6>1, <3>1, ChainRefl DEF FilesOn
          <6> QED BY <6>2, <3>1
        <5> QED BY <5>1, <5>2, <2>11, StoreRollback
      <4>2. batch.back # NoRollback /\ phase' \in Truncating
        BY <3>1, <1>1 DEF Truncating
      <4> QED BY <4>1, <4>2, <3>1, <3>4 DEF SnapInv
    <3> QED BY <3>3, <3>4
  <2>12. CASE TrackForward
    <3>1. vol' = vol /\ snaps' = snaps /\ phase = "track"
      BY <2>12 DEF TrackForward, disk
    <3>2. CASE ~Exit
      <4>1. batch' = batch /\ phase' \in {"append", AfterForward}
        BY <3>2, <2>12, StoreTrackForward
      <4>2. CASE phase' \in Truncating
        BY <4>1, <4>2, <3>1, <2>3 DEF Truncating
      <4>3. CASE phase' \notin Truncating
        <5>1. batch.back = NoRollback
          BY <4>1, <4>3 DEF AfterForward, Truncating
        <5> QED BY <5>1, <4>1, <4>3, <3>1, <2>2
      <4> QED BY <4>2, <4>3
    <3> QED BY <3>1, <3>2, <2>6
  <2>13. CASE AppendImmutable
    BY <2>3, <2>13 DEF AppendImmutable, Proceed, Truncating
  <2>14. CASE PruneVolatile
    <3>1. TipOf(vol') = v /\ snaps' = snaps /\ phase = "prune" /\ batch' = batch /\ phase' = AfterForward
      BY <2>14, StorePrune DEF PruneVolatile, Proceed
    <3>2. CASE batch.back = NoRollback
      BY <3>1, <3>2, <2>2
    <3>3. CASE batch.back # NoRollback
      BY <3>1, <3>3, <2>3 DEF AfterForward, Truncating
    <3> QED BY <3>2, <3>3
  <2>15. CASE TrackBackward
    <3>1. vol' = vol /\ snaps' = snaps /\ phase = "trackBack"
      BY <2>15 DEF TrackBackward, disk
    <3>2. CASE ~Exit
      <4>1. batch' = batch /\ phase' = "truncate"
        BY <3>2, <2>15, StoreTrackBack
      <4> QED BY <4>1, <3>1, <2>3 DEF Truncating
    <3> QED BY <3>1, <3>2, <2>6
  <2>16. CASE TruncateSnapshots
    <3>1. phase = "truncate" /\ phase' = "truncateSides" /\ vol' = vol /\ batch' = batch
          /\ snaps' = TruncateAfter(snaps, batch.back)
      BY <2>16 DEF TruncateSnapshots, Proceed
    <3>2. batch.back \in Points /\ batch.back # NoRollback /\ v = batch.back
      BY <3>1, <1>1 DEF FileInv, StoreInv, PhaseInv, InApplied, Target
    <3>3. PICK x \in Points : OnChain(batch.back, x) /\ FilesOn(snaps, x)
      <4>1. CASE MaxRollback = 0
        <5>1. FilesOn(snaps, v)
          BY <4>1, <2>1, SnapsOn
        <5> QED BY <5>1, <3>2, <1>1
      <4>2. CASE MaxRollback # 0
        BY <4>2, <3>1, <3>2, <2>1 DEF SnapInv, Truncating
      <4> QED BY <4>1, <4>2
    <3>4. FilesOn(snaps', TipOf(vol'))
      BY <3>1, <3>2, <3>3, <1>1, FilesTruncated
    <3> QED BY <3>1, <3>4, <1>3 DEF Truncating
  <2>17. CASE TruncateSidecars
    BY <2>2, <2>17 DEF TruncateSidecars, Proceed, Truncating
  <2>18. CASE AdvanceLedger
    BY <2>2, <2>6, <2>18 DEF AdvanceLedger, Proceed, disk, Truncating
  <2>19. CASE RecoverLedger
    <3>1. phase = "ledger" /\ UNCHANGED disk /\ (Exit \/ phase' = "save")
      BY <2>19 DEF RecoverLedger, Proceed
    <3> QED BY <3>1, <2>2, <2>6 DEF disk, Truncating
  <2>20. CASE SaveSnapshot
    <3>1. phase = "save" /\ phase' = "retain" /\ vol' = vol /\ batch' = batch
          /\ snaps' = Save(snaps, TipOf(ledger), ledger)
      BY <2>20 DEF SaveSnapshot, Proceed
    <3>2. CASE Mixed
      BY <3>1, <3>2 DEF Mixed, SnapInv, Truncating
    <3>3. CASE ~Mixed
      <4>1. ledger = PathTo[v] /\ TipOf(ledger) = v
        <5>1. ledger = PathTo[Target] /\ v = Target
          BY <3>1, <3>3, <2>1 DEF LedgerInv, StoreInv, PhaseInv, InApplied
        <5>2. TipOf(PathTo[v]) = v
          <6>1. 0 \in 0 .. Height(v)
            BY <1>1, Heights
          <6> QED BY <6>1, <1>1, SegTip
        <5> QED BY <5>1, <5>2
      <4>2. FilesOn(snaps, v)
        BY <3>1, <2>1, SnapsOn DEF Truncating
      <4>3. ASSUME NEW f \in snaps' PROVE f.state = PathTo[f.point] /\ OnChain(f.point, v)
        <5>1. CASE f \in snaps
          BY <5>1, <4>2 DEF FilesOn
        <5>2. CASE f \notin snaps
          <6>1. f = [point |-> v, state |-> PathTo[v]]
            BY <5>2, <4>1, <3>1 DEF Save, File
          <6> QED BY <6>1, <1>1
        <5> QED BY <5>1, <5>2
      <4>4. FilesOn(snaps', TipOf(vol'))
        BY <4>3, <3>1 DEF FilesOn
      <4> QED BY <4>4, <3>1, <1>3 DEF Truncating
    <3> QED BY <3>2, <3>3
  <2>21. CASE SkipSnapshot
    BY <2>2, <2>21 DEF SkipSnapshot, BatchDone, disk, Truncating
  <2>22. CASE ClearSnapshots
    <3>1. snaps' = {} /\ phase' = "idle"
      BY <2>22 DEF ClearSnapshots, BatchDone
    <3> QED BY <3>1, <1>3 DEF FilesOn, Truncating
  <2>23. CASE RetainSnapshots
    <3>1. phase = "retain" /\ phase' = "sidecar" /\ vol' = vol /\ batch' = batch /\ snaps' \subseteq snaps
          /\ (batch.back # NoRollback => from' = batch.back)
      BY <2>23 DEF RetainSnapshots, RetainLatest, RecordProgress, Proceed
    <3>2. CASE Mixed
      <4>1. from' = Origin
        BY <3>1, <3>2, <1>1 DEF Mixed
      <4> QED BY <4>1, <3>1, <3>2 DEF Mixed, SnapInv, Truncating
    <3>3. CASE ~Mixed
      <4>1. FilesOn(snaps, v)
        BY <3>1, <3>3, <2>1 DEF SnapInv, Truncating
      <4>2. FilesOn(snaps', TipOf(vol'))
        BY <4>1, <3>1 DEF FilesOn
      <4> QED BY <4>2, <3>1, <1>3 DEF Truncating
    <3> QED BY <3>2, <3>3
  <2>24. CASE SaveSidecar
    <3>1. phase = "sidecar" /\ vol' = vol /\ snaps' = snaps
          /\ (Exit \/ (from # Origin /\ phase' = "retainSides" /\ batch' = batch))
      BY <2>24 DEF SaveSidecar, Proceed
    <3>2. CASE ~Exit
      <4>1. FilesOn(snaps, v)
        BY <3>1, <3>2, <2>1 DEF SnapInv, Truncating
      <4> QED BY <4>1, <3>1, <3>2, <1>3 DEF Truncating
    <3> QED BY <3>1, <3>2, <2>6
  <2>25. CASE RetainSidecars
    BY <2>2, <2>25 DEF RetainSidecars, BatchDone, Truncating
  <2> QED BY <1>5, <2>4, <2>5, <2>7, <2>8, <2>9, <2>10, <2>11, <2>12, <2>13, <2>14, <2>15, <2>16, <2>17, <2>18,
             <2>19, <2>20, <2>21, <2>22, <2>23, <2>24, <2>25 DEF Next, ApplyStep
<1> QED BY <1>4, <1>5

(* A recovery whose snapshots are of the stored chain, at the rollback     *)
(* point: the ledger of that point, or none.                               *)
LEMMA RecoveryAt ==
    ASSUME StoreInv, vol # <<>>, FilesOn(snaps, TipOf(vol)),
           NEW y \in Points, base = PathTo[y], OnChain(y, TipOf(vol))
    PROVE  Recovery(imm, vol, snaps, base) \subseteq {PathTo[TipOf(vol)]}
<1> DEFINE i == TipOf(imm)
           v == TipOf(vol)
           a == Below(vol)
<1>1. /\ i \in Points /\ v \in Points /\ a \in 0 .. Height(v) /\ a \in Nat /\ a <= Height(i)
      /\ a < Height(v) /\ imm = PathTo[i] /\ vol = Seg(a, v) /\ Comparable(i, v)
  BY StoredFacts
<1>2. snaps \in SUBSET Files /\ FilesOn(snaps, v) /\ OnChain(y, v)
  BY Types DEF StoreInv, TypeInv
<1> HIDE DEF i, v, a
<1>3. CASE OnChain(i, v)
  BY <1>1, <1>2, <1>3, RecoveryIs DEF v
<1>4. CASE ~OnChain(i, v)
  <2>1. OnChain(v, i) /\ v # i
    BY <1>1, <1>4, ChainRefl DEF Comparable
  <2>2. Recovery(PathTo[i], Seg(a, v), snaps, PathTo[y]) = {}
    BY <2>1, <1>1, <1>2, RecoveryFails
  <2> QED BY <2>2, <1>1
<1> QED BY <1>3, <1>4

(* Every step keeps the ledger at the read pointer. *)
LEMMA LedgerNext ==
    ASSUME MaxRollback < K, StoreInv, LineInv, FileInv, BaseInv, SnapInv, LedgerInv, [Next]_vars
    PROVE  LedgerInv'
<1> SUFFICES ASSUME Trusted' PROVE LedgerInv'
  BY DEF LedgerInv
<1>1. CASE phase' \notin {"idle", "add", "track", "append", "prune", "ledger", "save", "retain",
                         "sidecar", "retainSides"}
  BY <1>1 DEF LedgerInv, Settled, Forwarding
<1>2. CASE Restart
  BY <1>1, <1>2 DEF Restart
<1>3. CASE ~Restart
  <2>1. Trusted /\ (MaxRollback # 0 => base = <<>>)
    BY <1>3, TrustKept
  <2>2. CASE Exit
    BY <1>1, <2>2 DEF Exit
  <2>3. batch.back \in Points \cup {NoRollback} /\ batch.fwd \in Seq(Blocks) /\ NoRollback \notin Points
        /\ Origin \in Points /\ Origin # NoRollback
    BY Types, Heights, SyncPipelineAssumption DEF StoreInv, TypeInv
  (* the batch goes forward as before *)
  <2>4. ASSUME phase' \in {"add", "track", "append", "prune", "ledger"}, ledger' = ledger, from' = from,
               batch'.back = NoRollback => Settled \/ Forwarding
        PROVE  LedgerInv'
    BY <2>1, <2>4 DEF LedgerInv, Settled, Forwarding
  <2>5. CASE UNCHANGED vars \/ PeerAdopts
    <3>1. ledger' = ledger /\ batch' = batch /\ phase' = phase /\ from' = from /\ confirm' = confirm
      BY <2>5 DEF PeerAdopts, vars, memory
    <3> QED BY <3>1, <2>1 DEF LedgerInv, Settled, Forwarding, Mixed, Target, top
  <2>6. CASE Connect
    BY <2>6 DEF Connect, LedgerInv, Settled, Forwarding
  <2>7. CASE Drop
    BY <1>1, <2>7 DEF Drop
  <2>8. CASE Crash
    BY <2>2, <2>8 DEF Crash
  <2>9. CASE ReceiveRollback
    BY <1>1, <2>9 DEF ReceiveRollback, Receive
  <2>10. CASE ReceiveForward \/ ReceiveForwardThenRollback
    <3>1. Settled /\ phase' \in {"add", "rollback"} /\ ledger' = ledger /\ from' = from
      BY <2>10 DEF ReceiveForward, ReceiveForwardThenRollback, Receive, memory, Settled
    <3> QED BY <3>1, <2>4, <1>1
  <2>11. CASE AddVolatile
    <3>1. phase = "add" /\ phase' \in {"add", "track", "rollback"} /\ UNCHANGED <<ledger, from, batch>>
      BY <2>11 DEF AddVolatile, Proceed, memory
    <3> QED BY <3>1, <2>4, <1>1 DEF Forwarding
  <2>12. CASE RollbackVolatile
    <3>1. phase' \in {"track", "trackBack"} /\ ledger' = ledger /\ from' = from /\ batch' = batch
      BY <2>12 DEF RollbackVolatile, Proceed, memory
    <3>2. batch.back \in Points
      BY <2>12 DEF RollbackVolatile, StoreInv, PhaseInv, InRollback
    <3> QED BY <3>1, <3>2, <2>3, <2>4, <1>1
  <2>13. CASE TrackForward
    <3>1. CASE ~Exit
      <4>1. phase = "track" /\ phase' \in {"append", AfterForward} /\ UNCHANGED <<ledger, from, batch>>
        BY <2>13, <3>1, StoreTrackForward DEF TrackForward
      <4>2. phase' \in {"append", "ledger", "trackBack"}
        BY <4>1 DEF AfterForward
      <4> QED BY <4>1, <4>2, <2>4, <1>1 DEF Forwarding
    <3> QED BY <2>2, <3>1
  <2>14. CASE AppendImmutable \/ PruneVolatile
    <3>1. phase \in {"append", "prune"} /\ phase' \in {"append", "prune", "ledger", "trackBack"}
          /\ ledger' = ledger /\ from' = from /\ batch' = batch
      BY <2>14 DEF AppendImmutable, PruneVolatile, AfterForward, Proceed, memory
    <3> QED BY <3>1, <2>4, <1>1 DEF Forwarding
  <2>15. CASE TrackBackward
    BY <2>2, <1>1, <2>15, StoreTrackBack
  <2>16. CASE TruncateSnapshots
    BY <1>1, <2>16 DEF TruncateSnapshots, Proceed
  <2>17. CASE TruncateSidecars
    <3>1. phase' = "ledger" /\ ledger' = ledger /\ from' = from /\ batch' = batch /\ batch.back # NoRollback
      BY <2>17 DEF TruncateSidecars, Proceed, memory, FileInv
    <3> QED BY <3>1, <2>4
  <2>18. CASE AdvanceLedger
    <3>1. CASE ~Exit
      <4>1. /\ phase = "ledger" /\ batch.back = NoRollback /\ phase' = "save" /\ batch' = batch
            /\ ledger' = ledger \o batch.fwd
        BY <2>18, <3>1 DEF AdvanceLedger, Proceed
      <4>2. ledger = PathTo[from]
        BY <4>1, <2>1 DEF LedgerInv, Forwarding
      <4>3. batch.fwd = Seg(Height(from), top) /\ OnChain(from, top)
        BY <4>1 DEF StoreInv, PhaseInv, InApplied, Ahead
      <4>4. from \in Points /\ top \in Points /\ 0 \in 0 .. Height(from)
        BY <2>3, Types, TipType, Heights DEF top, StoreInv, TypeInv
      <4>5. PathTo[from] \o Seg(Height(from), top) = PathTo[top]
        BY <4>3, <4>4, SegJoin, SegWhole
      <4>6. ledger' = PathTo[top] /\ Target = top /\ ~Mixed
        BY <4>1, <4>2, <4>3, <4>5, <2>3 DEF Target, Mixed
      <4> QED BY <4>1, <4>6 DEF LedgerInv, Settled, Forwarding, Target, Mixed, top
    <3> QED BY <2>2, <3>1
  <2>19. CASE RecoverLedger
    <3>1. CASE ~Exit
      <4>1. /\ phase = "ledger" /\ batch.back # NoRollback /\ phase' = "save" /\ batch' = batch
            /\ IF InitialSync THEN ledger' = base \o batch.fwd ELSE ledger' \in Recovery(imm, vol, snaps, base)
        BY <2>19, <3>1 DEF RecoverLedger, Proceed
      <4>2. batch.back \in Points /\ TipOf(vol) = batch.back /\ Target = batch.back /\ TipOf(vol) \in Points
        BY <4>1, <2>3, StoredFacts DEF StoreInv, PhaseInv, InApplied, Target
      <4>3. FilesOn(snaps, TipOf(vol))
        BY <4>1, <2>1, SnapsOn DEF Truncating
      <4>4. PICK y \in Points : base = PathTo[y] /\ OnChain(y, TipOf(vol))
        BY <2>1 DEF BaseInv
      <4>5. base = <<>> \/ batch.back # Origin
        <5>1. ASSUME batch.back = Origin PROVE base = <<>>
          <6>1. OnChain(y, Origin) /\ Height(Origin) = 0 /\ Height(y) \in Nat
            BY <5>1, <4>2, <4>4, Heights
          <6>2. y = Origin
            BY <6>1, <2>3, ChainEqual
          <6> QED BY <6>2, <4>4, Paths
        <5> QED BY <5>1
      <4>6. CASE batch.back = Origin
        <5>1. InitialSync /\ base = <<>>
          BY <4>5, <4>6 DEF InitialSync
        <5>2. <<>> \o batch.fwd = batch.fwd
          BY <2>3
        <5>3. ledger' = batch.fwd
          BY <5>1, <5>2, <4>1
        <5>4. PathTo[Target] = <<>>
          BY <4>2, <4>6, Paths
        <5>5. IF Mixed THEN ledger' # <<>> ELSE ledger' = PathTo[Target]
          BY <5>3, <5>4, <4>6 DEF Mixed
        <5> QED BY <5>5, <4>1 DEF LedgerInv, Settled, Forwarding, Target, Mixed, top
      <4>7. CASE batch.back # Origin
        <5>1. vol # <<>>
          BY <4>2, <4>7, SegEmpty
        <5>2. ledger' = PathTo[TipOf(vol)]
          BY <5>1, <4>1, <4>3, <4>4, <4>7, RecoveryAt DEF InitialSync
        <5>3. ledger' = PathTo[Target] /\ ~Mixed
          BY <5>2, <4>2, <4>7 DEF Mixed
        <5> QED BY <5>3, <4>1 DEF LedgerInv, Settled, Forwarding, Target, Mixed, top
      <4> QED BY <4>6, <4>7
    <3> QED BY <2>2, <3>1
  <2>20. CASE SaveSnapshot
    <3>1. phase = "save" /\ phase' = "retain" /\ ledger' = ledger /\ batch' = batch
      BY <2>20 DEF SaveSnapshot, Proceed, memory
    <3> QED BY <3>1, <2>1 DEF LedgerInv, Settled, Forwarding, Target, Mixed, top
  <2>21. CASE SkipSnapshot
    <3>1. phase = "save" /\ phase' = "idle" /\ ledger' = ledger /\ from' = Target /\ ~ShouldPersist
      BY <2>21 DEF SkipSnapshot, RecordProgress, BatchDone, Target, top
    <3>2. ~Mixed
      BY <3>1, <2>3 DEF ShouldPersist, Mixed
    <3>3. ledger' = PathTo[from']
      BY <3>1, <3>2, <2>1 DEF LedgerInv
    <3> QED BY <3>1, <3>3 DEF LedgerInv
  <2>22. CASE ClearSnapshots
    <3>1. phase = "save" /\ phase' = "idle" /\ ledger' = ledger /\ from' = Target /\ ledger = <<>>
      BY <2>22 DEF ClearSnapshots, RecordProgress, BatchDone, Target, top
    <3>2. ledger' = PathTo[from']
      BY <3>1, <2>1 DEF LedgerInv
    <3> QED BY <3>1, <3>2 DEF LedgerInv
  <2>23. CASE RetainSnapshots
    <3>1. phase = "retain" /\ phase' = "sidecar" /\ ledger' = ledger /\ from' = Target
      BY <2>23 DEF RetainSnapshots, RecordProgress, Proceed, Target, top
    <3>2. ledger' = PathTo[from'] \/ from' = Origin
      <4>1. CASE Mixed
        BY <4>1, <3>1, <2>3 DEF Mixed, Target
      <4>2. CASE ~Mixed
        BY <4>2, <3>1, <2>1 DEF LedgerInv
      <4> QED BY <4>1, <4>2
    <3> QED BY <3>1, <3>2 DEF LedgerInv, Settled, Forwarding
  <2>24. CASE SaveSidecar
    <3>1. CASE ~Exit
      <4>1. phase = "sidecar" /\ phase' = "retainSides" /\ ledger' = ledger /\ from' = from /\ from # Origin
        BY <2>24, <3>1 DEF SaveSidecar, Proceed, memory
      <4>2. ledger = PathTo[from]
        BY <4>1, <2>1 DEF LedgerInv
      <4> QED BY <4>1, <4>2 DEF LedgerInv, Settled, Forwarding
    <3> QED BY <2>2, <3>1
  <2>25. CASE RetainSidecars
    <3>1. phase = "retainSides" /\ phase' = "idle" /\ ledger' = ledger /\ from' = from
      BY <2>25 DEF RetainSidecars, BatchDone, memory
    <3>2. ledger = PathTo[from]
      BY <3>1, <2>1 DEF LedgerInv
    <3> QED BY <3>1, <3>2 DEF LedgerInv, Settled, Forwarding
  <2> QED BY <1>3, <2>5, <2>6, <2>7, <2>8, <2>9, <2>10, <2>11, <2>12, <2>13, <2>14, <2>15, <2>16, <2>17, <2>18,
             <2>19, <2>20, <2>21, <2>22, <2>23, <2>24, <2>25 DEF Next, ApplyStep
<1> QED BY <1>2, <1>3

(* All of the invariant of the stores, the window and the ledger. *)
SyncInv == StoreInv /\ LineInv /\ WinInv /\ FileInv /\ BaseInv /\ SnapInv /\ LedgerInv

(* The invariant holds at first, ... *)
LEMMA SyncInit == Init => SyncInv
<1>1. SUFFICES ASSUME Init PROVE SyncInv
  OBVIOUS
<1>2. PathTo[Origin] = <<>> /\ Origin \in Points /\ TipOf(vol) \in Points /\ OnChain(Origin, TipOf(vol))
  BY <1>1, Paths, Heights, StoreInit, StoredFacts DEF OnChain
<1>3. FileInv /\ BaseInv
  BY <1>1, <1>2 DEF FileInv, BaseInv, Init
<1>4. SnapInv /\ LedgerInv
  BY <1>1, <1>2 DEF SnapInv, FilesOn, LedgerInv, Init, NoBatch, Settled, Forwarding
<1> QED BY <1>1, <1>3, <1>4, StoreInit, LineInit, WinInit DEF SyncInv

(* ... every step keeps it ... *)
LEMMA SyncNext ==
    ASSUME MaxRollback < K, SyncInv, [Next]_vars
    PROVE  SyncInv'
BY StoreNext, LineNext, WinNext, FileNext, BaseNext, SnapNext, LedgerNext DEF SyncInv

(* ... and so it always holds. *)
LEMMA SyncAlways ==
    ASSUME MaxRollback < K
    PROVE  Spec => []SyncInv
<1>1. Init => SyncInv
  BY SyncInit
<1>2. SyncInv /\ [Next]_vars => SyncInv'
  BY SyncNext
<1> QED BY <1>1, <1>2, PTL DEF Spec

(* LedgerAtReadPointer: the ledger state is the one the next headers will  *)
(* extend, and the window the last k blocks before it, whatever the peer,  *)
(* the connection and the batches do, as long as the process began without *)
(* a ledger; and across crashes and restarts too when the peer never       *)
(* abandons a block.  A process that was restarted and then rolls back is  *)
(* left out because the property does not hold of it: killed before a      *)
(* promotion has pruned the volatile store, the next one finds more than k *)
(* blocks there, seeds its window with k of them, and a rollback takes     *)
(* away blocks that the window has no others for.                          *)
THEOREM LedgerFollowsReadPointer ==
    ASSUME MaxRollback < K
    PROVE  Spec => []((base = <<>> \/ MaxRollback = 0) => LedgerAtReadPointer)
<1>1. SyncInv => ((base = <<>> \/ MaxRollback = 0) => LedgerAtReadPointer)
  <2>1. SUFFICES ASSUME SyncInv, base = <<>> \/ MaxRollback = 0, Settled
                 PROVE  ledger = PathTo[from] /\ window = LastK(vol) /\ IsSuffix(window, ledger)
    BY DEF LedgerAtReadPointer
  <2> DEFINE v == TipOf(vol)
             a == Below(vol)
             w == Below(window)
  <2>2. Trusted /\ phase = "idle" /\ ~confirm /\ Live
    BY <2>1 DEF Trusted, Settled, Live
  <2>3. ledger = PathTo[from]
    BY <2>1, <2>2 DEF SyncInv, LedgerInv
  <2>4. StoreInv /\ WinInv
    BY <2>1 DEF SyncInv
  <2>5. Aligned /\ TipOf(window) = v /\ from = v
    BY <2>2, <2>4 DEF StoreInv, PhaseInv, InIdle
  <2>6. v \in Points /\ a \in 0 .. Height(v) /\ vol = Seg(a, v) /\ Height(v) \in Nat /\ K \in Nat
        /\ (vol = <<>> => v = Origin /\ a = 0)
    BY <2>4, StoredFacts
  <2>7. window = Seg(w, v) /\ w \in 0 .. Height(v) /\ a <= w
    <3>1. window \in Seq(Blocks)
      BY <2>4, Types DEF StoreInv, TypeInv
    <3> QED BY <3>1, <2>5, SegOpen DEF Aligned
  <2>8. w + K >= Height(v) /\ (vol # <<>> => w = a \/ w + K = Height(v))
    BY <2>2, <2>4, <2>5 DEF WinInv
  <2>9. vol = <<>> => Height(v) = 0
    BY <2>6, Heights
  <2> HIDE DEF v, a, w
  <2>10. LastK(vol) = Seg(Edge(a, v), v)
    BY <2>6, SegWindow
  <2>11. Edge(a, v) = w
    BY <2>6, <2>7, <2>8, <2>9 DEF Edge
  <2>12. IsSuffix(Seg(w, v), Seg(0, v)) /\ Seg(0, v) = PathTo[v]
    <3>1. 0 \in 0 .. Height(v)
      BY <2>6
    <3> QED BY <3>1, <2>6, <2>7, SegSuffix, SegWhole
  <2> QED BY <2>3, <2>5, <2>7, <2>10, <2>11, <2>12
<1> QED BY <1>1, SyncAlways, PTL

(* retain_latest keeps one file of a store that is not empty. *)
LEMMA NewestExists ==
    ASSUME NEW sn \in SUBSET Files, sn # {}
    PROVE  RetainLatest(sn, 1) # {}
<1>1. IsFiniteSet(Blocks) /\ Slot \in [Blocks -> Nat] /\ Origin \notin Blocks
  BY ChainTreeAssumption
<1>2. PICK m \in Nat : \A b \in Blocks : Slot[b] < m
  BY <1>1, FiniteBound
<1>3. ASSUME NEW f \in sn PROVE SlotOf(f.point) \in Nat /\ m - SlotOf(f.point) \in Nat
  <2>1. f.point \in Blocks /\ f.point # Origin
    BY <1>1, <1>3 DEF Files
  <2>2. Slot[f.point] \in Nat /\ Slot[f.point] < m
    BY <2>1, <1>1, <1>2
  <2> QED BY <2>1, <2>2 DEF SlotOf
<1> DEFINE D == {m - SlotOf(f.point) : f \in sn}
<1>4. D \in SUBSET Nat /\ D # {}
  BY <1>3
<1>5. PICK d \in D : \A e \in D : d <= e
  <2> HIDE DEF D
  <2> QED BY <1>4, LeastExists
<1>6. PICK f \in sn : d = m - SlotOf(f.point)
  BY <1>5
<1>7. ASSUME NEW g \in sn PROVE ~(SlotOf(g.point) > SlotOf(f.point))
  <2>1. m - SlotOf(f.point) <= m - SlotOf(g.point)
    BY <1>5, <1>6
  <2> QED BY <2>1, <1>3
<1>8. {g \in sn : SlotOf(g.point) > SlotOf(f.point)} = {}
  BY <1>7
<1>9. Cardinality({g \in sn : SlotOf(g.point) > SlotOf(f.point)}) = 0
  BY <1>8, FS_EmptySet
<1>10. f \in RetainLatest(sn, 1)
  BY <1>9 DEF RetainLatest
<1> QED BY <1>10

(* A recovery always has a state to begin with. *)
LEMMA RestoredSome ==
    ASSUME NEW im \in Seq(Blocks), NEW vo \in Seq(Blocks), NEW sn \in SUBSET Files, NEW ba \in Seq(Blocks)
    PROVE  RestoredFrom(im, vo, sn, ba) # {}
<1> DEFINE usable == IF BestTip(im, vo) = Origin THEN sn ELSE AtOrBefore(sn, BestTip(im, vo))
<1>1. RestoredFrom(im, vo, sn, ba) = IF usable = {} THEN {ba} ELSE {f.state : f \in RetainLatest(usable, 1)}
  BY DEF RestoredFrom
<1>2. usable \in SUBSET Files
  BY DEF AtOrBefore
<1> HIDE DEF usable
<1>3. usable # {} => RetainLatest(usable, 1) # {}
  BY <1>2, NewestExists
<1> QED BY <1>1, <1>3

(* RecoveryReachesTip: against a peer that never abandons a block, what is *)
(* on disk is at every moment, and so after a kill at any point of a batch *)
(* or of a promotion, enough to recover the ledger of the whole stored     *)
(* chain.                                                                  *)
THEOREM RecoveryAlwaysReachesTip ==
    ASSUME MaxRollback = 0
    PROVE  Spec => []RecoveryReachesTip
<1>1. MaxRollback < K
  BY SecurityParamAssumption
<1>2. SyncInv => RecoveryReachesTip
  <2>1. SUFFICES ASSUME SyncInv PROVE RecoveryReachesTip
    OBVIOUS
  <2> DEFINE i == TipOf(imm)
             v == TipOf(vol)
             a == Below(vol)
  <2>2. /\ i \in Points /\ v \in Points /\ a \in 0 .. Height(v) /\ a <= Height(i)
        /\ v = Origin \/ a < Height(v)
        /\ imm = PathTo[i] /\ vol = Seg(a, v)
    BY <2>1, StoredFacts DEF SyncInv
  <2>3. OnChain(i, v)
    <3>1. Height(i) <= Height(v) /\ Comparable(i, v) /\ Height(i) \in Nat /\ Height(v) \in Nat
      BY <2>1, StoredFacts DEF LineInv, SyncInv
    <3>2. OnChain(v, i) => v = i
      BY <3>1, <2>2, ChainEqual
    <3> QED BY <3>1, <3>2, <2>2 DEF Comparable
  <2>4. imm \in Seq(Blocks) /\ vol \in Seq(Blocks) /\ snaps \in SUBSET Files
    BY <2>1, Types DEF SyncInv, StoreInv, TypeInv
  <2>5. FilesOn(snaps, v)
    BY <2>1, SnapsOn DEF SyncInv, Trusted
  <2>6. PathTo[Origin] = <<>> /\ Origin \in Points /\ OnChain(Origin, v) /\ <<>> \in Seq(Blocks)
    BY <2>2, Paths, Heights, ChainRefl
  <2>7. RestoredFrom(imm, vol, snaps, <<>>) # {}
    BY <2>4, <2>6, RestoredSome
  <2> HIDE DEF i, v, a
  <2>8. BestTip(PathTo[i], Seg(a, v)) = v
    BY <2>2, <2>3, BestTipIs
  <2>9. RestoredFrom(PathTo[i], Seg(a, v), snaps, PathTo[Origin]) # {}
    BY <2>2, <2>6, <2>7
  <2>10. Recovery(PathTo[i], Seg(a, v), snaps, PathTo[Origin]) = {PathTo[v]}
    BY <2>2, <2>3, <2>4, <2>5, <2>6, <2>9, RecoveryIs
  <2>11. Recovery(imm, vol, snaps, <<>>) = {PathTo[v]}
    BY <2>10, <2>2, <2>6
  <2>12. BestTip(imm, vol) = v
    BY <2>8, <2>2
  <2> QED BY <2>11, <2>12 DEF RecoveryReachesTip
<1> QED BY <1>1, <1>2, SyncAlways, PTL

-----------------------------------------------------------------------------
(* The nonce state. *)

(* No batch rolls back after its forward blocks. *)
Plain == MaxRollback = 0 \/ BatchSize = 1

(* The sidecars hold the states of their points, and the nonce follows the *)
(* read pointer; the forward blocks of a batch come last.                  *)
NonceInv == Plain =>
    /\ \A f \in sides : f.state = PathTo[f.point]
    /\ batch.back # NoRollback => batch.fwd = <<>>
    /\ Settled \/ Forwarding => nonce = PathTo[from]
    /\ phase \in {"save", "retain"} => nonce \o batch.fwd = PathTo[Target]
    /\ phase \in {"sidecar", "retainSides"} => nonce = PathTo[from]

(* The blocks of a chain up to the slot of one of them. *)
LEMMA UpToSlot ==
    ASSUME NEW i \in Points, NEW p \in Blocks, NEW y \in Points, OnChain(i, y), OnChain(p, y)
    PROVE  Retain(PathTo[i], {b \in Blocks : Slot[b] <= Slot[p]}) = IF OnChain(p, i) THEN PathTo[p] ELSE PathTo[i]
<1> DEFINE T == {b \in Blocks : Slot[b] <= Slot[p]}
           n == IF OnChain(p, i) THEN Height(p) ELSE Height(i)
           j == IF OnChain(p, i) THEN p ELSE i
           r == Retain(PathTo[i], T)
<1>1. /\ PathTo[i] \in Seq(Blocks) /\ Len(PathTo[i]) = Height(i) /\ Height(i) \in Nat
      /\ p \in Points /\ Height(p) \in Nat /\ PathTo[p] \in Seq(Blocks) /\ Len(PathTo[p]) = Height(p)
  BY Heights
<1>2. n \in 0 .. Height(i) /\ 0 \in 0 .. n
  <2>1. OnChain(p, i) => Height(p) <= Height(i)
    BY <1>1, OnChainAt
  <2> QED BY <2>1, <1>1
<1>3. Height(p) <= Height(i) <=> OnChain(p, i)
  BY <1>1, ChainLinear
<1>4. ASSUME NEW k \in 1 .. Height(i) PROVE PathTo[i][k] \in T <=> k > 0 /\ k <= n
  <2>1. PathTo[i][k] \in Blocks /\ Height(PathTo[i][k]) = k
    BY OnPath
  <2>2. OnChain(PathTo[i][k], i) /\ PathTo[i][k] \in Points
    <3>1. k \in 0 .. Height(i) /\ k # 0
      BY <1>1
    <3> QED BY <3>1, Ancestor DEF At
  <2>3. OnChain(PathTo[i][k], y)
    BY <2>2, ChainTrans
  <2>4. Slot[p] < Slot[PathTo[i][k]] <=> Height(p) < k
    BY <2>1, <2>3, ChainSlots
  <2>5. Slot[p] \in Nat /\ Slot[PathTo[i][k]] \in Nat
    BY <2>1, <2>3, ChainSlots
  <2>6. Slot[PathTo[i][k]] <= Slot[p] <=> k <= Height(p)
    BY <2>4, <2>5, <1>1
  <2> QED BY <2>1, <2>6, <1>1, <1>3
<1>5. r \in Seq(Blocks) /\ Len(r) = n - 0 /\ \A k \in 1 .. n - 0 : r[k] = PathTo[i][0 + k]
  <2> DEFINE s == PathTo[i]
  <2>1. s \in Seq(Blocks) /\ n \in 0 .. Len(s) /\ 0 \in 0 .. n
    BY <1>1, <1>2
  <2>2. \A k \in 1 .. Len(s) : s[k] \in T <=> k > 0 /\ k <= n
    BY <1>1, <1>4
  <2> HIDE DEF n, T, s
  <2>3. /\ Retain(s, T) \in Seq(Blocks) /\ Len(Retain(s, T)) = n - 0
        /\ \A k \in 1 .. n - 0 : Retain(s, T)[k] = s[0 + k]
    BY <2>1, <2>2, RetainSlice
  <2> QED BY <2>3 DEF s
<1>6. j \in Points /\ OnChain(j, i) /\ Height(j) = n /\ PathTo[j] \in Seq(Blocks) /\ Len(PathTo[j]) = n
  BY <1>1, ChainRefl
<1>7. ASSUME NEW k \in 1 .. n PROVE r[k] = PathTo[j][k]
  <2>1. k \in 0 .. Height(j) /\ k # 0
    BY <1>2, <1>6
  <2>2. At(j, k) = At(i, k)
    <3> HIDE DEF j
    <3> QED BY <2>1, <1>6, AtBelow
  <2>3. PathTo[j][k] = PathTo[i][k]
    BY <2>1, <2>2 DEF At
  <2>4. k \in 1 .. n - 0 /\ 0 + k = k
    BY <1>2
  <2> QED BY <2>3, <2>4, <1>5
<1>8. r = PathTo[j]
  <2> HIDE DEF j, n, r
  <2>1. Len(r) = n /\ n \in Nat
    BY <1>1, <1>2, <1>5
  <2> QED BY <2>1, <1>5, <1>6, <1>7
<1> QED BY <1>8

(* A filter that drops nothing. *)
LEMMA RetainAll ==
    ASSUME NEW s \in Seq(Blocks), NEW T, \A k \in 1 .. Len(s) : s[k] \in T
    PROVE  Retain(s, T) = s
<1>1. s \in Seq(Blocks) /\ 0 \in 0 .. Len(s)
  OBVIOUS
<1>2. \A k \in 1 .. Len(s) : s[k] \in T <=> k > 0
  BY <1>1
<1>3. /\ Retain(s, T) \in Seq(Blocks) /\ Len(Retain(s, T)) = Len(s) - 0
      /\ \A k \in 1 .. Len(s) - 0 : Retain(s, T)[k] = s[0 + k]
  BY <1>1, <1>2, RetainSuffix
<1> DEFINE r == Retain(s, T)
<1> HIDE DEF r
<1>4. r \in Seq(Blocks) /\ Len(r) = Len(s) /\ \A k \in 1 .. Len(s) : r[k] = s[k]
  BY <1>1, <1>3 DEF r
<1>5. r = s
  BY <1>4
<1> QED BY <1>5 DEF r

(* What replay_chain_dep_state_to_point replays up to the volatile tip,    *)
(* from a stored point of its chain.                                       *)
LEMMA SidecarReplayIs ==
    ASSUME NEW i \in Points, NEW v \in Blocks, Comparable(i, v), NEW a \in Nat, a < Height(v), a <= Height(i),
           NEW x \in Points, OnChain(x, v)
    PROVE  SidecarReplay(PathTo[i], Seg(a, v), x, v) = Seg(Height(x), v)
<1> DEFINE T == {b \in Blocks : Slot[b] <= Slot[v]}
           j == IF OnChain(v, i) THEN v ELSE i
           y == IF OnChain(v, i) THEN i ELSE v
           vo == Seg(a, v)
<1>1. v \in Points /\ Height(v) \in Nat /\ Height(i) \in Nat /\ a \in 0 .. Height(v) /\ OnChain(v, v) /\ OnChain(i, i)
  BY Heights, ChainRefl
<1>2. y \in Points /\ OnChain(i, y) /\ OnChain(v, y)
  BY <1>1 DEF Comparable
<1>3. Retain(PathTo[i], T) = PathTo[j]
  <2>1. Retain(PathTo[i], T) = IF OnChain(v, i) THEN PathTo[v] ELSE PathTo[i]
    <3> HIDE DEF y
    <3> QED BY <1>2, UpToSlot
  <2> QED BY <2>1
<1>4. j \in Points /\ OnChain(j, v) /\ a <= Height(j)
  BY <1>1 DEF Comparable
<1>5. Retain(vo, T) = vo
  <2>1. vo \in Seq(Blocks) /\ Len(vo) = Height(v) - a
    BY <1>1, SegFacts
  <2>2. ASSUME NEW k \in 1 .. Len(vo) PROVE vo[k] \in T
    <3>1. vo[k] \in ToSet(vo)
      BY DEF ToSet
    <3>2. ToSet(vo) \subseteq Blocks /\ \A b \in Points : b \in ToSet(vo) <=> OnChain(b, v) /\ Height(b) > a
      BY <1>1, SegHolds
    <3>3. vo[k] \in Blocks
      BY <3>1, <3>2
    <3>4. OnChain(vo[k], v)
      BY <3>1, <3>2, <3>3, Heights
    <3>5. Slot[vo[k]] <= Slot[v]
      <4> HIDE DEF vo
      <4> QED BY <3>3, <3>4, <1>1, ChainSlots
    <3> QED BY <3>3, <3>5
  <2> HIDE DEF vo, T
  <2> QED BY <2>1, <2>2, RetainAll
<1>6. SidecarReplay(PathTo[i], vo, x, v) = ReplayBlocks(PathTo[j], vo, x)
  BY <1>3, <1>5 DEF SidecarReplay
<1>7. ReplayBlocks(PathTo[j], Seg(a, v), x) = Seg(Height(x), v)
  <2> HIDE DEF j
  <2> QED BY <1>1, <1>4, ReplayIs
<1> QED BY <1>6, <1>7

(* restore_chain_dep_state_after_rollback at the volatile tip: the state   *)
(* of the tip, or none.                                                    *)
LEMMA NonceAtTip ==
    ASSUME NEW i \in Points, NEW v \in Blocks, Comparable(i, v), NEW a \in Nat, a < Height(v), a <= Height(i),
           NEW sd \in SUBSET Files, \A f \in sd : f.state = PathTo[f.point]
    PROVE  NonceAt(PathTo[i], Seg(a, v), sd, v) \subseteq {PathTo[v]}
<1> DEFINE im == PathTo[i]
           vo == Seg(a, v)
           near == RetainLatest(UsableSidecars(im, vo, sd, v), 1)
           Bring(f) == IF f.point = v THEN f.state ELSE f.state \o UpTo(SidecarReplay(im, vo, f.point, v), v)
<1>1. v \in Points /\ Height(v) \in Nat /\ a \in 0 .. Height(v) /\ OnChain(v, v) /\ v # Origin
  BY Heights, ChainRefl
<1>2. ASSUME NEW f \in near PROVE Bring(f) = PathTo[v]
  <2>1. /\ f \in sd /\ f.point \in Blocks /\ f.point \in ToSet(im) \cup ToSet(vo)
        /\ SlotOf(f.point) <= SlotOf(v)
    BY <1>2 DEF RetainLatest, UsableSidecars, AtOrBefore, Files
  <2>2. f.state = PathTo[f.point] /\ f.point \in Points /\ f.point # Origin
    BY <2>1, Heights
  <2>3. Slot[f.point] <= Slot[v]
    BY <2>1, <2>2, <1>1 DEF SlotOf
  <2>4. OnChain(f.point, v)
    <3>1. CASE f.point \in ToSet(vo)
      BY <3>1, <2>2, <1>1, SegHolds
    <3>2. CASE f.point \in ToSet(im)
      <4>1. OnChain(f.point, i)
        BY <3>2 DEF OnChain
      <4>2. CASE OnChain(i, v)
        BY <4>1, <4>2, <2>2, <1>1, ChainTrans
      <4>3. CASE OnChain(v, i)
        BY <4>1, <4>3, <2>1, <2>3, ChainSlots
      <4> QED BY <4>2, <4>3 DEF Comparable
    <3> QED BY <2>1, <3>1, <3>2
  <2>5. CASE f.point = v
    BY <2>2, <2>5
  <2>6. CASE f.point # v
    <3>1. SidecarReplay(im, vo, f.point, v) = Seg(Height(f.point), v)
      BY <2>2, <2>4, SidecarReplayIs
    <3>2. Height(f.point) \in Nat /\ Height(f.point) < Height(v) /\ Height(f.point) \in 0 .. Height(v)
      <4>1. Height(f.point) \in Nat
        BY <2>2, Heights
      <4>2. ~(Height(f.point) >= Height(v))
        BY <2>2, <2>4, <2>6, <1>1, ChainEqual
      <4> QED BY <4>1, <4>2, <1>1
    <3>3. v \in ToSet(Seg(Height(f.point), v))
      BY <3>2, <1>1, SegHolds
    <3>4. UpTo(Seg(Height(f.point), v), v) = Seg(Height(f.point), v)
      BY <3>2, <3>3, <1>1, SegCut
    <3>5. PathTo[f.point] \o Seg(Height(f.point), v) = PathTo[v]
      <4>1. 0 \in 0 .. Height(f.point)
        BY <3>2
      <4> QED BY <4>1, <2>2, <2>4, <1>1, SegJoin, SegWhole
    <3> QED BY <3>1, <3>4, <3>5, <2>2, <2>6
  <2> QED BY <2>5, <2>6
<1>3. NonceAt(im, vo, sd, v) = {Bring(f) : f \in {g \in near : ReplaysTo(im, vo, g.point, v)}}
  BY <1>1 DEF NonceAt
<1> HIDE DEF near, Bring, im, vo
<1>4. NonceAt(im, vo, sd, v) \subseteq {PathTo[v]}
  BY <1>2, <1>3
<1> QED BY <1>4 DEF im, vo

(* Every step keeps the nonce at the read pointer. *)
LEMMA NonceNext ==
    ASSUME MaxRollback < K, StoreInv, LineInv, FileInv, NonceInv, [Next]_vars
    PROVE  NonceInv'
<1> SUFFICES ASSUME Plain PROVE NonceInv'
  BY DEF NonceInv, Plain
<1> DEFINE SidesOK == \A f \in sides' : f.state = PathTo[f.point]
           Quiet == {"idle", "add", "track", "append", "prune", "ledger", "save", "retain", "sidecar", "retainSides"}
<1>1. /\ batch.back \in Points \cup {NoRollback} /\ batch.fwd \in Seq(Blocks) /\ NoRollback \notin Points
      /\ Origin \in Points /\ Origin # NoRollback
  BY Types, Heights, SyncPipelineAssumption DEF StoreInv, TypeInv
<1>2. /\ \A f \in sides : f.state = PathTo[f.point]
      /\ batch.back # NoRollback => batch.fwd = <<>>
      /\ Settled \/ Forwarding => nonce = PathTo[from]
      /\ phase \in {"save", "retain"} => nonce \o batch.fwd = PathTo[Target]
      /\ phase \in {"sidecar", "retainSides"} => nonce = PathTo[from]
  BY DEF NonceInv
(* where no clause but the first two speaks *)
<1>3. ASSUME SidesOK, phase' \notin Quiet, batch'.back # NoRollback => batch'.fwd = <<>>
      PROVE  NonceInv'
  BY <1>3 DEF NonceInv, Settled, Forwarding
<1>4. CASE Exit /\ sides' = sides
  BY <1>2, <1>3, <1>4 DEF Exit, NoBatch
(* the batch goes forward as before *)
<1>5. ASSUME phase' \in {"add", "track", "append", "prune", "ledger"}, UNCHANGED <<nonce, from, sides>>,
             batch'.back # NoRollback => batch'.fwd = <<>>,
             batch'.back = NoRollback => Settled \/ Forwarding
      PROVE  NonceInv'
  BY <1>2, <1>5 DEF NonceInv, Settled, Forwarding
<1>6. CASE UNCHANGED vars \/ PeerAdopts
  <2>1. UNCHANGED <<phase, confirm, batch, nonce, from, sides>>
    BY <1>6 DEF PeerAdopts, vars, disk, memory
  <2> QED BY <2>1, <1>2 DEF NonceInv, Settled, Forwarding, Target, top
<1>7. CASE Restart
  BY <1>2, <1>3, <1>7 DEF Restart
<1>8. CASE Connect
  <2>1. phase' = "idle" /\ confirm' /\ UNCHANGED <<batch, sides>>
    BY <1>8 DEF Connect, disk
  <2> QED BY <2>1, <1>2 DEF NonceInv, Settled, Forwarding
<1>9. CASE Drop
  BY <1>2, <1>3, <1>9 DEF Drop, disk
<1>10. CASE Crash
  BY <1>4, <1>10 DEF Crash, disk
<1>11. CASE ReceiveRollback
  BY <1>2, <1>3, <1>11 DEF ReceiveRollback, Receive, disk
<1>12. CASE ReceiveForward
  <2>1. Settled /\ phase' \in {"add", "rollback"} /\ UNCHANGED <<nonce, from, sides>> /\ batch'.back = NoRollback
    BY <1>12 DEF ReceiveForward, Receive, disk, memory, Settled
  <2> QED BY <2>1, <1>2, <1>3, <1>5
<1>13. CASE ReceiveForwardThenRollback
  <2>1. Settled /\ phase' \in {"add", "rollback"} /\ UNCHANGED <<nonce, from, sides>>
    BY <1>13 DEF ReceiveForwardThenRollback, Receive, disk, memory, Settled
  <2>2. BatchSize # 1
    <3>1. PICK n \in 1 .. BatchSize - 1 : TRUE
      BY <1>13 DEF ReceiveForwardThenRollback
    <3> QED BY <3>1
  <2>3. MaxRollback = 0 /\ LineInv'
    BY <2>2, LineNext DEF Plain
  <2>4. batch'.back # NoRollback => batch'.fwd = <<>>
    BY <2>3 DEF LineInv
  <2> QED BY <2>1, <2>4, <1>2, <1>3, <1>5
<1>14. CASE AddVolatile
  <2>1. phase = "add" /\ phase' \in {"add", "track", "rollback"} /\ UNCHANGED <<nonce, from, batch, sides>>
    BY <1>14 DEF AddVolatile, Proceed, memory
  <2> QED BY <2>1, <1>2, <1>3, <1>5 DEF Forwarding
<1>15. CASE RollbackVolatile
  <2>1. phase' \in {"track", "trackBack"} /\ UNCHANGED <<nonce, from, batch, sides>>
    BY <1>15 DEF RollbackVolatile, Proceed, memory
  <2>2. batch.back \in Points
    BY <1>15 DEF RollbackVolatile, StoreInv, PhaseInv, InRollback
  <2> QED BY <2>1, <2>2, <1>1, <1>2, <1>3, <1>5
<1>16. CASE TrackForward
  <2>1. sides' = sides /\ phase = "track"
    BY <1>16 DEF TrackForward, disk
  <2>2. CASE ~Exit
    <3>1. phase' \in {"append", AfterForward} /\ UNCHANGED <<nonce, from, batch>>
      BY <2>2, <1>16, StoreTrackForward
    <3>2. phase' \in {"append", "ledger", "trackBack"}
      BY <3>1 DEF AfterForward
    <3> QED BY <3>1, <3>2, <2>1, <1>2, <1>3, <1>5 DEF Forwarding
  <2> QED BY <2>1, <2>2, <1>4
<1>17. CASE AppendImmutable \/ PruneVolatile
  <2>1. phase \in {"append", "prune"} /\ phase' \in {"append", "prune", "ledger", "trackBack"}
        /\ UNCHANGED <<nonce, from, batch, sides>>
    BY <1>17 DEF AppendImmutable, PruneVolatile, AfterForward, Proceed, memory
  <2> QED BY <2>1, <1>2, <1>3, <1>5 DEF Forwarding
<1>18. CASE TrackBackward
  <2>1. sides' = sides
    BY <1>18 DEF TrackBackward, disk
  <2>2. Exit \/ (phase' = "truncate" /\ batch' = batch)
    BY <1>18, StoreTrackBack
  <2> QED BY <2>1, <2>2, <1>2, <1>3, <1>4
<1>19. CASE TruncateSnapshots
  BY <1>2, <1>3, <1>19 DEF TruncateSnapshots, Proceed
<1>20. CASE TruncateSidecars
  <2>1. phase' = "ledger" /\ UNCHANGED <<nonce, from, batch>> /\ batch.back # NoRollback /\ sides' \subseteq sides
    BY <1>20 DEF TruncateSidecars, TruncateAfter, AtOrBefore, Proceed, memory, FileInv
  <2> QED BY <2>1, <1>2 DEF NonceInv, Settled, Forwarding
<1>21. CASE AdvanceLedger
  <2>1. sides' = sides
    BY <1>21 DEF AdvanceLedger, disk
  <2>2. CASE ~Exit
    <3>1. phase = "ledger" /\ batch.back = NoRollback /\ phase' = "save" /\ UNCHANGED <<batch, nonce, from>>
      BY <2>2, <1>21 DEF AdvanceLedger, Proceed
    <3>2. nonce = PathTo[from]
      BY <3>1, <1>2 DEF Forwarding
    <3>3. batch.fwd = Seg(Height(from), top) /\ OnChain(from, top)
      BY <3>1 DEF StoreInv, PhaseInv, InApplied, Ahead
    <3>4. from \in Points /\ top \in Points /\ 0 \in 0 .. Height(from)
      BY <1>1, Types, TipType, Heights DEF top, StoreInv, TypeInv
    <3>5. PathTo[from] \o Seg(Height(from), top) = PathTo[top]
      BY <3>3, <3>4, SegJoin, SegWhole
    <3>6. nonce \o batch.fwd = PathTo[Target]
      BY <3>1, <3>2, <3>3, <3>5 DEF Target
    <3> QED BY <3>1, <3>6, <2>1, <1>2 DEF NonceInv, Settled, Forwarding, Target, top
  <2> QED BY <2>1, <2>2, <1>4
<1>22. CASE RecoverLedger
  <2>1. sides' = sides
    BY <1>22 DEF RecoverLedger, disk
  <2>2. CASE ~Exit
    <3>1. /\ phase = "ledger" /\ batch.back # NoRollback /\ phase' = "save" /\ UNCHANGED batch
          /\ nonce' \in NonceAt(imm, vol, sides, batch.back)
      BY <2>2, <1>22 DEF RecoverLedger, Proceed
    <3>2. batch.back \in Points /\ TipOf(vol) = batch.back /\ Target = batch.back /\ batch.fwd = <<>>
      BY <3>1, <1>1, <1>2 DEF StoreInv, PhaseInv, InApplied, Target
    <3>3. nonce' = PathTo[Target]
      <4>1. CASE batch.back = Origin
        <5>1. nonce' = <<>>
          BY <4>1, <3>1 DEF NonceAt
        <5> QED BY <5>1, <4>1, <3>2, Paths
      <4>2. CASE batch.back # Origin
        <5> DEFINE i == TipOf(imm)
                   v == TipOf(vol)
                   a == Below(vol)
        <5>1. v \in Blocks /\ vol # <<>>
          BY <4>2, <3>2, SegEmpty DEF Points
        <5>2. /\ i \in Points /\ a \in Nat /\ a < Height(v) /\ a <= Height(i) /\ Comparable(i, v)
              /\ imm = PathTo[i] /\ vol = Seg(a, v)
          BY <5>1, StoredFacts
        <5>3. sides \in SUBSET Files
          BY Types DEF StoreInv, TypeInv
        <5>4. v = batch.back
          BY <3>2
        <5> HIDE DEF i, v, a
        <5>5. NonceAt(PathTo[i], Seg(a, v), sides, v) \subseteq {PathTo[v]}
          BY <5>1, <5>2, <5>3, <1>2, NonceAtTip
        <5>6. NonceAt(imm, vol, sides, batch.back) \subseteq {PathTo[v]}
          BY <5>5, <5>2, <5>4
        <5> QED BY <5>6, <5>4, <3>1, <3>2
      <4> QED BY <4>1, <4>2
    <3>4. nonce' \o batch.fwd = PathTo[Target]
      <4>1. PathTo[Target] \in Seq(Blocks)
        BY <3>2, Heights
      <4>2. PathTo[Target] \o <<>> = PathTo[Target]
        BY <4>1
      <4> QED BY <4>2, <3>2, <3>3
    <3> QED BY <3>1, <3>4, <2>1, <1>2 DEF NonceInv, Settled, Forwarding, Target, top
  <2> QED BY <2>1, <2>2, <1>4
<1>23. CASE SaveSnapshot
  <2>1. phase = "save" /\ phase' = "retain" /\ UNCHANGED <<nonce, batch, sides>>
    BY <1>23 DEF SaveSnapshot, Proceed, memory
  <2> QED BY <2>1, <1>2 DEF NonceInv, Settled, Forwarding, Target, top
<1>24. CASE SkipSnapshot \/ ClearSnapshots
  <2>1. /\ phase = "save" /\ phase' = "idle" /\ nonce' = nonce \o batch.fwd /\ from' = Target /\ sides' = sides
        /\ batch' = NoBatch
    BY <1>24 DEF SkipSnapshot, ClearSnapshots, RecordProgress, BatchDone, Target, top, disk
  <2>2. nonce' = PathTo[from'] /\ batch'.back = NoRollback
    BY <2>1, <1>2 DEF NoBatch
  <2> QED BY <2>1, <2>2, <1>2 DEF NonceInv
<1>25. CASE RetainSnapshots
  <2>1. /\ phase = "retain" /\ phase' = "sidecar" /\ nonce' = nonce \o batch.fwd /\ from' = Target
        /\ UNCHANGED <<sides, batch>>
    BY <1>25 DEF RetainSnapshots, RecordProgress, Proceed, Target, top
  <2>2. nonce' = PathTo[from']
    BY <2>1, <1>2
  <2> QED BY <2>1, <2>2, <1>2 DEF NonceInv, Settled, Forwarding
<1>26. CASE SaveSidecar
  <2>1. phase = "sidecar"
    BY <1>26 DEF SaveSidecar
  <2>2. CASE from # Origin
    <3>1. sides' = Save(sides, from, nonce) /\ phase' = "retainSides" /\ UNCHANGED <<nonce, from, batch>>
      BY <2>2, <1>26 DEF SaveSidecar, Proceed, memory
    <3>2. nonce = PathTo[from]
      BY <2>1, <1>2
    <3>3. ASSUME NEW f \in sides' PROVE f.state = PathTo[f.point]
      <4>1. CASE f \in sides
        BY <4>1, <1>2
      <4>2. CASE f \notin sides
        <5>1. f = [point |-> from, state |-> PathTo[from]]
          BY <4>2, <3>1, <3>2 DEF Save, File
        <5> QED BY <5>1
      <4> QED BY <4>1, <4>2
    <3> QED BY <3>1, <3>2, <3>3, <1>2 DEF NonceInv, Settled, Forwarding
  <2>3. CASE from = Origin
    BY <2>3, <1>4, <1>26 DEF SaveSidecar
  <2> QED BY <2>2, <2>3
<1>27. CASE RetainSidecars
  <2>1. /\ phase = "retainSides" /\ phase' = "idle" /\ UNCHANGED <<nonce, from>> /\ sides' \subseteq sides
        /\ batch' = NoBatch
    BY <1>27 DEF RetainSidecars, RetainLatest, BatchDone, memory
  <2>2. batch'.back = NoRollback
    BY <2>1 DEF NoBatch
  <2> QED BY <2>1, <2>2, <1>2 DEF NonceInv
<1> QED BY <1>6, <1>7, <1>8, <1>9, <1>10, <1>11, <1>12, <1>13, <1>14, <1>15, <1>16, <1>17, <1>18, <1>19,
           <1>20, <1>21, <1>22, <1>23, <1>24, <1>25, <1>26, <1>27 DEF Next, ApplyStep

(* NonceFollowsLedger: between batches the nonce and the ledger have seen  *)
(* the same blocks, when no batch rolls back after its forward blocks: the *)
(* batches are of one block, or the peer never abandons one.  The run      *)
(* sync_fork with this property shows what another batch makes of it.      *)
THEOREM NonceAndLedgerAgree ==
    ASSUME MaxRollback < K, MaxRollback = 0 \/ BatchSize = 1
    PROVE  Spec => []((base = <<>> \/ MaxRollback = 0) => NonceFollowsLedger)
<1> DEFINE Inv == SyncInv /\ NonceInv
<1>1. Init => Inv
  <2>1. Init => NonceInv
    BY Paths DEF NonceInv, Init, NoBatch, Settled, Forwarding
  <2>2. Init => SyncInv
    BY SyncInit
  <2> QED BY <2>1, <2>2
<1>2. Inv /\ [Next]_vars => Inv'
  BY SyncNext, NonceNext DEF SyncInv
<1>3. Inv => ((base = <<>> \/ MaxRollback = 0) => NonceFollowsLedger)
  BY DEF SyncInv, LedgerInv, NonceInv, Plain, NonceFollowsLedger, Trusted, Settled
<1> QED BY <1>1, <1>2, <1>3, PTL DEF Spec

=============================================================================
