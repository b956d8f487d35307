------------------------ MODULE ChainSyncServerProofs ------------------------
(***************************************************************************)
(* Proofs about ChainSyncServer.  The stores are pieces of one chain: the  *)
(* immutable store its beginning, the volatile store and the window its    *)
(* end.                                                                    *)
(***************************************************************************)
EXTENDS ChainSyncServer, InductionLemmas

(* PathTo gives each block its chain. *)
LEMMA Paths ==
    /\ PathTo \in [Points -> Seq(Blocks)]
    /\ PathTo[Origin] = <<>>
    /\ \A b \in Blocks : EndsWith(PathTo[b], b)
    /\ \A p \in Points : Chained(PathTo, PathTo[p], Origin, Parent, Slot)
<1>1. IsTree(Blocks, Origin, Parent, Slot)
  BY ChainTreeAssumption DEF IsTree
<1>2. IsPath(PathTo, Blocks, Origin, Parent)
  <2>1. PICK g : IsPath(g, Blocks, Origin, Parent)
    BY <1>1, PathExists
  <2>2. g = [p \in Points |-> IF p = Origin THEN <<>> ELSE Append(g[Parent[p]], p)]
    BY <2>1 DEF IsPath, Points
  <2>3. PathTo = [p \in Points |-> IF p = Origin THEN <<>> ELSE Append(PathTo[Parent[p]], p)]
    BY <2>2, Zenon DEF PathTo
  <2> QED BY <2>3, Zenon DEF IsPath, Points
<1>3. /\ PathTo \in [Blocks \cup {Origin} -> Seq(Blocks)]
      /\ PathTo[Origin] = <<>>
      /\ \A b \in Blocks : PathTo[b] = Append(PathTo[Parent[b]], b) /\ EndsWith(PathTo[b], b)
      /\ \A p \in Blocks \cup {Origin} : Chained(PathTo, PathTo[p], Origin, Parent, Slot)
  BY <1>1, <1>2, PathFacts, Zenon
<1> QED BY <1>3 DEF Points

-----------------------------------------------------------------------------
(* Traps. *)

(* A header is tentative only while its body is being fetched, and was     *)
(* allowed by the criterion, which has not changed since; the criterion    *)
(* knows the highest trap and the issuers that have one there.             *)
TrapInv(te, cr, sy, tr) ==
    /\ cr.number \in Nat
    /\ sy \in [step : SyncSteps, target : Points]
    /\ sy.step = "fetch" => sy.target \in Blocks
    /\ te # None => sy.step = "fetch" /\ te = sy.target /\ MayPipeline(cr, te)
    /\ tr \in Seq(Blocks)
    /\ \A i \in 1 .. Len(tr) :
          /\ Height(tr[i]) <= cr.number
          /\ Height(tr[i]) = cr.number => Issuer[tr[i]] \in cr.bad
    /\ \A i, j \in 1 .. Len(tr) :
          i # j /\ Height(tr[i]) = Height(tr[j]) => Issuer[tr[i]] # Issuer[tr[j]]

(* Recording an announced header as a trap. *)
LEMMA TrapStep ==
    ASSUME NEW te \in Blocks, NEW cr, NEW sy, NEW tr, TrapInv(te, cr, sy, tr), te # None,
           NEW sz \in [step : SyncSteps, target : Points], sz.step = "idle"
    PROVE  TrapInv(None, AsTrap(cr, te), sz, Append(tr, te))
<1> DEFINE ct == AsTrap(cr, te)
           h  == Height(te)
           n  == Len(tr)
           ts == Append(tr, te)
<1>1. \A b \in Blocks : Height(b) \in Nat
  BY Paths DEF Height, Points
<1>2. h \in Nat /\ cr.number \in Nat
  BY <1>1 DEF TrapInv
<1>3. ct.number = h /\ ct.bad = {Issuer[te]} \cup (IF h = cr.number THEN cr.bad ELSE {})
  BY DEF AsTrap
<1>4. h > cr.number \/ (h = cr.number /\ Issuer[te] \notin cr.bad)
  BY DEF TrapInv, MayPipeline
<1>5. /\ \A i \in 1 .. n :
          /\ Height(tr[i]) <= cr.number
          /\ Height(tr[i]) = cr.number => Issuer[tr[i]] \in cr.bad
      /\ \A i, j \in 1 .. n :
          i # j /\ Height(tr[i]) = Height(tr[j]) => Issuer[tr[i]] # Issuer[tr[j]]
  BY DEF TrapInv
<1>6. tr \in Seq(Blocks)
  BY DEF TrapInv
<1>7. n \in Nat /\ ts \in Seq(Blocks) /\ Len(ts) = n + 1 /\ ts[n + 1] = te
      /\ \A i \in 1 .. n : ts[i] = tr[i] /\ tr[i] \in Blocks
  BY <1>6
<1> HIDE DEF ct, h, n, ts
<1>8. \A i \in 1 .. n : Height(ts[i]) \in Nat /\ Height(ts[i]) <= h
                        /\ (Height(ts[i]) = h => h = cr.number /\ Issuer[ts[i]] \in cr.bad)
  <2> SUFFICES ASSUME NEW i \in 1 .. n
               PROVE  Height(ts[i]) \in Nat /\ Height(ts[i]) <= h
                        /\ (Height(ts[i]) = h => h = cr.number /\ Issuer[ts[i]] \in cr.bad)
    OBVIOUS
  <2>1. ts[i] = tr[i] /\ Height(tr[i]) \in Nat
    BY <1>1, <1>7
  <2> QED BY <2>1, <1>2, <1>4, <1>5
<1>9. Height(ts[n + 1]) = h
  BY <1>7 DEF h
<1>10. \A i \in 1 .. n + 1 : Height(ts[i]) <= h /\ (Height(ts[i]) = h => Issuer[ts[i]] \in ct.bad)
  <2> SUFFICES ASSUME NEW i \in 1 .. n + 1
               PROVE  Height(ts[i]) <= h /\ (Height(ts[i]) = h => Issuer[ts[i]] \in ct.bad)
    OBVIOUS
  <2>1. CASE i = n + 1
    BY <2>1, <1>2, <1>3, <1>7, <1>9
  <2>2. CASE i \in 1 .. n
    BY <2>2, <1>3, <1>8
  <2> QED BY <2>1, <2>2, <1>7
<1>11. \A i \in 1 .. n : Height(ts[i]) = h => Issuer[ts[i]] # Issuer[te]
  BY <1>2, <1>4, <1>8
<1>12. \A i, j \in 1 .. n + 1 :
          i # j /\ Height(ts[i]) = Height(ts[j]) => Issuer[ts[i]] # Issuer[ts[j]]
  <2> SUFFICES ASSUME NEW i \in 1 .. n + 1, NEW j \in 1 .. n + 1, i # j,
                      Height(ts[i]) = Height(ts[j])
               PROVE  Issuer[ts[i]] # Issuer[ts[j]]
    OBVIOUS
  <2>1. CASE i = n + 1
    <3>1. j \in 1 .. n
      BY <2>1, <1>7
    <3> QED BY <2>1, <3>1, <1>7, <1>9, <1>11
  <2>2. CASE j = n + 1
    <3>1. i \in 1 .. n
      BY <2>2, <1>7
    <3> QED BY <2>2, <3>1, <1>7, <1>9, <1>11
  <2>3. CASE i \in 1 .. n /\ j \in 1 .. n
    BY <2>3, <1>5, <1>7
  <2> QED BY <2>1, <2>2, <2>3, <1>7
<1>13. TrapInv(None, ct, sz, ts)
  BY <1>2, <1>3, <1>7, <1>10, <1>12 DEF TrapInv
<1> QED BY <1>13 DEF ct, ts

Traps == TrapInv(tentative, criterion, sync, traps)

(* At the start nothing is announced. *)
LEMMA TrapInit == Init => Traps
<1> SUFFICES ASSUME Init PROVE Traps
  OBVIOUS
<1> QED BY DEF Init, Traps, TrapInv, NoTraps, SyncIdle, None, SyncSteps, Points

(* Every step keeps Traps. *)
LEMMA TrapNext == Traps /\ [Next]_vars => Traps'
<1> SUFFICES ASSUME Traps, [Next]_vars PROVE Traps'
  OBVIOUS
<1>1. None \notin Blocks
  BY ChainSyncServerAssumption
<1>2. TrapInv(tentative, criterion, sync, traps) /\ sync \in [step : SyncSteps, target : Points]
  BY DEF Traps, TrapInv
<1>3. ASSUME NEW t \in Blocks, BeginFetch(t) PROVE Traps'
  <2>1. tentative = None
    BY <1>2, <1>3 DEF BeginFetch, TrapInv
  <2>2. sync' = [step |-> "fetch", target |-> t] /\ criterion' = criterion /\ traps' = traps
        /\ tentative' = IF MayPipeline(criterion, t) THEN t ELSE None
    BY <1>3, <2>1 DEF BeginFetch
  <2>3. tentative' # None => tentative' = t /\ MayPipeline(criterion, t)
    BY <2>2
  <2>4. sync' \in [step : SyncSteps, target : Points] /\ sync'.step = "fetch" /\ sync'.target = t
    BY <2>2 DEF SyncSteps, Points
  <2>5. TrapInv(tentative', criterion, sync', traps)
    BY <1>2, <2>3, <2>4 DEF TrapInv
  <2> QED BY <2>2, <2>5 DEF Traps
<1>4. CASE FetchFails
  <2>1. sync.target \in Blocks /\ sync.step = "fetch"
    BY <1>2, <1>4 DEF FetchFails, TrapInv
  <2>2. sync' \in [step : SyncSteps, target : Points] /\ sync'.step = "idle"
    BY <1>4 DEF FetchFails, SyncIdle, SyncSteps, Points
  <2>3. CASE tentative = sync.target
    <3>1. tentative' = None /\ criterion' = AsTrap(criterion, tentative) /\ traps' = Append(traps, tentative)
      BY <1>4, <2>3 DEF FetchFails
    <3>2. tentative \in Blocks /\ tentative # None
      BY <2>1, <2>3, <1>1
    <3>3. TrapInv(None, AsTrap(criterion, tentative), sync', Append(traps, tentative))
      BY <1>2, <2>2, <3>2, TrapStep
    <3> QED BY <3>1, <3>3 DEF Traps
  <2>4. CASE tentative # sync.target
    <3>1. tentative' = tentative /\ criterion' = criterion /\ traps' = traps
      BY <1>4, <2>4 DEF FetchFails
    <3>2. tentative = None
      BY <1>2, <2>4 DEF TrapInv
    <3> QED BY <1>2, <2>2, <3>1, <3>2 DEF Traps, TrapInv
  <2> QED BY <2>3, <2>4
(* The steps after a fetch, and those of other tasks, announce nothing. *)
<1>5. ASSUME tentative' = None \/ (tentative' = tentative /\ sync' = sync),
             criterion' = criterion, traps' = traps,
             sync' = sync \/ sync'.step # "fetch",
             sync' \in [step : SyncSteps, target : Points]
      PROVE  Traps'
  BY <1>2, <1>5 DEF Traps, TrapInv
<1>6. sync.step # "fetch" => tentative = None
  BY <1>2 DEF TrapInv
<1>7. CASE FetchEnds
  <2>1. tentative' = None /\ criterion' = criterion /\ traps' = traps
    BY <1>2, <1>7 DEF FetchEnds, TrapInv
  <2>2. sync' \in [step : SyncSteps, target : Points] /\ sync'.step # "fetch"
    BY <1>2, <1>7 DEF FetchEnds, SyncSteps
  <2> QED BY <2>1, <2>2, <1>5
<1>8. CASE ApplyBatch
  <2>1. tentative' = None /\ criterion' = criterion /\ traps' = traps
    BY <1>6, <1>8 DEF ApplyBatch
  <2>2. sync' \in [step : SyncSteps, target : Points] /\ sync'.step # "fetch"
    BY <1>2, <1>8 DEF ApplyBatch, SyncSteps
  <2> QED BY <2>1, <2>2, <1>5
<1>9. ASSUME NEW p \in Blocks, ApplyRollback(p) PROVE Traps'
  <2>1. tentative' = None /\ criterion' = criterion /\ traps' = traps
    BY <1>6, <1>9 DEF ApplyRollback
  <2>2. sync' \in [step : SyncSteps, target : Points] /\ sync'.step # "fetch"
    BY <1>9 DEF ApplyRollback, SyncSteps, Points
  <2> QED BY <2>1, <2>2, <1>5
<1>10. CASE Notify
  <2>1. tentative' = None /\ criterion' = criterion /\ traps' = traps
    BY <1>6, <1>10 DEF Notify
  <2>2. sync' \in [step : SyncSteps, target : Points] /\ sync'.step # "fetch"
    BY <1>10 DEF Notify, SyncIdle, SyncSteps, Points
  <2> QED BY <2>1, <2>2, <1>5
<1>11. CASE KillInPromotion
  <2>1. tentative' = None /\ criterion' = NoTraps /\ sync' = SyncIdle /\ traps' = <<>>
    BY <1>11 DEF KillInPromotion
  <2> QED BY <2>1 DEF Traps, TrapInv, NoTraps, SyncIdle, SyncSteps, Points
<1>12. CASE UNCHANGED service
  BY <1>12, <1>2 DEF service, Traps
<1>13. RecvRequestNext \/ ServerStep \/ (\E p \in Points : RecvFindIntersect(p)) \/ UNCHANGED vars
       => UNCHANGED service
  BY DEF RecvRequestNext, ServerStep, Reconcile, ReconcileTentative, RollBackToTip,
         ServeNextHeader, ServeTentative, AwaitReply, RecvFindIntersect, vars
<1> QED BY <1>3, <1>4, <1>7, <1>8, <1>9, <1>10, <1>11, <1>12, <1>13 DEF Next

(***************************************************************************)
(* However many fetches fail and in whatever order, the criterion of       *)
(* diffusion pipelining (apply_tentative_header_view, clear_trap) lets an  *)
(* issuer get at most one trap announced for each block number.            *)
(***************************************************************************)
THEOREM OneTrapAlways == Spec => []OneTrapPerIssuer
<1>1. Traps => OneTrapPerIssuer
  BY DEF Traps, TrapInv, OneTrapPerIssuer
<1> QED BY <1>1, TrapInit, TrapNext, PTL DEF Spec
-----------------------------------------------------------------------------
(* Positions on a chain. *)

(* The blocks of a chain are told apart by their heights. *)
LEMMA OnPath ==
    ASSUME NEW t \in Points, NEW h \in 1 .. Height(t)
    PROVE  /\ PathTo[t][h] \in Blocks /\ Height(PathTo[t][h]) = h
           /\ PathTo[PathTo[t][h]] = SubSeq(PathTo[t], 1, h)
           /\ Parent[PathTo[t][h]] = IF h = 1 THEN Origin ELSE PathTo[t][h - 1]
<1>1. PathTo[t] \in Seq(Blocks) /\ Chained(PathTo, PathTo[t], Origin, Parent, Slot)
  BY Paths
<1>2. h \in 1 .. Len(PathTo[t])
  BY DEF Height
<1> QED BY <1>1, <1>2 DEF Height, Chained

(* The heights of points. *)
LEMMA Heights ==
    /\ \A p \in Points : Height(p) \in Nat /\ PathTo[p] \in Seq(Blocks) /\ Len(PathTo[p]) = Height(p)
    /\ Height(Origin) = 0 /\ Origin \in Points /\ Origin \notin Blocks
    /\ \A b \in Blocks : Height(b) > 0 /\ b \in Points /\ PathTo[b][Height(b)] = b
<1>1. \A p \in Points : PathTo[p] \in Seq(Blocks)
  BY Paths
<1>2. \A b \in Blocks : EndsWith(PathTo[b], b)
  BY Paths
<1> QED BY <1>1, <1>2, Paths, ChainTreeAssumption DEF Height, Points, EndsWith

(* The slots along a chain ascend with the heights. *)
LEMMA SlotsAscend ==
    ASSUME NEW t \in Points, NEW i \in 1 .. Height(t), NEW j \in 1 .. Height(t)
    PROVE  /\ Slot[PathTo[t][i]] \in Nat /\ Slot[PathTo[t][j]] \in Nat
           /\ Slot[PathTo[t][i]] < Slot[PathTo[t][j]] <=> i < j
<1>1. Chained(PathTo, PathTo[t], Origin, Parent, Slot)
  BY Paths
<1>2. \A x, y \in 1 .. Height(t) : x < y => Slot[PathTo[t][x]] < Slot[PathTo[t][y]]
  BY <1>1 DEF Height, Chained
<1>3. PathTo[t][i] \in Blocks /\ PathTo[t][j] \in Blocks
  BY OnPath
<1>4. Slot[PathTo[t][i]] \in Nat /\ Slot[PathTo[t][j]] \in Nat
  BY <1>3, ChainTreeAssumption
<1>5. i \in Nat /\ j \in Nat
  BY Heights
<1>6. CASE i < j
  BY <1>2, <1>4, <1>6
<1>7. CASE i = j
  BY <1>4, <1>7
<1>8. CASE j < i
  BY <1>2, <1>4, <1>8, <1>5
<1> QED BY <1>5, <1>6, <1>7, <1>8

(* A point of a chain has a prefix of it as its own. *)
LEMMA PrefixOf ==
    ASSUME NEW p \in Points, NEW t \in Points, OnChain(p, t)
    PROVE  /\ Height(p) <= Height(t)
           /\ \A k \in 1 .. Height(p) : PathTo[p][k] = PathTo[t][k]
<1>1. CASE p = Origin
  BY <1>1, Heights
<1>2. CASE p # Origin
  <2>1. PICK h \in 1 .. Len(PathTo[t]) : p = PathTo[t][h]
    <3>1. p \in ToSet(PathTo[t]) /\ PathTo[t] \in Seq(Blocks)
      BY <1>2, Heights DEF OnChain
    <3> QED BY <3>1 DEF ToSet
  <2>2. h \in 1 .. Height(t) /\ PathTo[t] \in Seq(Blocks) /\ Len(PathTo[t]) = Height(t)
    BY <2>1, Heights
  <2>3. Height(p) = h /\ PathTo[p] = SubSeq(PathTo[t], 1, h)
    BY <2>1, <2>2, OnPath
  <2>4. \A k \in 1 .. h : SubSeq(PathTo[t], 1, h)[k] = PathTo[t][k]
    BY <2>2
  <2> QED BY <2>2, <2>3, <2>4
<1> QED BY <1>1, <1>2

(* Which blocks of a chain a piece of it holds, and where. *)
LEMMA InPiece ==
    ASSUME NEW t \in Points, NEW s, NEW a \in Nat, Piece(PathTo[t], s, a, Blocks)
    PROVE  /\ \A b \in ToSet(s) : /\ b \in Blocks
                                  /\ Height(b) \in a + 1 .. a + Len(s)
                                  /\ Height(b) <= Height(t)
                                  /\ PathTo[t][Height(b)] = b
                                  /\ Position(s, b) = Height(b) - a
           /\ \A h \in a + 1 .. a + Len(s) : PathTo[t][h] \in ToSet(s)
<1>1. s \in Seq(Blocks) /\ Len(s) \in Nat /\ a \in Nat /\ a + Len(s) <= Height(t) /\ Height(t) \in Nat
      /\ \A k \in 1 .. Len(s) : s[k] = PathTo[t][a + k]
  <2>1. Height(t) \in Nat /\ Len(PathTo[t]) = Height(t)
    BY Heights
  <2>2. s \in Seq(Blocks) /\ a \in Nat /\ a + Len(s) <= Len(PathTo[t])
        /\ \A k \in 1 .. Len(s) : s[k] = PathTo[t][a + k]
    BY DEF Piece
  <2> QED BY <2>1, <2>2
<1>2. \A k \in 1 .. Len(s) : Height(s[k]) = a + k /\ s[k] \in Blocks
  <2> SUFFICES ASSUME NEW k \in 1 .. Len(s) PROVE Height(s[k]) = a + k /\ s[k] \in Blocks
    OBVIOUS
  <2>1. a + k \in 1 .. Height(t)
    BY <1>1
  <2>2. Height(PathTo[t][a + k]) = a + k /\ PathTo[t][a + k] \in Blocks
    BY <2>1, OnPath
  <2> QED BY <2>2, <1>1
<1>3. ToSet(s) = {s[k] : k \in 1 .. Len(s)}
  BY <1>1 DEF ToSet
<1>4. ASSUME NEW b \in ToSet(s)
      PROVE  /\ b \in Blocks
             /\ Height(b) \in a + 1 .. a + Len(s)
             /\ Height(b) <= Height(t)
             /\ PathTo[t][Height(b)] = b
             /\ Position(s, b) = Height(b) - a
  <2>1. PICK k \in 1 .. Len(s) : b = s[k]
    BY <1>3
  <2>2. Height(b) = a + k /\ b \in Blocks /\ PathTo[t][Height(b)] = b
    BY <1>1, <1>2, <2>1
  <2>3. Position(s, b) \in 1 .. Len(s) /\ s[Position(s, b)] = b
    BY <2>1 DEF Position
  <2>4. Height(b) = a + Position(s, b)
    BY <2>3, <1>2
  <2> QED BY <2>2, <2>3, <2>4, <1>1
<1>5. ASSUME NEW h \in a + 1 .. a + Len(s) PROVE PathTo[t][h] \in ToSet(s)
  <2>1. h - a \in 1 .. Len(s) /\ a + (h - a) = h
    BY <1>1
  <2>2. s[h - a] = PathTo[t][h]
    BY <2>1, <1>1
  <2> QED BY <2>1, <2>2, <1>3
<1> QED BY <1>4, <1>5

(* Cutting a piece of a chain at one of its blocks. *)
LEMMA CutPiece ==
    ASSUME NEW t \in Points, NEW s, NEW a \in Nat, Piece(PathTo[t], s, a, Blocks), NEW b \in ToSet(s)
    PROVE  /\ Piece(PathTo[t], UpTo(s, b), a, Blocks) /\ Len(UpTo(s, b)) = Height(b) - a
           /\ Piece(PathTo[t], After(s, b), Height(b), Blocks)
           /\ Len(After(s, b)) = a + Len(s) - Height(b)
<1>1. s \in Seq(Blocks) /\ Len(s) \in Nat /\ a \in Nat /\ PathTo[t] \in Seq(Blocks)
  BY Heights DEF Piece
<1>2. Height(b) \in a + 1 .. a + Len(s) /\ Position(s, b) = Height(b) - a
  BY InPiece
<1> DEFINE x == Height(b) - a
<1>3. x \in 1 .. Len(s) /\ x \in Nat /\ 0 \in Nat /\ a + x = Height(b) /\ Position(s, b) = x
      /\ 0 <= x /\ x <= Len(s) /\ Len(s) <= Len(s)
  BY <1>1, <1>2
<1> HIDE DEF x
<1>4. Piece(PathTo[t], SubSeq(s, 0 + 1, x), a + 0, Blocks) /\ Len(SubSeq(s, 0 + 1, x)) = x - 0
  <2>1. PICK z \in Nat : z = 0
    OBVIOUS
  <2>2. z <= x
    BY <2>1, <1>3
  <2>3. Piece(PathTo[t], SubSeq(s, z + 1, x), a + z, Blocks) /\ Len(SubSeq(s, z + 1, x)) = x - z
    BY <2>2, <1>1, <1>3, PieceOfPiece
  <2> QED BY <2>1, <2>3
<1>5. Piece(PathTo[t], SubSeq(s, x + 1, Len(s)), a + x, Blocks)
      /\ Len(SubSeq(s, x + 1, Len(s))) = Len(s) - x
  <2>1. PICK y : y = Len(s)
    OBVIOUS
  <2>2. y \in Nat /\ x <= y /\ y <= Len(s)
    BY <2>1, <1>1, <1>3
  <2>3. Piece(PathTo[t], SubSeq(s, x + 1, y), a + x, Blocks) /\ Len(SubSeq(s, x + 1, y)) = y - x
    BY <2>2, <1>1, <1>3, PieceOfPiece
  <2> QED BY <2>1, <2>3
<1>6. UpTo(s, b) = SubSeq(s, 0 + 1, x) /\ After(s, b) = SubSeq(s, x + 1, Len(s))
  BY <1>3 DEF UpTo, After
<1>7. a + 0 = a /\ x - 0 = x /\ Len(s) - x = a + Len(s) - Height(b) /\ x = Height(b) - a
  BY <1>1, <1>3
<1> QED BY <1>3, <1>4, <1>5, <1>6, <1>7

-----------------------------------------------------------------------------
(* The stores. *)

(* im, vo and wi are the immutable store, the volatile store and the       *)
(* window of a chain that ends in t: its beginning, what comes after the   *)
(* first v blocks and what comes after the first w.  No block is missing   *)
(* between the stores, and no block of the window is immutable.            *)
Stores(t, v, w, im, vo, wi) ==
    /\ Piece(PathTo[t], im, 0, Blocks)
    /\ Piece(PathTo[t], vo, v, Blocks) /\ v + Len(vo) = Height(t)
    /\ Piece(PathTo[t], wi, w, Blocks) /\ w + Len(wi) = Height(t)
    /\ v <= Len(im) /\ Len(im) <= w

(* The numbers in it. *)
LEMMA StoreTypes ==
    ASSUME NEW t \in Points, NEW v, NEW w, NEW im, NEW vo, NEW wi,
           Stores(t, v, w, im, vo, wi)
    PROVE  /\ {im, vo, wi} \subseteq Seq(Blocks) /\ PathTo[t] \in Seq(Blocks)
           /\ v \in Nat /\ w \in Nat /\ Height(t) \in Nat /\ Len(PathTo[t]) = Height(t)
           /\ Len(im) \in Nat /\ Len(vo) \in Nat /\ Len(wi) \in Nat
           /\ v <= Len(im) /\ Len(im) <= w /\ w <= Height(t)
<1>1. Height(t) \in Nat /\ Len(PathTo[t]) = Height(t) /\ PathTo[t] \in Seq(Blocks)
  BY Heights
<1>2. im \in Seq(Blocks) /\ vo \in Seq(Blocks) /\ wi \in Seq(Blocks) /\ v \in Nat /\ w \in Nat
  BY DEF Stores, Piece
<1>3. Len(im) \in Nat /\ Len(vo) \in Nat /\ Len(wi) \in Nat
  BY <1>2
<1> QED BY <1>1, <1>2, <1>3 DEF Stores

(* The tip of the stores is the end of the chain. *)
LEMMA TipIs ==
    ASSUME NEW t \in Points, NEW v, NEW w, NEW im, NEW vo, NEW wi,
           Stores(t, v, w, im, vo, wi)
    PROVE  BestTip(im, vo) = t
<1>1. im \in Seq(Blocks) /\ vo \in Seq(Blocks)
      /\ v \in Nat /\ w \in Nat /\ Height(t) \in Nat
      /\ Len(im) \in Nat /\ Len(vo) \in Nat
      /\ v <= Len(im) /\ Len(im) <= w /\ w <= Height(t)
  BY StoreTypes
<1>2. v + Len(vo) = Height(t)
  BY DEF Stores
<1>3. \A k \in 1 .. Len(im) : im[k] = PathTo[t][0 + k]
  BY DEF Stores, Piece
<1>4. \A k \in 1 .. Len(vo) : vo[k] = PathTo[t][v + k]
  BY DEF Stores, Piece
<1>5. t # Origin => t \in Blocks
  BY DEF Points
<1>6. t # Origin => Height(t) > 0 /\ PathTo[t][Height(t)] = t
  BY <1>5, Heights
<1>7. t = Origin => Height(t) = 0
  BY Heights
<1>8. CASE vo = <<>>
  <2>1. Len(vo) = 0 /\ Len(im) = Height(t)
    BY <1>8, <1>1, <1>2
  <2>2. BestTip(im, vo) = IF im = <<>> THEN Origin ELSE im[Len(im)]
    BY <1>8 DEF BestTip, TipOf
  <2>3. CASE im = <<>>
    BY <2>1, <2>2, <2>3, <1>6
  <2>4. CASE im # <<>>
    <3>1. Len(im) \in 1 .. Len(im) /\ 0 + Len(im) = Height(t)
      BY <2>1, <2>4, <1>1
    <3>2. im[Len(im)] = PathTo[t][Height(t)] /\ t # Origin
      BY <3>1, <1>3, <1>7, <2>1
    <3> QED BY <3>2, <2>2, <2>4, <1>6
  <2> QED BY <2>3, <2>4
<1>9. CASE vo # <<>>
  <2>1. Len(vo) \in 1 .. Len(vo)
    BY <1>9, <1>1
  <2>2. vo[Len(vo)] = PathTo[t][Height(t)] /\ t # Origin
    BY <2>1, <1>1, <1>2, <1>4, <1>7, SMTT(30)
  <2> QED BY <2>2, <1>9, <1>6 DEF BestTip, TipOf
<1> QED BY <1>8, <1>9

(* Keeping the last k blocks of the end of a chain. *)
LEMMA LastKPiece ==
    ASSUME NEW u \in Points, NEW s, NEW a \in Nat, Piece(PathTo[u], s, a, Blocks), a + Len(s) = Height(u)
    PROVE  \E w \in Nat : /\ Piece(PathTo[u], LastK(s), w, Blocks) /\ w + Len(LastK(s)) = Height(u)
                          /\ a <= w /\ Height(u) - K <= w
                          /\ w = a \/ w = Height(u) - K
                          /\ Len(s) > K <=> a < Height(u) - K
<1>1. s \in Seq(Blocks) /\ Len(s) \in Nat /\ a \in Nat /\ PathTo[u] \in Seq(Blocks) /\ Height(u) \in Nat
  BY Heights DEF Piece
<1>2. K \in Nat /\ K > 0
  BY SecurityParamAssumption
<1>3. CASE Len(s) > K
  <2>1. PICK x, y : x = Len(s) - K /\ y = Len(s)
    OBVIOUS
  <2>2. x \in Nat /\ y \in Nat /\ x <= y /\ y <= Len(s)
    BY <2>1, <1>1, <1>2, <1>3
  <2>3. Piece(PathTo[u], SubSeq(s, x + 1, y), a + x, Blocks) /\ Len(SubSeq(s, x + 1, y)) = y - x
    BY <2>2, <1>1, PieceOfPiece
  <2>4. LastK(s) = SubSeq(s, x + 1, y)
    BY <2>1, <1>3 DEF LastK
  <2>5. a + x \in Nat /\ (a + x) + (y - x) = Height(u) /\ a <= a + x /\ a + x = Height(u) - K
        /\ a < Height(u) - K
    BY <2>1, <2>2, <1>1, <1>2, <1>3
  <2>6. PICK z \in Nat : z = a + x
    BY <2>5
  <2>7. /\ Piece(PathTo[u], LastK(s), z, Blocks) /\ z \in Nat /\ z + Len(LastK(s)) = Height(u)
        /\ a <= z /\ Height(u) - K <= z /\ z = Height(u) - K
    <3>1. Piece(PathTo[u], LastK(s), z, Blocks) /\ Len(LastK(s)) = y - x
      BY <2>3, <2>4, <2>6
    <3>2. z + (y - x) = Height(u) /\ a <= z /\ Height(u) - K <= z /\ z = Height(u) - K
      BY <2>2, <2>5, <2>6, <1>1, <1>2
    <3> QED BY <3>1, <3>2
  <2> QED BY <2>5, <2>7, <1>3
<1>4. CASE ~(Len(s) > K)
  <2>1. LastK(s) = s
    BY <1>4 DEF LastK
  <2>2. Height(u) - K <= a /\ ~(a < Height(u) - K)
    BY <1>1, <1>2, <1>4
  <2> QED BY <2>1, <2>2, <1>1, <1>4
<1> QED BY <1>3, <1>4

(* The stores after a rollback to a point of the window. *)
LEMMA RollbackStores ==
    ASSUME NEW t \in Points, NEW v, NEW w, NEW im, NEW vo, NEW wi,
           Stores(t, v, w, im, vo, wi), NEW p \in ToSet(wi)
    PROVE  Stores(p, v, w, im, UpTo(vo, p), UpTo(wi, p)) /\ p \in Points
<1>1. im \in Seq(Blocks) /\ vo \in Seq(Blocks) /\ wi \in Seq(Blocks)
      /\ v \in Nat /\ w \in Nat /\ Height(t) \in Nat /\ PathTo[t] \in Seq(Blocks)
      /\ Len(im) \in Nat /\ Len(vo) \in Nat /\ Len(wi) \in Nat
      /\ v <= Len(im) /\ Len(im) <= w /\ w <= Height(t)
  BY StoreTypes
<1>2. Piece(PathTo[t], im, 0, Blocks)
      /\ Piece(PathTo[t], vo, v, Blocks) /\ v + Len(vo) = Height(t)
      /\ Piece(PathTo[t], wi, w, Blocks) /\ w + Len(wi) = Height(t)
  BY DEF Stores
<1>3. p \in Blocks /\ Height(p) \in w + 1 .. w + Len(wi) /\ Height(p) <= Height(t)
      /\ PathTo[t][Height(p)] = p
  BY <1>1, <1>2, InPiece
<1>4. p \in Points /\ PathTo[p] \in Seq(Blocks) /\ Len(PathTo[p]) = Height(p) /\ Height(p) \in Nat
  BY <1>3, Heights
<1>5. OnChain(p, t)
  <2>1. Height(p) \in 1 .. Len(PathTo[t])
    BY <1>3, <1>4, <1>1, Heights
  <2>2. p \in ToSet(PathTo[t])
    BY <2>1, <1>1, <1>3 DEF ToSet
  <2> QED BY <2>2 DEF OnChain
<1>6. \A k \in 1 .. Height(p) : PathTo[p][k] = PathTo[t][k]
  BY <1>4, <1>5, PrefixOf
<1>7. p \in ToSet(vo)
  <2>1. Height(p) \in v + 1 .. v + Len(vo)
    BY <1>1, <1>2, <1>3, <1>4
  <2>2. PathTo[t][Height(p)] \in ToSet(vo)
    BY <2>1, <1>1, <1>2, InPiece
  <2> QED BY <2>2, <1>3
<1>8. Piece(PathTo[t], UpTo(vo, p), v, Blocks) /\ Len(UpTo(vo, p)) = Height(p) - v
  BY <1>1, <1>2, <1>7, CutPiece
<1>9. Piece(PathTo[t], UpTo(wi, p), w, Blocks) /\ Len(UpTo(wi, p)) = Height(p) - w
  BY <1>1, <1>2, CutPiece
<1>10. ASSUME NEW s, NEW a \in Nat, Piece(PathTo[t], s, a, Blocks), a + Len(s) <= Height(p)
       PROVE  Piece(PathTo[p], s, a, Blocks)
  <2>1. a \in Nat /\ Len(s) \in Nat
    BY <1>10 DEF Piece
  <2>2. \A k \in 1 .. a + Len(s) : PathTo[p][k] = PathTo[t][k]
    BY <2>1, <1>4, <1>6, <1>10
  <2> QED BY <2>2, <1>1, <1>4, <1>10, PieceMoves
<1>11. Piece(PathTo[p], im, 0, Blocks)
  <2>1. 0 + Len(im) <= Height(p)
    BY <1>1, <1>3, <1>4
  <2> QED BY <2>1, <1>2, <1>10
<1>12. Piece(PathTo[p], UpTo(vo, p), v, Blocks) /\ v + Len(UpTo(vo, p)) = Height(p)
  <2>1. v + Len(UpTo(vo, p)) = Height(p) /\ v + Len(UpTo(vo, p)) <= Height(p)
    BY <1>1, <1>4, <1>8
  <2> QED BY <2>1, <1>1, <1>8, <1>10
<1>13. Piece(PathTo[p], UpTo(wi, p), w, Blocks) /\ w + Len(UpTo(wi, p)) = Height(p)
  <2>1. w + Len(UpTo(wi, p)) = Height(p) /\ w + Len(UpTo(wi, p)) <= Height(p)
    BY <1>1, <1>4, <1>9
  <2> QED BY <2>1, <1>1, <1>9, <1>10
<1> QED BY <1>1, <1>4, <1>11, <1>12, <1>13 DEF Stores

(* A chain that ends in t, as part of one that goes on to u. *)
LEMMA PieceGoesOn ==
    ASSUME NEW t \in Points, NEW u \in Points, OnChain(t, u),
           NEW s, NEW a \in Nat, Piece(PathTo[t], s, a, Blocks)
    PROVE  Piece(PathTo[u], s, a, Blocks)
<1>1. PathTo[t] \in Seq(Blocks) /\ PathTo[u] \in Seq(Blocks) /\ Height(t) \in Nat /\ Height(u) \in Nat
      /\ Len(PathTo[t]) = Height(t) /\ Len(PathTo[u]) = Height(u)
  BY Heights
<1>2. Height(t) <= Height(u) /\ \A k \in 1 .. Height(t) : PathTo[t][k] = PathTo[u][k]
  BY PrefixOf
<1>3. Len(s) \in Nat /\ a + Len(s) <= Height(t)
  BY <1>1 DEF Piece
<1>4. a + Len(s) <= Len(PathTo[u]) /\ \A k \in 1 .. a + Len(s) : PathTo[u][k] = PathTo[t][k]
  BY <1>1, <1>2, <1>3
<1> QED BY <1>1, <1>4, PieceMoves

(* What a batch that ends in u makes of the stores: gr is the volatile     *)
(* store with the batch, do what is promoted of it and pr the immutable    *)
(* store after that.                                                       *)
PromotionOf(u, v, w, im, gr, do, pr) ==
    /\ Piece(PathTo[u], im, 0, Blocks) /\ Piece(PathTo[u], pr, 0, Blocks)
    /\ Piece(PathTo[u], gr, v, Blocks) /\ v + Len(gr) = Height(u)
    /\ Len(do) \in Nat
    /\ \/ Height(u) - w <= K /\ Len(do) = 0 /\ Len(pr) = Len(im)
       \/ Height(u) - w > K /\ Len(do) = Height(u) - K - v /\ Len(pr) = Height(u) - K

Batched(t, u, im, vo, wi, bt, gr, st, do, pr) ==
    /\ bt = SubSeq(PathTo[u], Height(t) + 1, Height(u))
    /\ gr = vo \o bt
    /\ st = StableEntries(wi \o bt)
    /\ do = IF st = <<>> THEN <<>> ELSE UpTo(gr, TipOf(st))
    /\ pr = im \o Retain(do, Blocks \ ToSet(im))

(* A batch that extends the chain promotes the blocks that leave the       *)
(* window, and no gap opens.                                               *)
LEMMA Promotion ==
    ASSUME NEW t \in Points, NEW v, NEW w, NEW im, NEW vo, NEW wi,
           Stores(t, v, w, im, vo, wi),
           NEW u \in Blocks, OnChain(t, u), Height(t) < Height(u),
           NEW bt, NEW gr, NEW st, NEW do, NEW pr, Batched(t, u, im, vo, wi, bt, gr, st, do, pr)
    PROVE  /\ PromotionOf(u, v, w, im, gr, do, pr)
           /\ Piece(PathTo[u], wi \o bt, w, Blocks) /\ w + Len(wi \o bt) = Height(u)
<1> DEFINE d == PathTo[u]
           H == Height(u)
<1>1. v \in Nat /\ w \in Nat /\ Height(t) \in Nat
      /\ Len(im) \in Nat /\ Len(vo) \in Nat /\ Len(wi) \in Nat
      /\ v <= Len(im) /\ Len(im) <= w /\ w <= Height(t)
  BY StoreTypes
<1>2. u \in Points /\ d \in Seq(Blocks) /\ H \in Nat /\ Len(d) = H
  BY Heights
<1>3. K \in Nat /\ K > 0
  BY SecurityParamAssumption
<1>4. Piece(PathTo[t], im, 0, Blocks)
      /\ Piece(PathTo[t], vo, v, Blocks) /\ v + Len(vo) = Height(t)
      /\ Piece(PathTo[t], wi, w, Blocks) /\ w + Len(wi) = Height(t)
  BY DEF Stores
<1>5. Piece(d, im, 0, Blocks)
  <2>1. PICK z \in Nat : z = 0
    OBVIOUS
  <2>2. Piece(PathTo[t], im, z, Blocks)
    BY <2>1, <1>4
  <2>3. Piece(d, im, z, Blocks)
    BY <2>2, <1>2, PieceGoesOn
  <2> QED BY <2>1, <2>3
<1>6. Piece(d, vo, v, Blocks)
  BY <1>1, <1>2, <1>4, PieceGoesOn
<1>7. Piece(d, wi, w, Blocks)
  BY <1>1, <1>2, <1>4, PieceGoesOn
<1>8. Piece(d, bt, Height(t), Blocks) /\ Len(bt) = H - Height(t)
  <2>1. Height(t) <= H /\ H <= Len(d)
    BY <1>1, <1>2
  <2>2. bt = SubSeq(d, Height(t) + 1, H)
    BY DEF Batched
  <2> HIDE DEF d, H
  <2>3. Piece(d, SubSeq(d, Height(t) + 1, H), Height(t), Blocks)
        /\ Len(SubSeq(d, Height(t) + 1, H)) = H - Height(t)
    BY <2>1, <1>1, <1>2, PieceOfWhole
  <2> QED BY <2>2, <2>3
<1>14. Height(t) < H
  OBVIOUS
<1> HIDE DEF d, H
<1>9. Piece(d, gr, v, Blocks) /\ v + Len(gr) = H /\ Len(gr) \in Nat
  <2>1. Piece(d, bt, v + Len(vo), Blocks)
    BY <1>4, <1>8
  <2>2. Piece(d, vo \o bt, v, Blocks) /\ Len(vo \o bt) = Len(vo) + Len(bt)
    BY <2>1, <1>1, <1>2, <1>6, PieceJoins
  <2>3. v + (Len(vo) + Len(bt)) = H /\ Len(vo) + Len(bt) \in Nat
    <3>1. PICK x \in Nat, m \in Nat : x = Len(vo) /\ m = Height(t)
      BY <1>1
    <3>2. v + x = m /\ Len(bt) = H - m /\ m < H
      BY <3>1, <1>4, <1>8, <1>14
    <3>3. v + (x + Len(bt)) = H /\ x + Len(bt) \in Nat
      BY <3>2, <1>1, <1>2
    <3> QED BY <3>1, <3>3
  <2>4. gr = vo \o bt
    BY DEF Batched
  <2> QED BY <2>2, <2>3, <2>4
<1> DEFINE e == wi \o bt
<1>10. Piece(d, e, w, Blocks) /\ w + Len(e) = H /\ Len(e) \in Nat
  <2>1. Piece(d, bt, w + Len(wi), Blocks)
    BY <1>4, <1>8
  <2>2. Piece(d, wi \o bt, w, Blocks) /\ Len(wi \o bt) = Len(wi) + Len(bt)
    BY <2>1, <1>1, <1>2, <1>7, PieceJoins
  <2>3. w + (Len(wi) + Len(bt)) = H /\ Len(wi) + Len(bt) \in Nat
    <3>1. PICK x \in Nat, m \in Nat : x = Len(wi) /\ m = Height(t)
      BY <1>1
    <3>2. w + x = m /\ Len(bt) = H - m /\ m < H
      BY <3>1, <1>4, <1>8, <1>14
    <3>3. w + (x + Len(bt)) = H /\ x + Len(bt) \in Nat
      BY <3>2, <1>1, <1>2
    <3> QED BY <3>1, <3>3
  <2> QED BY <2>2, <2>3
<1>11. /\ st = StableEntries(e)
       /\ do = IF st = <<>> THEN <<>> ELSE UpTo(gr, TipOf(st))
       /\ pr = im \o Retain(do, Blocks \ ToSet(im))
  BY DEF Batched
<1> HIDE DEF e
<1> DEFINE T == Blocks \ ToSet(im)
<1>12. CASE Len(e) > K
  <2>1. PICK zero \in Nat, y \in Nat : zero = 0 /\ y = Len(e) - K
    BY <1>3, <1>10, <1>12, SMTT(30)
  <2>2. zero <= y /\ y <= Len(e)
    BY <2>1, <1>3, <1>10, <1>12
  <2>3. Piece(d, SubSeq(e, zero + 1, y), w + zero, Blocks) /\ Len(SubSeq(e, zero + 1, y)) = y - zero
    BY <2>2, <1>1, <1>2, <1>10, PieceOfPiece
  <2>4. st = SubSeq(e, zero + 1, y)
    BY <2>1, <1>11, <1>12 DEF StableEntries
  <2>5. Piece(d, st, w, Blocks) /\ Len(st) = Len(e) - K
    <3>1. w + zero = w /\ y - zero = Len(e) - K
      BY <2>1, <1>1, <1>3, <1>10
    <3> QED BY <3>1, <2>3, <2>4
  <2>6. Len(st) \in Nat /\ Len(st) > 0 /\ w + Len(st) = H - K /\ H - w > K
    BY <2>5, <1>1, <1>2, <1>3, <1>10, <1>12
  <2>7. st \in Seq(Blocks) /\ \A k \in 1 .. Len(st) : st[k] = d[w + k]
    BY <2>5 DEF Piece
  <2>8. st # <<>> /\ TipOf(st) = d[H - K]
    BY <2>6, <2>7 DEF TipOf
  <2>9. H - K \in 1 .. H /\ H - K \in v + 1 .. v + Len(gr) /\ H - K - v \in Nat
    BY <2>6, <1>1, <1>2, <1>3, <1>9
  <2>10. TipOf(st) \in ToSet(gr) /\ Height(TipOf(st)) = H - K
    <3>1. d[H - K] \in ToSet(gr)
      BY <2>9, <1>1, <1>2, <1>9, InPiece DEF d
    <3>2. Height(d[H - K]) = H - K
      BY <2>9, <1>2, OnPath DEF d, H
    <3> QED BY <3>1, <3>2, <2>8
  <2>11. Piece(d, do, v, Blocks) /\ Len(do) = H - K - v
    <3>1. do = UpTo(gr, TipOf(st))
      BY <2>8, <1>11
    <3>2. PICK b : b = TipOf(st)
      OBVIOUS
    <3>3. b \in ToSet(gr) /\ Height(b) = H - K
      BY <3>2, <2>10
    <3>4. Piece(PathTo[u], UpTo(gr, b), v, Blocks) /\ Len(UpTo(gr, b)) = Height(b) - v
      BY <3>3, <1>1, <1>2, <1>9, CutPiece DEF d
    <3> QED BY <3>1, <3>2, <3>3, <3>4 DEF d
  <2>12. do \in Seq(Blocks) /\ \A k \in 1 .. Len(do) : do[k] = d[v + k]
    BY <2>11 DEF Piece
  <2> DEFINE j == Len(im) - v
  <2>13. j \in 0 .. Len(do)
    BY <2>6, <2>9, <2>11, <1>1, <1>2, <1>3
  <2>14. \A k \in 1 .. Len(do) : do[k] \in T <=> k > j
    <3> SUFFICES ASSUME NEW k \in 1 .. Len(do) PROVE do[k] \in T <=> k > j
      OBVIOUS
    <3>0. do[k] = d[v + k]
      BY <2>12
    <3>1. do[k] = d[v + k] /\ v + k \in 1 .. H /\ k \in Nat
      <4>1. Len(do) = H - K - v /\ Len(do) \in Nat
        BY <2>9, <2>11
      <4>2. k \in Nat /\ k >= 1 /\ v + k <= H - K
        BY <4>1, <1>1, <1>2, <1>3
      <4> QED BY <4>2, <3>0, <1>1, <1>2, <1>3
    <3>2. d[v + k] \in Blocks /\ Height(d[v + k]) = v + k
      BY <3>1, <1>2, OnPath DEF d, H
    <3>3. PICK z \in Nat : z = 0
      OBVIOUS
    <3>4. Piece(d, im, z, Blocks)
      BY <3>3, <1>5
    <3>5. /\ \A b \in ToSet(im) : Height(b) \in z + 1 .. z + Len(im)
          /\ \A h \in z + 1 .. z + Len(im) : d[h] \in ToSet(im)
      BY <3>4, <1>2, InPiece DEF d
    <3>6. d[v + k] \in ToSet(im) <=> v + k <= Len(im)
      <4>1. v + k <= Len(im) => v + k \in z + 1 .. z + Len(im)
        BY <3>1, <3>3, <1>1
      <4>2. d[v + k] \in ToSet(im) => v + k <= Len(im)
        <5> SUFFICES ASSUME d[v + k] \in ToSet(im) PROVE v + k <= Len(im)
          OBVIOUS
        <5>1. v + k \in z + 1 .. z + Len(im)
          BY <3>2, <3>5
        <5> QED BY <5>1, <3>3, <1>1
      <4> QED BY <4>1, <4>2, <3>5
    <3> QED BY <3>1, <3>2, <3>6, <1>1
  <2> DEFINE r == Retain(do, T)
  <2>15. r \in Seq(Blocks) /\ Len(r) = Len(do) - j /\ \A k \in 1 .. Len(do) - j : r[k] = do[j + k]
    <3> HIDE DEF T, j
    <3> QED BY <2>12, <2>13, <2>14, RetainSuffix
  <2> HIDE DEF r
  <2>16. Piece(d, r, Len(im), Blocks)
    <3>1. Len(im) + Len(r) = H - K /\ H - K <= Len(d) /\ Len(r) \in Nat /\ Len(do) \in Nat
      BY <2>11, <2>9, <2>15, <1>1, <1>2, <1>3
    <3>2. \A k \in 1 .. Len(r) : r[k] = d[Len(im) + k]
      <4> SUFFICES ASSUME NEW k \in 1 .. Len(r) PROVE r[k] = d[Len(im) + k]
        OBVIOUS
      <4>1. k \in 1 .. Len(do) - j /\ j + k \in 1 .. Len(do) /\ v + (j + k) = Len(im) + k
        BY <2>13, <2>15, <3>1, <1>1
      <4>2. r[k] = do[j + k] /\ do[j + k] = d[v + (j + k)]
        BY <4>1, <2>12, <2>15
      <4> QED BY <4>1, <4>2
    <3> QED BY <3>1, <3>2, <2>15, <1>1, <1>2 DEF Piece
  <2>17. Len(r) = H - K - Len(im)
    BY <2>11, <2>15, <2>9, <1>1, <1>2, <1>3
  <2>18. Piece(d, pr, 0, Blocks) /\ Len(pr) = H - K
    <3>1. PICK z \in Nat : z = 0
      OBVIOUS
    <3>2. Piece(d, im, z, Blocks) /\ Piece(d, r, z + Len(im), Blocks)
      BY <3>1, <2>16, <1>1, <1>5
    <3>3. Piece(d, im \o r, z, Blocks) /\ Len(im \o r) = Len(im) + Len(r)
      BY <3>2, <1>2, PieceJoins
    <3>4. Len(im) + Len(r) = H - K
      BY <2>17, <1>1, <1>2, <1>3
    <3>5. pr = im \o r
      BY <1>11 DEF r
    <3> QED BY <3>1, <3>3, <3>4, <3>5
  <2> HIDE DEF T, j
  <2>19. PromotionOf(u, v, w, im, gr, do, pr)
    BY <2>6, <2>9, <2>11, <2>18, <1>5, <1>9 DEF PromotionOf, d, H
  <2> QED BY <2>19, <1>10 DEF e, d, H
<1>13. CASE ~(Len(e) > K)
  <2>1. st = <<>> /\ do = <<>> /\ Len(do) = 0
    BY <1>11, <1>13 DEF StableEntries
  <2>2. Retain(do, T) = <<>>
    <3>1. do \in Seq(Blocks) /\ 0 \in 0 .. Len(do) /\ \A k \in 1 .. Len(do) : do[k] \in T <=> k > 0
      BY <2>1
    <3> HIDE DEF T
    <3>2. Retain(do, T) \in Seq(Blocks) /\ Len(Retain(do, T)) = Len(do) - 0
      BY <3>1, RetainSuffix
    <3> QED BY <3>2, <2>1
  <2>3. pr = im
    <3>1. im \in Seq(Blocks)
      BY <1>5 DEF Piece
    <3>2. pr = im \o <<>>
      BY <2>2, <1>11
    <3> QED BY <3>1, <3>2
  <2>4. H - w <= K
    BY <1>1, <1>2, <1>3, <1>10, <1>13
  <2> HIDE DEF T
  <2>5. PromotionOf(u, v, w, im, gr, do, pr)
    BY <2>1, <2>3, <2>4, <1>5, <1>9 DEF PromotionOf, d, H
  <2> QED BY <2>5, <1>10 DEF e, d, H
<1> QED BY <1>12, <1>13

(* The stores are those of one chain, and disjoint unless the process was  *)
(* killed in a promotion.                                                  *)
ChainInv(im, vo, wi, ki) ==
    \E t \in Points, v \in Nat, w \in Nat :
        Stores(t, v, w, im, vo, wi) /\ (ki = 0 => v = Len(im))

(* A batch in progress extends the chain of the stores. *)
TargetInv(im, vo, sy) ==
    sy.step \in {"fetch", "apply"} =>
        /\ sy.target \in Blocks
        /\ OnChain(BestTip(im, vo), sy.target)
        /\ Height(BestTip(im, vo)) < Height(sy.target)

StoreInv ==
    /\ kills \in Nat
    /\ sync \in [step : SyncSteps, target : Points]
    /\ ChainInv(imm, vol, window, kills)
    /\ TargetInv(imm, vol, sync)

(* Empty stores are those of the chain of Origin. *)
LEMMA StoreInit == Init => StoreInv
<1> SUFFICES ASSUME Init PROVE StoreInv
  OBVIOUS
<1>1. imm = <<>> /\ vol = <<>> /\ window = <<>> /\ kills = 0 /\ sync = [step |-> "idle", target |-> Origin]
  BY DEF Init, SyncIdle
<1>2. Origin \in Points /\ Height(Origin) = 0 /\ Len(PathTo[Origin]) = 0
  BY Heights
<1>3. PICK z \in Nat : z = 0
  OBVIOUS
<1>4. Stores(Origin, z, z, <<>>, <<>>, <<>>) /\ z = Len(<<>>)
  BY <1>2, <1>3 DEF Stores, Piece
<1>5. ChainInv(imm, vol, window, kills)
  BY <1>1, <1>2, <1>4 DEF ChainInv
<1>6. TargetInv(imm, vol, sync) /\ sync \in [step : SyncSteps, target : Points] /\ kills \in Nat
  BY <1>1, <1>2 DEF TargetInv, SyncSteps
<1> QED BY <1>5, <1>6 DEF StoreInv

(* The batch is applied. *)
LEMMA ApplyStores ==
    ASSUME NEW t \in Points, NEW v, NEW w, NEW im, NEW vo, NEW wi,
           Stores(t, v, w, im, vo, wi),
           NEW u \in Blocks, OnChain(t, u), Height(t) < Height(u),
           NEW bt, NEW gr, NEW st, NEW do, NEW pr, Batched(t, u, im, vo, wi, bt, gr, st, do, pr)
    PROVE  \E v2 \in Nat, w2 \in Nat :
              /\ Stores(u, v2, w2, pr, SubSeq(gr, Len(do) + 1, Len(gr)), LastK(wi \o bt))
              /\ v = Len(im) => v2 = Len(pr)
<1>1. v \in Nat /\ w \in Nat /\ Height(t) \in Nat /\ Len(im) \in Nat /\ v <= Len(im) /\ Len(im) <= w
      /\ w <= Height(t)
  BY StoreTypes
<1>2. u \in Points /\ PathTo[u] \in Seq(Blocks) /\ Height(u) \in Nat /\ Len(PathTo[u]) = Height(u)
  BY Heights
<1>3. K \in Nat /\ K > 0
  BY SecurityParamAssumption
<1>4. /\ PromotionOf(u, v, w, im, gr, do, pr)
      /\ Piece(PathTo[u], wi \o bt, w, Blocks) /\ w + Len(wi \o bt) = Height(u)
  BY Promotion
<1> DEFINE e == wi \o bt
<1>5. PICK w2 \in Nat : /\ Piece(PathTo[u], LastK(e), w2, Blocks) /\ w2 + Len(LastK(e)) = Height(u)
                        /\ w <= w2 /\ Height(u) - K <= w2 /\ (w2 = w \/ w2 = Height(u) - K)
                        /\ (Len(e) > K <=> w < Height(u) - K)
  <2> HIDE DEF e
  <2>1. Piece(PathTo[u], e, w, Blocks) /\ w + Len(e) = Height(u)
    BY <1>4 DEF e
  <2> QED BY <2>1, <1>1, <1>2, LastKPiece
<1> HIDE DEF e
<1>6. /\ Piece(PathTo[u], pr, 0, Blocks)
      /\ Piece(PathTo[u], gr, v, Blocks) /\ v + Len(gr) = Height(u)
      /\ Len(do) \in Nat
      /\ \/ Height(u) - w <= K /\ Len(do) = 0 /\ Len(pr) = Len(im)
         \/ Height(u) - w > K /\ Len(do) = Height(u) - K - v /\ Len(pr) = Height(u) - K
  BY <1>4 DEF PromotionOf
<1>7. PICK x \in Nat, y \in Nat : x = Len(do) /\ y = Len(gr)
  <2>1. Len(gr) \in Nat
    BY <1>6 DEF Piece
  <2> QED BY <2>1, <1>6
<1>8. \/ Height(u) - w <= K /\ x = 0 /\ Len(pr) = Len(im)
      \/ Height(u) - w > K /\ x = Height(u) - K - v /\ Len(pr) = Height(u) - K
  BY <1>6, <1>7
<1>9. v + y = Height(u) /\ y <= Len(gr)
  BY <1>6, <1>7
<1>10. x <= y
  BY <1>1, <1>2, <1>3, <1>8, <1>9, SMTT(30)
<1>11. Piece(PathTo[u], SubSeq(gr, x + 1, y), v + x, Blocks) /\ Len(SubSeq(gr, x + 1, y)) = y - x
  <2>1. Piece(PathTo[u], gr, v, Blocks)
    BY <1>6
  <2> QED BY <2>1, <1>1, <1>2, <1>9, <1>10, PieceOfPiece
<1>12. PICK v2 \in Nat : v2 = v + x
  BY <1>1
<1>13. v2 + (y - x) = Height(u) /\ v2 <= Len(pr) /\ Len(pr) <= w2 /\ (v = Len(im) => v2 = Len(pr))
  <2>1. w <= w2 /\ Height(u) - K <= w2
    BY <1>5
  <2>2. CASE Height(u) - w <= K /\ x = 0 /\ Len(pr) = Len(im)
    BY <2>1, <2>2, <1>1, <1>2, <1>9, <1>12
  <2>3. CASE Height(u) - w > K /\ x = Height(u) - K - v /\ Len(pr) = Height(u) - K
    <3>1. PICK H \in Nat : H = Height(u)
      BY <1>2
    <3>2. x = H - K - v /\ v + y = H /\ Len(pr) = H - K /\ H - K <= w2
      BY <3>1, <2>1, <2>3, <1>9
    <3>3. v2 = H - K /\ v2 + (y - x) = H
      BY <3>2, <1>1, <1>3, <1>12
    <3> QED BY <3>1, <3>2, <3>3
  <2> QED BY <2>2, <2>3, <1>8
<1>14. Piece(PathTo[u], SubSeq(gr, x + 1, y), v2, Blocks) /\ v2 + Len(SubSeq(gr, x + 1, y)) = Height(u)
  BY <1>11, <1>12, <1>13
<1>15. Stores(u, v2, w2, pr, SubSeq(gr, x + 1, y), LastK(e))
  <2>1. Piece(PathTo[u], LastK(e), w2, Blocks) /\ w2 + Len(LastK(e)) = Height(u)
    BY <1>5
  <2>2. Piece(PathTo[u], pr, 0, Blocks)
    BY <1>6
  <2> QED BY <2>1, <2>2, <1>13, <1>14 DEF Stores
<1>16. Stores(u, v2, w2, pr, SubSeq(gr, Len(do) + 1, Len(gr)), LastK(wi \o bt))
  BY <1>15, <1>7 DEF e
<1> QED BY <1>13, <1>16

(* The process is killed when n blocks are immutable, and starts again.    *)
LEMMA KillStores ==
    ASSUME NEW t \in Points, NEW v, NEW w, NEW im, NEW vo, NEW wi,
           Stores(t, v, w, im, vo, wi), v = Len(im),
           NEW u \in Blocks, OnChain(t, u), Height(t) < Height(u),
           NEW bt, NEW gr, NEW st, NEW do, NEW pr, Batched(t, u, im, vo, wi, bt, gr, st, do, pr),
           NEW n \in Len(im) .. Len(pr)
    PROVE  \E w2 \in Nat : Stores(u, v, w2, SubSeq(pr, 1, n), gr, LastK(gr))
<1>1. v \in Nat /\ w \in Nat /\ Len(im) \in Nat
  BY StoreTypes
<1>2. u \in Points /\ PathTo[u] \in Seq(Blocks) /\ Height(u) \in Nat /\ Len(PathTo[u]) = Height(u)
  BY Heights
<1>3. K \in Nat /\ K > 0
  BY SecurityParamAssumption
<1>4. PromotionOf(u, v, w, im, gr, do, pr)
  BY Promotion
<1>5. /\ Piece(PathTo[u], pr, 0, Blocks)
      /\ Piece(PathTo[u], gr, v, Blocks) /\ v + Len(gr) = Height(u)
      /\ Len(pr) = Len(im) \/ Len(pr) = Height(u) - K
  BY <1>4 DEF PromotionOf
<1>6. PICK w2 \in Nat : /\ Piece(PathTo[u], LastK(gr), w2, Blocks) /\ w2 + Len(LastK(gr)) = Height(u)
                        /\ v <= w2 /\ Height(u) - K <= w2
  <2>1. Piece(PathTo[u], gr, v, Blocks) /\ v + Len(gr) = Height(u)
    BY <1>5
  <2> QED BY <2>1, <1>1, <1>2, LastKPiece
<1>7. Len(pr) \in Nat
  BY <1>5 DEF Piece
<1>8. n \in Nat /\ n <= Len(pr) /\ Len(im) <= n /\ n <= w2
  <2>1. Len(pr) <= w2
    BY <1>1, <1>2, <1>3, <1>5, <1>6
  <2> QED BY <2>1, <1>1, <1>7
<1>9. Piece(PathTo[u], SubSeq(pr, 1, n), 0, Blocks) /\ Len(SubSeq(pr, 1, n)) = n
  <2>1. PICK z \in Nat : z = 0
    OBVIOUS
  <2>2. Piece(PathTo[u], pr, z, Blocks) /\ z <= n
    BY <2>1, <1>5, <1>8
  <2>3. Piece(PathTo[u], SubSeq(pr, z + 1, n), z + z, Blocks) /\ Len(SubSeq(pr, z + 1, n)) = n - z
    BY <2>2, <1>2, <1>8, PieceOfPiece
  <2> QED BY <2>1, <2>3, <1>8
<1>10. v <= Len(SubSeq(pr, 1, n)) /\ Len(SubSeq(pr, 1, n)) <= w2
  BY <1>8, <1>9
<1>11. Stores(u, v, w2, SubSeq(pr, 1, n), gr, LastK(gr))
  <2>1. Piece(PathTo[u], gr, v, Blocks) /\ v + Len(gr) = Height(u)
    BY <1>5
  <2>2. Piece(PathTo[u], LastK(gr), w2, Blocks) /\ w2 + Len(LastK(gr)) = Height(u)
    BY <1>6
  <2> QED BY <2>1, <2>2, <1>9, <1>10 DEF Stores
<1> QED BY <1>11

(* Every step keeps StoreInv. *)
LEMMA StoreNext ==
    ASSUME MaxKills <= 1, StoreInv, [Next]_vars
    PROVE  StoreInv'
<1>1. kills \in Nat /\ sync \in [step : SyncSteps, target : Points]
      /\ ChainInv(imm, vol, window, kills) /\ TargetInv(imm, vol, sync)
  BY DEF StoreInv
<1>2. PICK t \in Points, v \in Nat, w \in Nat :
        Stores(t, v, w, imm, vol, window) /\ (kills = 0 => v = Len(imm))
  BY <1>1 DEF ChainInv
<1>3. BestTip(imm, vol) = t
  BY <1>2, TipIs
(* What a step that leaves the stores alone has to show. *)
<1>4. ASSUME UNCHANGED <<chainDb, kills>>, sync' \in [step : SyncSteps, target : Points],
             TargetInv(imm, vol, sync')
      PROVE  StoreInv'
  <2>1. imm' = imm /\ vol' = vol /\ window' = window /\ kills' = kills
    BY <1>4 DEF chainDb
  <2> QED BY <2>1, <1>1, <1>4 DEF StoreInv
<1>5. ASSUME NEW u \in Blocks, BeginFetch(u) PROVE StoreInv'
  <2>1. UNCHANGED <<chainDb, kills>> /\ sync' = [step |-> "fetch", target |-> u]
    BY <1>5 DEF BeginFetch
  <2>2. OnChain(t, u) /\ Height(u) - Height(t) \in 1 .. BatchSize
    BY <1>3, <1>5 DEF BeginFetch, ChainTip
  <2>3. Height(u) \in Nat /\ Height(t) \in Nat /\ u \in Points
    BY Heights
  <2>4. Height(t) < Height(u)
    BY <2>2, <2>3, ChainSyncServerAssumption
  <2>5. sync' \in [step : SyncSteps, target : Points] /\ sync'.target = u
    BY <2>1, <2>3 DEF SyncSteps
  <2>6. TargetInv(imm, vol, sync')
    BY <2>2, <2>4, <2>5, <1>3 DEF TargetInv
  <2> QED BY <2>1, <2>5, <2>6, <1>4
<1>6. CASE FetchFails
  <2>1. UNCHANGED <<chainDb, kills>> /\ sync' = [step |-> "idle", target |-> Origin]
    BY <1>6 DEF FetchFails, SyncIdle
  <2>2. sync' \in [step : SyncSteps, target : Points] /\ TargetInv(imm, vol, sync')
    BY <2>1 DEF SyncSteps, Points, TargetInv
  <2> QED BY <2>1, <2>2, <1>4
<1>7. CASE FetchEnds
  <2>1. UNCHANGED <<chainDb, kills>> /\ sync' = [sync EXCEPT !.step = "apply"] /\ sync.step = "fetch"
    BY <1>7 DEF FetchEnds
  <2>2. sync' \in [step : SyncSteps, target : Points] /\ sync'.target = sync.target
    BY <2>1, <1>1 DEF SyncSteps
  <2>3. TargetInv(imm, vol, sync')
    BY <2>1, <2>2, <1>1 DEF TargetInv
  <2> QED BY <2>1, <2>2, <2>3, <1>4
<1>8. CASE Notify
  <2>1. UNCHANGED <<chainDb, kills>> /\ sync' = [step |-> "idle", target |-> Origin]
    BY <1>8 DEF Notify, SyncIdle
  <2>2. sync' \in [step : SyncSteps, target : Points] /\ TargetInv(imm, vol, sync')
    BY <2>1 DEF SyncSteps, Points, TargetInv
  <2> QED BY <2>1, <2>2, <1>4
(* What is known of a batch when it is applied. *)
<1>9. ASSUME sync.step = "apply"
      PROVE  /\ sync.target \in Blocks /\ OnChain(t, sync.target) /\ Height(t) < Height(sync.target)
             /\ Batched(t, sync.target, imm, vol, window, BatchTo(sync.target), Grown, Stable, Doomed, Promoted)
  <2>1. sync.target \in Blocks /\ OnChain(t, sync.target) /\ Height(t) < Height(sync.target)
    BY <1>1, <1>3, <1>9 DEF TargetInv
  <2>2. BatchTo(sync.target) = SubSeq(PathTo[sync.target], Height(t) + 1, Height(sync.target))
    BY <1>3 DEF BatchTo, ChainTip
  <2>3. Grown = vol \o BatchTo(sync.target) /\ Stable = StableEntries(window \o BatchTo(sync.target))
    BY DEF Grown, Stable
  <2>4. Doomed = (IF Stable = <<>> THEN <<>> ELSE UpTo(Grown, TipOf(Stable)))
        /\ Promoted = imm \o Retain(Doomed, Blocks \ ToSet(imm))
    BY DEF Doomed, Promoted
  <2> QED BY <2>1, <2>2, <2>3, <2>4 DEF Batched
<1>10. CASE ApplyBatch
  <2>1. /\ sync.step = "apply" /\ imm' = Promoted /\ vol' = SubSeq(Grown, Len(Doomed) + 1, Len(Grown))
        /\ window' = LastK(window \o BatchTo(sync.target)) /\ kills' = kills
        /\ sync' = [sync EXCEPT !.step = "notify"]
    BY <1>10 DEF ApplyBatch, Drained
  <2>2. PICK u \in Blocks : u = sync.target
    BY <2>1, <1>9
  <2>3. PICK bt, gr, st, do, pr :
           /\ bt = BatchTo(sync.target) /\ gr = Grown /\ st = Stable /\ do = Doomed /\ pr = Promoted
           /\ Batched(t, u, imm, vol, window, bt, gr, st, do, pr)
    BY <2>1, <2>2, <1>9
  <2>4. OnChain(t, u) /\ Height(t) < Height(u) /\ Batched(t, u, imm, vol, window, bt, gr, st, do, pr)
    BY <2>1, <2>2, <2>3, <1>9
  <2>5. PICK v2 \in Nat, w2 \in Nat :
           /\ Stores(u, v2, w2, pr, SubSeq(gr, Len(do) + 1, Len(gr)), LastK(window \o bt))
           /\ (v = Len(imm) => v2 = Len(pr))
    BY <2>4, <1>2, ApplyStores
  <2>6. Stores(u, v2, w2, imm', vol', window') /\ (kills' = 0 => v2 = Len(imm'))
    BY <2>1, <2>3, <2>5, <1>2
  <2>7. ChainInv(imm', vol', window', kills')
    BY <2>6, Heights DEF ChainInv
  <2>8. sync' \in [step : SyncSteps, target : Points] /\ sync'.step = "notify"
    BY <2>1, <1>1 DEF SyncSteps
  <2>9. TargetInv(imm', vol', sync') /\ kills' \in Nat
    BY <2>1, <2>8, <1>1 DEF TargetInv
  <2> QED BY <2>7, <2>8, <2>9 DEF StoreInv
<1>11. ASSUME NEW p \in Blocks, ApplyRollback(p) PROVE StoreInv'
  <2>1. /\ p # Origin /\ CanRollBackward(window, p) /\ vol' = UpTo(vol, p) /\ imm' = imm /\ kills' = kills
        /\ window' = RollBackward(window, p) /\ sync' = [step |-> "notify", target |-> p]
    BY <1>11 DEF ApplyRollback
  <2>2. p \in ToSet(window) /\ window' = UpTo(window, p)
    BY <2>1 DEF CanRollBackward, RollBackward
  <2>3. Stores(p, v, w, imm, UpTo(vol, p), UpTo(window, p)) /\ p \in Points
    BY <2>2, <1>2, RollbackStores
  <2>4. ChainInv(imm', vol', window', kills')
    BY <2>1, <2>2, <2>3, <1>2 DEF ChainInv
  <2>5. sync' \in [step : SyncSteps, target : Points] /\ sync'.step = "notify"
    BY <2>1, <2>3 DEF SyncSteps
  <2>6. TargetInv(imm', vol', sync') /\ kills' \in Nat
    BY <2>1, <2>5, <1>1 DEF TargetInv
  <2> QED BY <2>4, <2>5, <2>6 DEF StoreInv
<1>12. CASE KillInPromotion
  <2>1. /\ sync.step = "apply" /\ kills < MaxKills /\ kills' = kills + 1
        /\ vol' = Grown /\ window' = LastK(Grown) /\ sync' = [step |-> "idle", target |-> Origin]
    BY <1>12 DEF KillInPromotion, SeedFromEntries, SyncIdle
  <2>2. PICK n \in Len(imm) .. Len(Promoted) : imm' = SubSeq(Promoted, 1, n)
    BY <1>12 DEF KillInPromotion
  <2>3. kills = 0 /\ kills' = 1
    BY <2>1, <1>1, ChainSyncServerAssumption
  <2>4. v = Len(imm)
    BY <2>3, <1>2
  <2>5. PICK u \in Blocks : u = sync.target
    BY <2>1, <1>9
  <2>6. PICK bt, gr, st, do, pr :
           /\ bt = BatchTo(sync.target) /\ gr = Grown /\ st = Stable /\ do = Doomed /\ pr = Promoted
           /\ Batched(t, u, imm, vol, window, bt, gr, st, do, pr)
    BY <2>1, <2>5, <1>9
  <2>7. OnChain(t, u) /\ Height(t) < Height(u) /\ Batched(t, u, imm, vol, window, bt, gr, st, do, pr)
    BY <2>1, <2>5, <2>6, <1>9
  <2>8. n \in Len(imm) .. Len(pr)
    BY <2>2, <2>6
  <2>9. PICK w2 \in Nat : Stores(u, v, w2, SubSeq(pr, 1, n), gr, LastK(gr))
    BY <2>4, <2>7, <2>8, <1>2, KillStores
  <2>10. Stores(u, v, w2, imm', vol', window') /\ kills' # 0
    BY <2>1, <2>2, <2>3, <2>6, <2>9
  <2>11. ChainInv(imm', vol', window', kills')
    BY <2>10, Heights DEF ChainInv
  <2>12. sync' \in [step : SyncSteps, target : Points] /\ TargetInv(imm', vol', sync') /\ kills' \in Nat
    BY <2>1, <2>3 DEF SyncSteps, Points, TargetInv
  <2> QED BY <2>11, <2>12 DEF StoreInv
<1>13. CASE UNCHANGED service
  <2>1. UNCHANGED <<chainDb, kills>> /\ sync' = sync
    BY <1>13 DEF service
  <2> QED BY <2>1, <1>1, <1>4
<1>14. RecvRequestNext \/ ServerStep \/ (\E p \in Points : RecvFindIntersect(p)) \/ UNCHANGED vars
       => UNCHANGED service
  BY DEF RecvRequestNext, ServerStep, Reconcile, ReconcileTentative, RollBackToTip,
         ServeNextHeader, ServeTentative, AwaitReply, RecvFindIntersect, vars
<1> QED BY <1>5, <1>6, <1>7, <1>8, <1>10, <1>11, <1>12, <1>13, <1>14 DEF Next

-----------------------------------------------------------------------------
(* What is read out of the stores. *)

(* No block of the chain is in both stores only if they meet. *)
LEMMA Disjoint ==
    ASSUME NEW t \in Points, NEW v, NEW w, NEW im, NEW vo, NEW wi,
           Stores(t, v, w, im, vo, wi), ToSet(im) \cap ToSet(vo) = {}
    PROVE  v = Len(im)
<1>1. v \in Nat /\ w \in Nat /\ Height(t) \in Nat /\ Len(im) \in Nat /\ Len(vo) \in Nat
      /\ v <= Len(im) /\ Len(im) <= w /\ w <= Height(t)
  BY StoreTypes
<1>2. PICK z \in Nat : z = 0
  OBVIOUS
<1>3. Piece(PathTo[t], im, z, Blocks) /\ Piece(PathTo[t], vo, v, Blocks) /\ v + Len(vo) = Height(t)
  BY <1>2 DEF Stores
<1> SUFFICES ASSUME v < Len(im) PROVE FALSE
  BY <1>1
<1>4. v + 1 \in z + 1 .. z + Len(im) /\ v + 1 \in v + 1 .. v + Len(vo)
  BY <1>1, <1>2, <1>3
<1>5. PathTo[t][v + 1] \in ToSet(im)
  BY <1>3, <1>4, InPiece
<1>6. PathTo[t][v + 1] \in ToSet(vo)
  BY <1>1, <1>3, <1>4, InPiece
<1> QED BY <1>5, <1>6

(* The point p is on the chain that ends in t. *)
At(t, p) ==
    \/ p = Origin
    \/ p \in Blocks /\ Height(p) \in 1 .. Height(t) /\ PathTo[t][Height(p)] = p

(* What the immutable store holds after a point of the chain. *)
Older(im, p) == IF SuffixFound(im, p) THEN ImmutableSuffixAfter(im, p) ELSE <<>>

(* It is a piece of the chain, and empty above the store. *)
LEMMA OlderPart ==
    ASSUME NEW t \in Points, NEW im, NEW z \in Nat, z = 0, Piece(PathTo[t], im, z, Blocks),
           NEW p, At(t, p)
    PROVE  /\ Height(p) <= Len(im) => /\ Piece(PathTo[t], Older(im, p), Height(p), Blocks)
                                      /\ Len(Older(im, p)) = Len(im) - Height(p)
           /\ Height(p) > Len(im) => Older(im, p) = <<>>
<1>1. im \in Seq(Blocks) /\ Len(im) \in Nat /\ Height(t) \in Nat /\ Len(PathTo[t]) = Height(t)
      /\ Len(im) <= Height(t)
  BY Heights DEF Piece
<1>2. CASE p = Origin
  <2>1. Older(im, p) = im /\ Height(p) = 0
    BY <1>2, Heights DEF Older, SuffixFound, ImmutableSuffixAfter
  <2> QED BY <2>1, <1>1
<1>3. CASE p # Origin
  <2>1. p \in Blocks /\ Height(p) \in 1 .. Height(t) /\ PathTo[t][Height(p)] = p /\ Height(p) \in Nat
    BY <1>3, <1>1 DEF At
  <2>2. CASE im = <<>>
    <3>1. Older(im, p) = <<>> /\ Len(im) = 0
      BY <2>2 DEF Older, SuffixFound, ImmutableSuffixAfter
    <3> QED BY <3>1, <2>1
  <2>3. CASE im # <<>>
    <3>1. 1 \in 1 .. Height(t) /\ Len(im) > 0 /\ 1 \in 1 .. Len(im)
      BY <2>3, <1>1
    <3>2. im[1] = PathTo[t][1]
      BY <3>1 DEF Piece
    <3>3. ~(Slot[p] < Slot[im[1]])
      <4>1. Slot[PathTo[t][Height(p)]] < Slot[PathTo[t][1]] <=> Height(p) < 1
        BY <2>1, <3>1, SlotsAscend
      <4> QED BY <4>1, <2>1, <3>2
    <3>4. CASE p \in ToSet(im)
      <4>1. Older(im, p) = After(im, p)
        BY <3>3, <3>4, <2>3, <1>3 DEF Older, SuffixFound, ImmutableSuffixAfter
      <4>2. Height(p) \in z + 1 .. z + Len(im)
        BY <3>4, InPiece
      <4>3. Piece(PathTo[t], After(im, p), Height(p), Blocks)
            /\ Len(After(im, p)) = z + Len(im) - Height(p)
        BY <3>4, CutPiece
      <4> QED BY <4>1, <4>2, <4>3, <1>1, <2>1
    <3>5. CASE p \notin ToSet(im)
      <4>1. Older(im, p) = <<>>
        BY <3>3, <3>5, <2>3, <1>3 DEF Older, ImmutableSuffixAfter
      <4>2. Height(p) > Len(im)
        <5> SUFFICES ASSUME Height(p) <= Len(im) PROVE FALSE
          BY <1>1, <2>1
        <5>1. Height(p) \in z + 1 .. z + Len(im)
          BY <1>1, <2>1
        <5>2. PathTo[t][Height(p)] \in ToSet(im)
          BY <5>1, InPiece
        <5> QED BY <5>2, <2>1, <3>5
      <4> QED BY <4>1, <4>2, <1>1, <2>1
    <3> QED BY <3>4, <3>5
  <2> QED BY <2>2, <2>3
<1> QED BY <1>2, <1>3

(* Retaining every element. *)
LEMMA RetainAll ==
    ASSUME NEW s \in Seq(Blocks), NEW T, \A k \in 1 .. Len(s) : s[k] \in T
    PROVE  Retain(s, T) = s
<1>1. PICK j \in 0 .. Len(s) : j = 0
  OBVIOUS
<1>2. \A k \in 1 .. Len(s) : s[k] \in T <=> k > j
  BY <1>1
<1>3. /\ Retain(s, T) \in Seq(Blocks)
      /\ Len(Retain(s, T)) = Len(s) - j
      /\ \A k \in 1 .. Len(s) - j : Retain(s, T)[k] = s[j + k]
  BY <1>2, RetainSuffix
<1>4. Len(Retain(s, T)) = Len(s) /\ \A k \in 1 .. Len(s) : Retain(s, T)[k] = s[k]
  BY <1>1, <1>3
<1> QED BY <1>3, <1>4

(* get_block_range, of the stores as arguments. *)
Above(older, newer) == Retain(newer, {b \in Blocks : Slot[b] > SlotOf(TipOf(older))})

Skipped(older, newer, p) ==
    IF p \in ToSet(newer) THEN After(newer, p)
    ELSE IF older # <<>> /\ Above(older, newer) # <<>> THEN Above(older, newer) ELSE newer

RangeOf(im, vo, p, q) ==
    IF q \in ToSet(Older(im, p)) THEN UpTo(Older(im, p), q)
    ELSE IF q \in ToSet(vo) THEN Older(im, p) \o Skipped(Older(im, p), UpTo(vo, q), p) ELSE <<>>

(* Between stores that meet, the volatile part of a range is the whole of  *)
(* it when the range begins in the immutable store.                        *)
LEMMA SkipsNothing ==
    ASSUME NEW t \in Points, NEW a \in Nat, NEW o, NEW i \in Nat, NEW s,
           Piece(PathTo[t], o, a, Blocks), Len(o) = i - a, Piece(PathTo[t], s, i, Blocks),
           NEW p, p \notin ToSet(s)
    PROVE  Skipped(o, s, p) = s
<1>1. o \in Seq(Blocks) /\ s \in Seq(Blocks) /\ Len(o) \in Nat /\ Len(s) \in Nat /\ Height(t) \in Nat
      /\ i + Len(s) <= Height(t)
  BY Heights DEF Piece
<1>2. CASE o = <<>>
  BY <1>2 DEF Skipped
<1>3. CASE o # <<>>
  <2>1. Len(o) \in 1 .. Len(o) /\ a + Len(o) = i /\ i \in 1 .. Height(t)
    BY <1>1, <1>3
  <2>2. TipOf(o) = PathTo[t][i] /\ TipOf(o) # Origin
    <3>1. o[Len(o)] = PathTo[t][i]
      BY <2>1 DEF Piece
    <3>2. PathTo[t][i] \in Blocks
      BY <2>1, OnPath
    <3> QED BY <3>1, <3>2, <1>3, Heights DEF TipOf
  <2>3. \A k \in 1 .. Len(s) : s[k] \in {b \in Blocks : Slot[b] > SlotOf(TipOf(o))}
    <3> SUFFICES ASSUME NEW k \in 1 .. Len(s)
                 PROVE  s[k] \in Blocks /\ Slot[s[k]] > SlotOf(TipOf(o))
      OBVIOUS
    <3>1. s[k] = PathTo[t][i + k] /\ i + k \in 1 .. Height(t) /\ i < i + k
      BY <1>1 DEF Piece
    <3>2. Slot[PathTo[t][i]] < Slot[PathTo[t][i + k]] /\ Slot[PathTo[t][i]] \in Nat
          /\ Slot[PathTo[t][i + k]] \in Nat
      BY <2>1, <3>1, SlotsAscend
    <3>3. SlotOf(TipOf(o)) = Slot[PathTo[t][i]]
      BY <2>2 DEF SlotOf
    <3> QED BY <1>1, <3>1, <3>2, <3>3
  <2>4. Above(o, s) = s
    BY <2>3, <1>1, RetainAll DEF Above
  <2> QED BY <2>4 DEF Skipped
<1> QED BY <1>2, <1>3

(* A range that ends in a stored block is a piece of the chain. *)
LEMMA RangePiece ==
    ASSUME NEW t \in Points, NEW v, NEW w, NEW im, NEW vo, NEW wi,
           Stores(t, v, w, im, vo, wi), v = Len(im),
           NEW p \in Points, At(t, p), NEW q \in ToSet(im) \cup ToSet(vo), Height(p) < Height(q)
    PROVE  /\ Piece(PathTo[t], RangeOf(im, vo, p, q), Height(p), Blocks)
           /\ Len(RangeOf(im, vo, p, q)) = Height(q) - Height(p)
<1>1. v \in Nat /\ Height(t) \in Nat /\ Len(im) \in Nat /\ Len(vo) \in Nat
      /\ Height(p) \in Nat /\ PathTo[t] \in Seq(Blocks)
  BY StoreTypes, Heights
<1>2. PICK z \in Nat : z = 0
  OBVIOUS
<1>3. Piece(PathTo[t], im, z, Blocks) /\ Piece(PathTo[t], vo, v, Blocks) /\ v + Len(vo) = Height(t)
  BY <1>2 DEF Stores
<1>4. PICK h \in Nat : h = Height(p)
  BY <1>1
<1>5. PICK i \in Nat : i = Len(im) /\ i = v
  BY <1>1
<1> DEFINE o == Older(im, p)
<1>6. /\ h <= i => Piece(PathTo[t], o, h, Blocks) /\ Len(o) = i - h
      /\ h > i => o = <<>>
  <2>1. /\ Height(p) <= Len(im) => /\ Piece(PathTo[t], Older(im, p), Height(p), Blocks)
                                   /\ Len(Older(im, p)) = Len(im) - Height(p)
        /\ Height(p) > Len(im) => Older(im, p) = <<>>
    BY <1>2, <1>3, OlderPart
  <2> QED BY <2>1, <1>4, <1>5
<1> HIDE DEF o
<1>7. CASE q \in ToSet(im)
  <2>1. q \in Blocks /\ Height(q) \in z + 1 .. z + Len(im) /\ PathTo[t][Height(q)] = q
    BY <1>3, <1>7, InPiece
  <2>2. Height(q) \in Nat /\ h < Height(q) /\ Height(q) <= i /\ h <= i
    BY <2>1, <1>1, <1>2, <1>4, <1>5
  <2>3. Piece(PathTo[t], o, h, Blocks) /\ Len(o) = i - h
    BY <2>2, <1>6
  <2>4. q \in ToSet(o)
    <3>1. Height(q) \in h + 1 .. h + Len(o)
      BY <2>2, <2>3
    <3>2. PathTo[t][Height(q)] \in ToSet(o)
      BY <3>1, <2>3, InPiece
    <3> QED BY <3>2, <2>1
  <2>5. RangeOf(im, vo, p, q) = UpTo(o, q)
    BY <2>4 DEF RangeOf, o
  <2>6. Piece(PathTo[t], UpTo(o, q), h, Blocks) /\ Len(UpTo(o, q)) = Height(q) - h
    BY <2>3, <2>4, CutPiece
  <2> QED BY <2>5, <2>6, <1>4
<1>8. CASE q \notin ToSet(im)
  <2>1. q \in ToSet(vo)
    BY <1>8
  <2>2. q \in Blocks /\ Height(q) \in v + 1 .. v + Len(vo) /\ Height(q) <= Height(t)
    BY <2>1, <1>1, <1>3, InPiece
  <2>3. Height(q) \in Nat /\ h < Height(q) /\ i < Height(q)
    BY <2>2, <1>1, <1>4, <1>5
  <2>4. PICK s : s = UpTo(vo, q)
    OBVIOUS
  <2>5. Piece(PathTo[t], s, i, Blocks) /\ Len(s) = Height(q) - i
    <3>1. Piece(PathTo[t], UpTo(vo, q), v, Blocks) /\ Len(UpTo(vo, q)) = Height(q) - v
      BY <2>1, <1>1, <1>3, CutPiece
    <3> QED BY <3>1, <2>4, <1>5
  <2>6. q \notin ToSet(o)
    <3>1. CASE h <= i
      <4> SUFFICES ASSUME q \in ToSet(o) PROVE FALSE
        OBVIOUS
      <4>1. Piece(PathTo[t], o, h, Blocks) /\ Len(o) = i - h
        BY <3>1, <1>6
      <4>2. Height(q) \in h + 1 .. h + Len(o)
        BY <4>1, InPiece
      <4> QED BY <4>1, <4>2, <2>3
    <3>2. CASE h > i
      BY <3>2, <1>6 DEF ToSet
    <3> QED BY <3>1, <3>2
  <2>7. RangeOf(im, vo, p, q) = o \o Skipped(o, s, p)
    BY <2>1, <2>4, <2>6 DEF RangeOf, o
  <2>8. CASE h <= i
    <3>1. Piece(PathTo[t], o, h, Blocks) /\ Len(o) = i - h
      BY <2>8, <1>6
    <3>2. p \notin ToSet(s)
      <4> SUFFICES ASSUME p \in ToSet(s) PROVE FALSE
        OBVIOUS
      <4>1. Height(p) \in i + 1 .. i + Len(s)
        BY <2>5, InPiece
      <4> QED BY <4>1, <2>8, <1>4
    <3>3. Skipped(o, s, p) = s
      BY <3>1, <3>2, <2>5, SkipsNothing
    <3>4. PICK e : e = o \o s
      OBVIOUS
    <3>5. Piece(PathTo[t], o \o s, h, Blocks) /\ Len(o \o s) = Len(o) + Len(s)
      <4>1. h + Len(o) = i
        BY <3>1, <2>8
      <4>2. Piece(PathTo[t], s, h + Len(o), Blocks)
        BY <4>1, <2>5
      <4> QED BY <4>2, <3>1, <1>1, PieceJoins, SMTT(30)
    <3>6. (i - h) + (Height(q) - i) = Height(q) - h
      BY <2>3
    <3> QED BY <3>1, <3>3, <3>5, <3>6, <2>5, <2>7, <1>4
  <2>9. CASE h > i
    <3>1. o = <<>>
      BY <2>9, <1>6
    <3>2. p # Origin
      BY <2>9, <1>4, Heights
    <3>3. PathTo[t][h] = p
      BY <3>2, <1>4 DEF At
    <3>4. p \in ToSet(s)
      <4>1. h \in i + 1 .. i + Len(s)
        BY <2>3, <2>5, <2>9
      <4>2. PathTo[t][h] \in ToSet(s)
        BY <4>1, <2>5, InPiece
      <4> QED BY <4>2, <3>3
    <3>5. Piece(PathTo[t], After(s, p), Height(p), Blocks)
          /\ Len(After(s, p)) = i + Len(s) - Height(p)
      BY <3>4, <2>5, CutPiece
    <3>6. Skipped(o, s, p) = After(s, p)
      BY <3>4 DEF Skipped
    <3>7. After(s, p) \in Seq(Blocks)
      BY <3>5 DEF Piece
    <3>8. RangeOf(im, vo, p, q) = After(s, p)
      BY <3>1, <3>6, <3>7, <2>7
    <3>9. i + (Height(q) - i) - Height(p) = Height(q) - Height(p)
      BY <2>3, <1>1
    <3> QED BY <3>5, <3>8, <3>9, <2>5
  <2> QED BY <2>8, <2>9
<1> QED BY <1>7, <1>8

(* A stored block, and the points of its own chain. *)
LEMMA StoredAt ==
    ASSUME NEW t \in Points, NEW v, NEW w, NEW im, NEW vo, NEW wi,
           Stores(t, v, w, im, vo, wi), NEW q \in ToSet(im) \cup ToSet(vo)
    PROVE  q \in Blocks /\ At(t, q) /\ OnChain(q, t)
<1>1. v \in Nat /\ Height(t) \in Nat /\ Len(PathTo[t]) = Height(t) /\ PathTo[t] \in Seq(Blocks)
  BY StoreTypes
<1>2. PICK z \in Nat : z = 0
  OBVIOUS
<1>3. Piece(PathTo[t], im, z, Blocks) /\ Piece(PathTo[t], vo, v, Blocks)
  BY <1>2 DEF Stores
<1>4. q \in Blocks /\ Height(q) <= Height(t) /\ PathTo[t][Height(q)] = q
  BY <1>1, <1>3, InPiece
<1>5. Height(q) \in 1 .. Height(t)
  BY <1>1, <1>4, Heights
<1>6. q \in ToSet(PathTo[t])
  BY <1>1, <1>4, <1>5 DEF ToSet
<1> QED BY <1>4, <1>5, <1>6 DEF At, OnChain

(* The range between two points of a chain in stores that meet. *)
LEMMA RangesOfStores ==
    ASSUME NEW t \in Points, NEW v, NEW w, NEW im, NEW vo, NEW wi,
           Stores(t, v, w, im, vo, wi), ToSet(im) \cap ToSet(vo) = {},
           NEW q \in ToSet(im) \cup ToSet(vo), NEW p \in ToSet(PathTo[q]) \cup {Origin}, p # q
    PROVE  RangeOf(im, vo, p, q) = SubSeq(PathTo[q], Height(p) + 1, Height(q))
<1>1. v = Len(im)
  BY Disjoint
<1>2. q \in Blocks /\ At(t, q) /\ OnChain(q, t)
  BY StoredAt
<1>3. q \in Points /\ Height(q) \in Nat /\ PathTo[q] \in Seq(Blocks) /\ Len(PathTo[q]) = Height(q)
      /\ PathTo[q][Height(q)] = q /\ Height(q) > 0
  BY <1>2, Heights
<1>4. Height(q) <= Height(t) /\ Height(t) \in Nat /\ \A k \in 1 .. Height(q) : PathTo[q][k] = PathTo[t][k]
  BY <1>2, <1>3, PrefixOf, Heights
<1>5. p \in Points /\ At(t, p) /\ Height(p) < Height(q)
  <2>1. CASE p = Origin
    BY <2>1, <1>3, Heights DEF At
  <2>2. CASE p # Origin
    <3>1. PICK h \in 1 .. Len(PathTo[q]) : p = PathTo[q][h]
      BY <2>2, <1>3 DEF ToSet
    <3>2. p \in Blocks /\ Height(p) = h /\ h \in 1 .. Height(q)
      BY <3>1, <1>3, OnPath
    <3>3. h # Height(q)
      BY <3>1, <1>3
    <3>4. PathTo[t][h] = p /\ h \in 1 .. Height(t)
      BY <3>1, <3>2, <1>3, <1>4
    <3> QED BY <3>2, <3>3, <3>4, <1>3, Heights DEF At
  <2> QED BY <2>1, <2>2
<1>6. PICK h \in Nat, n \in Nat : h = Height(p) /\ n = Height(q)
  BY <1>3, <1>5, Heights
<1>7. Piece(PathTo[t], RangeOf(im, vo, p, q), h, Blocks) /\ Len(RangeOf(im, vo, p, q)) = n - h
  <2>1. Piece(PathTo[t], RangeOf(im, vo, p, q), Height(p), Blocks)
        /\ Len(RangeOf(im, vo, p, q)) = Height(q) - Height(p)
    BY <1>1, <1>5, RangePiece
  <2> QED BY <2>1, <1>6
<1>8. Piece(PathTo[q], SubSeq(PathTo[q], h + 1, n), h, Blocks)
      /\ Len(SubSeq(PathTo[q], h + 1, n)) = n - h
  <2>1. h <= n /\ n <= Len(PathTo[q])
    BY <1>3, <1>5, <1>6
  <2> QED BY <2>1, <1>3, PieceOfWhole
<1>9. Piece(PathTo[t], SubSeq(PathTo[q], h + 1, n), h, Blocks)
  BY <1>2, <1>3, <1>8, PieceGoesOn
<1>10. RangeOf(im, vo, p, q) = SubSeq(PathTo[q], h + 1, n)
  BY <1>7, <1>8, <1>9, SamePiece
<1> QED BY <1>6, <1>10

(***************************************************************************)
(* get_block_range returns exactly the blocks between two stored points of *)
(* one chain, wherever the boundary of the stores is: no gap and no repeat *)
(* at the slot comparison that joins the two parts.  The hypothesis is     *)
(* about the process: it is killed in a promotion at most once.            *)
(***************************************************************************)
THEOREM RangesAreExact ==
    ASSUME MaxKills <= 1
    PROVE  Spec => []RangeIsExact
<1>1. StoreInv => RangeIsExact
  <2> SUFFICES ASSUME StoreInv, ToSet(imm) \cap ToSet(vol) = {},
                      NEW q \in Stored, NEW p \in ToSet(PathTo[q]) \cup {Origin},
                      p \in (Stored \cup {Origin}) \ {q}
               PROVE  BlockRange(p, q) = SubSeq(PathTo[q], Height(p) + 1, Height(q))
    BY Zenon DEF RangeIsExact
  <2>1. PICK t \in Points, v \in Nat, w \in Nat : Stores(t, v, w, imm, vol, window)
    BY DEF StoreInv, ChainInv
  <2>2. q \in ToSet(imm) \cup ToSet(vol) /\ p # q
    BY DEF Stored
  <2>3. RangeOf(imm, vol, p, q) = SubSeq(PathTo[q], Height(p) + 1, Height(q))
    BY <2>1, <2>2, RangesOfStores
  <2>4. BlockRange(p, q) = RangeOf(imm, vol, p, q)
    BY Zenon DEF BlockRange, RangeOf, Older, Skipped, Above
  <2> QED BY <2>3, <2>4
<1>2. StoreInv /\ [Next]_vars => StoreInv'
  BY StoreNext
<1> QED BY <1>1, <1>2, StoreInit, PTL DEF Spec

-----------------------------------------------------------------------------
(* find_next_block, of the stores as arguments, from Origin or an          *)
(* immutable block: the first block of the immutable rest, or else of the  *)
(* volatile store.                                                         *)
LEMMA NextOfStores ==
    ASSUME NEW t \in Points, NEW v, NEW w, NEW im, NEW vo, NEW wi,
           Stores(t, v, w, im, vo, wi),
           NEW p \in {Origin} \cup ToSet(im),
           p = TipOf(im) => ToSet(im) \cap ToSet(vo) = {},
           NEW b \in FirstOf(Older(im, p) \o vo)
    PROVE  Parent[b] = p
<1>1. v \in Nat /\ Height(t) \in Nat /\ Len(im) \in Nat /\ Len(vo) \in Nat
      /\ im \in Seq(Blocks) /\ vo \in Seq(Blocks) /\ v <= Len(im)
  BY StoreTypes
<1>2. PICK z \in Nat : z = 0
  OBVIOUS
<1>3. Piece(PathTo[t], im, z, Blocks) /\ Piece(PathTo[t], vo, v, Blocks) /\ v + Len(vo) = Height(t)
  BY <1>2 DEF Stores
<1>4. At(t, p) /\ p \in Points /\ Height(p) \in Nat /\ Height(p) <= Len(im)
  <2>1. CASE p = Origin
    BY <2>1, <1>1, Heights DEF At
  <2>2. CASE p # Origin
    <3>1. p \in ToSet(im)
      BY <2>2
    <3>2. p \in Blocks /\ At(t, p)
      BY <3>1, StoredAt
    <3>3. Height(p) \in z + 1 .. z + Len(im)
      BY <3>1, <1>3, InPiece
    <3> QED BY <3>2, <3>3, <1>1, <1>2, Heights
  <2> QED BY <2>1, <2>2
<1>5. PICK h \in Nat, i \in Nat : h = Height(p) /\ i = Len(im) /\ h <= i
  BY <1>1, <1>4
<1>6. PICK o : o = Older(im, p)
  OBVIOUS
<1>7. Piece(PathTo[t], o, h, Blocks) /\ Len(o) = i - h /\ o \in Seq(Blocks)
  <2>1. Piece(PathTo[t], Older(im, p), Height(p), Blocks) /\ Len(Older(im, p)) = Len(im) - Height(p)
    BY <1>2, <1>3, <1>4, OlderPart
  <2>2. Piece(PathTo[t], o, h, Blocks) /\ Len(o) = i - h
    BY <2>1, <1>5, <1>6
  <2> QED BY <2>2 DEF Piece
<1>8. o \o vo # <<>> /\ b = (o \o vo)[1]
  BY <1>6 DEF FirstOf
(* Either way it is the block after p on the chain. *)
<1>9. h + 1 \in 1 .. Height(t) /\ b = PathTo[t][h + 1]
  <2>1. CASE h < i
    <3>1. 1 \in 1 .. Len(o) /\ h + Len(o) <= Height(t)
      BY <2>1, <1>7, Heights DEF Piece
    <3>2. (o \o vo)[1] = o[1]
      BY <3>1, <1>1, <1>7
    <3>3. o[1] = PathTo[t][h + 1]
      BY <3>1, <1>7 DEF Piece
    <3> QED BY <3>1, <3>2, <3>3, <1>1, <1>7, <1>8
  <2>2. CASE h = i
    <3>1. o = <<>>
      BY <2>2, <1>7
    <3>2. p = TipOf(im)
      <4>1. CASE p = Origin
        <5>1. Len(im) = 0
          BY <4>1, <2>2, <1>5, Heights
        <5> QED BY <4>1, <5>1, <1>1 DEF TipOf
      <4>2. CASE p # Origin
        <5>1. PathTo[t][h] = p /\ p \in Blocks
          BY <4>2, <1>4, <1>5 DEF At
        <5>2. h > 0
          BY <5>1, <1>5, Heights
        <5>3. i \in 1 .. Len(im) /\ i = Len(im) /\ z + i = h
          <6>1. i = Len(im) /\ h = i
            BY <2>2, <1>5
          <6>2. i \in 1 .. i /\ z + i = i
            BY <6>1, <5>2, <1>2
          <6> QED BY <6>1, <6>2
        <5>4. im[i] = PathTo[t][z + i]
          BY <5>3, <1>3 DEF Piece
        <5>5. im[Len(im)] = p /\ im # <<>>
          BY <5>1, <5>3, <5>4, <1>1
        <5> QED BY <5>5 DEF TipOf
      <4> QED BY <4>1, <4>2
    <3>3. v = Len(im)
      BY <3>2, Disjoint
    <3>4. vo # <<>> /\ b = vo[1]
      BY <3>1, <1>1, <1>8
    <3>5. 1 \in 1 .. Len(vo)
      BY <3>4, <1>1
    <3>6. vo[1] = PathTo[t][v + 1]
      BY <3>5, <1>3 DEF Piece
    <3>7. v = h /\ h + 1 \in 1 .. Height(t)
      <4>1. v = h /\ h \in Nat
        BY <3>3, <2>2, <1>5
      <4>2. Len(vo) >= 1 /\ v + Len(vo) = Height(t) /\ Height(t) \in Nat /\ Len(vo) \in Nat
        BY <3>5, <1>1, <1>3
      <4> QED BY <4>1, <4>2
    <3> QED BY <3>4, <3>6, <3>7
  <2> QED BY <2>1, <2>2, <1>5
<1>10. PICK k \in 1 .. Height(t) : k = h + 1 /\ b = PathTo[t][k]
  BY <1>9
<1>11. Parent[b] = IF k = 1 THEN Origin ELSE PathTo[t][k - 1]
  BY <1>10, OnPath
<1>12. CASE p = Origin
  BY <1>5, <1>10, <1>11, <1>12, Heights
<1>13. CASE p # Origin
  <2>1. PathTo[t][h] = p /\ h > 0
    BY <1>4, <1>5, <1>13, Heights DEF At
  <2>2. k # 1 /\ k - 1 = h
    BY <2>1, <1>10
  <2> QED BY <2>1, <2>2, <1>11
<1> QED BY <1>12, <1>13

(* What find_next_block is for such a point. *)
LEMMA FindNext ==
    ASSUME NEW p \in {Origin} \cup ToSet(imm), imm \in Seq(Blocks)
    PROVE  FindNextBlock(p) = FirstOf(Older(imm, p) \o vol)
<1>1. CASE p = Origin
  BY <1>1, Zenon DEF FindNextBlock, Older, SuffixFound, ImmutableSuffixAfter
<1>2. CASE p # Origin
  <2>1. SuffixFound(imm, p)
    BY <1>2 DEF SuffixFound
  <2> QED BY <2>1, <1>2, Zenon DEF FindNextBlock, Older
<1> QED BY <1>1, <1>2

(* What ImmutableServedInOrder says of a step. *)
InOrder ==
    /\ phase # "client" /\ phase' = "client" /\ sent'.kind = "forward"
    /\ ~servedTentative'
    /\ cursor \in {Origin} \cup ToSet(imm)
    /\ cursor = TipOf(imm) => ToSet(imm) \cap ToSet(vol) = {}
    => Parent[cursor'] = cursor

(* Only ServeNextHeader sends a confirmed header. *)
LEMMA OnlyServeNext ==
    ASSUME [Next]_vars, phase # "client", phase' = "client", sent'.kind = "forward", ~servedTentative'
    PROVE  ServeNextHeader
<1>1. ~UNCHANGED phase
  OBVIOUS
<1>2. ~RollBackToTip
  BY DEF RollBackToTip
<1>3. ~KillInPromotion
  BY DEF KillInPromotion
<1>4. ~ServeTentative
  BY DEF ServeTentative, RollForward, GoTo
<1>5. ~Notify
  BY DEF Notify
<1>6. ~Reconcile /\ ~ReconcileTentative /\ ~AwaitReply
  BY DEF Reconcile, ReconcileTentative, AwaitReply, GoTo
<1>7. ~RecvRequestNext
  BY DEF RecvRequestNext
<1>8. ASSUME NEW p, BeginFetch(p) \/ ApplyRollback(p) \/ RecvFindIntersect(p) PROVE FALSE
  BY <1>1, <1>8 DEF BeginFetch, ApplyRollback, RecvFindIntersect, server
<1>9. ~FetchFails /\ ~FetchEnds /\ ~ApplyBatch
  BY <1>1 DEF FetchFails, FetchEnds, ApplyBatch, server
<1>10. ~UNCHANGED vars
  BY <1>1 DEF vars, server
<1> QED BY <1>2, <1>3, <1>4, <1>5, <1>6, <1>7, <1>8, <1>9, <1>10 DEF Next, ServerStep

(***************************************************************************)
(* A client that reads the immutable part of the chain is sent every block *)
(* of it in order, and then the first volatile one, whatever batches,      *)
(* promotions and rollbacks the sync service applies between two requests. *)
(* The process is killed in a promotion at most once.                      *)
(***************************************************************************)
THEOREM ServedInOrder ==
    ASSUME MaxKills <= 1
    PROVE  Spec => ImmutableServedInOrder
<1>1. StoreInv /\ [Next]_vars => InOrder
  <2> SUFFICES ASSUME StoreInv, [Next]_vars,
                      phase # "client", phase' = "client", sent'.kind = "forward", ~servedTentative',
                      cursor \in {Origin} \cup ToSet(imm),
                      cursor = TipOf(imm) => ToSet(imm) \cap ToSet(vol) = {}
               PROVE  Parent[cursor'] = cursor
    BY DEF InOrder
  <2>1. ServeNextHeader
    BY OnlyServeNext
  <2>2. PICK b \in NextHeader(cursor) : RollForward(b, FALSE)
    BY <2>1 DEF ServeNextHeader, GoTo
  <2>3. cursor' = b /\ b \in FindNextBlock(cursor)
    BY <2>2 DEF RollForward, NextHeader
  <2>4. PICK t \in Points, v \in Nat, w \in Nat : Stores(t, v, w, imm, vol, window)
    BY DEF StoreInv, ChainInv
  <2>5. imm \in Seq(Blocks)
    BY <2>4, StoreTypes
  <2>6. b \in FirstOf(Older(imm, cursor) \o vol)
    BY <2>3, <2>5, FindNext
  <2>7. Parent[b] = cursor
    BY <2>4, <2>6, NextOfStores
  <2> QED BY <2>3, <2>7
<1>2. StoreInv /\ [Next]_vars => StoreInv'
  BY StoreNext
<1>3. ImmutableServedInOrder <=> [][InOrder]_vars
  BY DEF ImmutableServedInOrder, InOrder
<1> QED BY <1>1, <1>2, <1>3, StoreInit, PTL DEF Spec
=============================================================================
