------------------------- MODULE ConnectionsProofs -------------------------
(***************************************************************************)
(* Proofs about Connections.  What each operation of the connection        *)
(* manager does to the state of each peer comes first; the invariants      *)
(* follow from it, action by action.                                       *)
(***************************************************************************)
EXTENDS Connections, InductionLemmas

(* The connection manager has one entry for each peer it knows. *)
ConnMap(c) == DOMAIN c \subseteq Peers /\ c \in [DOMAIN c -> Entries]

-----------------------------------------------------------------------------
(* What the operations of the connection manager do to the state of each   *)
(* peer.                                                                   *)

LEMMA StateKnown ==
    ASSUME NEW c, ConnMap(c), NEW p
    PROVE  /\ AbstractStateOf(c, p) \in States \cup {"unknown"}
           /\ AbstractStateOf(c, p) # "unknown" <=> p \in DOMAIN c
BY DEF ConnMap, AbstractStateOf, Entries, States

(* An entry changes its state. *)
LEMMA MoveState ==
    ASSUME NEW c, ConnMap(c), NEW p \in DOMAIN c, NEW st \in States
    PROVE  /\ ConnMap(Move(c, p, st))
           /\ DOMAIN Move(c, p, st) = DOMAIN c
           /\ \A q : AbstractStateOf(Move(c, p, st), q) =
                        IF q = p THEN st ELSE AbstractStateOf(c, q)
<1> DEFINE dl == CASE st = "outDupT"     -> "responder"
                   [] st = "terminating" -> "timeWait"
                   [] OTHER              -> "none"
           d == [c EXCEPT ![p].st = st, ![p].deadline = dl]
<1>1. d = Move(c, p, st)
  BY DEF Move
<1>2. dl \in Deadlines
  BY DEF Deadlines
<1> HIDE DEF dl
<1>3. /\ d \in [DOMAIN c -> Entries]
      /\ d[p].st = st
      /\ \A q \in DOMAIN c : q # p => d[q] = c[q]
  BY <1>2 DEF ConnMap, Entries
<1> HIDE DEF d
<1> QED
  BY <1>1, <1>3 DEF ConnMap, AbstractStateOf

(* An entry is made or replaced. *)
LEMMA NewEntryState ==
    ASSUME NEW c, ConnMap(c), NEW p \in Peers, NEW st \in States
    PROVE  /\ ConnMap(NewEntry(c, p, st))
           /\ \A q : AbstractStateOf(NewEntry(c, p, st), q) =
                        IF q = p THEN st ELSE AbstractStateOf(c, q)
<1> DEFINE others == DOMAIN c \ {p}
           rank(q) == Cardinality({o \in others : c[o].age <= c[q].age})
           d == NewEntry(c, p, st)
<1>1. \A S \in SUBSET Peers : /\ IsFiniteSet(S)
                              /\ Cardinality(S) \in Nat
                              /\ Cardinality(S) <= Cardinality(Peers)
  BY CMAssumption, FS_Subset, FS_CardinalityType
<1>2. Cardinality(others) + 1 \in 1 .. Cardinality(Peers)
  <2>1. Cardinality(Peers \ {p}) = Cardinality(Peers) - 1
    BY CMAssumption, FS_RemoveElement
  <2>2. others \subseteq Peers \ {p} /\ IsFiniteSet(Peers \ {p})
    BY <1>1 DEF ConnMap
  <2>3. Cardinality(others) <= Cardinality(Peers \ {p})
    BY <2>2, FS_Subset
  <2>4. Cardinality(others) \in Nat /\ Cardinality(Peers) \in Nat
    BY <1>1 DEF ConnMap
  <2> QED BY <2>1, <2>3, <2>4
<1>3. ASSUME NEW q \in others PROVE rank(q) \in 1 .. Cardinality(Peers)
  <2> DEFINE older == {o \in others : c[o].age <= c[q].age}
  <2>1. c[q].age \in Int
    BY DEF ConnMap, Entries
  <2>2. q \in older /\ older \in SUBSET Peers
    BY <2>1 DEF ConnMap
  <2>3. Cardinality(older) # 0
    BY <2>2, <1>1, FS_EmptySet
  <2> HIDE DEF older
  <2>4. Cardinality(older) \in 1 .. Cardinality(Peers)
    BY <2>2, <2>3, <1>1
  <2> QED BY <2>4 DEF older
<1>4. DOMAIN d = others \cup {p}
  BY DEF NewEntry
<1>5. d[p] = [age |-> Cardinality(others) + 1, st |-> st, deadline |-> "none"]
  BY DEF NewEntry
<1>6. \A q \in others : d[q] = [c[q] EXCEPT !.age = rank(q)]
  BY DEF NewEntry
<1>7. d \in [DOMAIN d -> Entries]
  <2>1. d = [q \in DOMAIN d |-> d[q]]
    BY <1>4 DEF NewEntry
  <2>2. d[p] \in Entries
    BY <1>2, <1>5 DEF Entries, Deadlines
  <2>3. ASSUME NEW q \in others PROVE d[q] \in Entries
    <3> HIDE DEF rank
    <3> QED BY <1>3, <1>6 DEF ConnMap, Entries
  <2> HIDE DEF d
  <2> QED BY <2>1, <2>2, <2>3, <1>4
<1>8. \A q \in others : d[q].st = c[q].st
  <2> HIDE DEF rank, d
  <2> QED BY <1>6 DEF ConnMap, Entries
<1> HIDE DEF rank, d
<1>9. \A q : AbstractStateOf(d, q) = IF q = p THEN st ELSE AbstractStateOf(c, q)
  BY <1>4, <1>5, <1>8 DEF AbstractStateOf
<1>10. ConnMap(d)
  BY <1>4, <1>7 DEF ConnMap
<1> QED
  BY <1>9, <1>10 DEF d

(* Entries are removed. *)
LEMMA DropState ==
    ASSUME NEW c, ConnMap(c), NEW S
    PROVE  LET d == Restrict(c, DOMAIN c \ S)
           IN  /\ ConnMap(d)
               /\ \A q : AbstractStateOf(d, q) =
                        IF q \in S THEN "unknown" ELSE AbstractStateOf(c, q)
BY DEF ConnMap, Restrict, AbstractStateOf

(* Pruning chooses idle inbound connections only. *)
LEMMA PruneNamesIdle ==
    ASSUME NEW c, ConnMap(c)
    PROVE  \A q \in MaybePrune(c) : q \in Peers /\ AbstractStateOf(c, q) \in InIdle
BY DEF MaybePrune, Newest, IdlePeers, ConnMap, AbstractStateOf

(* What making room for an inbound connection does to the others. *)
LEMMA PruneForInboundState ==
    ASSUME NEW c, ConnMap(c)
    PROVE  LET d == PruneForInbound(c)
           IN  /\ ConnMap(d)
               /\ \A q : \/ AbstractStateOf(d, q) = AbstractStateOf(c, q)
                         \/ AbstractStateOf(c, q) = "terminated" /\ AbstractStateOf(d, q) = "unknown"
                         \/ AbstractStateOf(c, q) \in InIdle /\ AbstractStateOf(d, q) = "terminating"
<1> DEFINE done == {p \in DOMAIN c : c[p].st = "terminated"}
           pick == Newest(c, IF done # {} THEN done ELSE IdlePeers(c), 1)
           d == [p \in DOMAIN c |-> IF p \in pick THEN Move(c, p, "terminating")[p] ELSE c[p]]
<1>1. PruneForInbound(c) = IF done # {} THEN Restrict(c, DOMAIN c \ pick) ELSE d
  BY DEF PruneForInbound
<1>2. CASE done # {}
  <2>1. pick \subseteq done
    BY <1>2 DEF Newest
  <2>2. PruneForInbound(c) = Restrict(c, DOMAIN c \ pick)
    BY <1>1, <1>2
  <2>3. \A q \in pick : AbstractStateOf(c, q) = "terminated"
    BY <2>1 DEF AbstractStateOf
  <2> HIDE DEF pick, done
  <2> QED BY <2>2, <2>3, DropState
<1>3. CASE done = {}
  <2>1. \A q \in pick : AbstractStateOf(c, q) \in InIdle /\ q \in DOMAIN c
    BY <1>3 DEF Newest, IdlePeers, AbstractStateOf
  <2> HIDE DEF pick, done
  <2>2. ASSUME NEW q \in DOMAIN c
        PROVE  /\ Move(c, q, "terminating")[q] \in Entries
               /\ Move(c, q, "terminating")[q].st = "terminating"
    <3>1. /\ ConnMap(Move(c, q, "terminating"))
          /\ DOMAIN Move(c, q, "terminating") = DOMAIN c
          /\ AbstractStateOf(Move(c, q, "terminating"), q) = "terminating"
      BY MoveState DEF States
    <3> QED BY <3>1 DEF ConnMap, AbstractStateOf
  <2>3. ConnMap(d)
    BY <2>2 DEF ConnMap
  <2>4. \A q : AbstractStateOf(d, q) =
                IF q \in pick THEN "terminating" ELSE AbstractStateOf(c, q)
    BY <2>2, <2>1 DEF AbstractStateOf
  <2> HIDE DEF d
  <2> QED BY <1>1, <1>3, <2>3, <2>4, <2>1
<1> QED
  BY <1>2, <1>3

(* acquire_outbound_connection. *)
LEMMA AcquireOutboundState ==
    ASSUME NEW c, ConnMap(c), NEW p \in Peers
    PROVE  LET st == AbstractStateOf(c, p)
               r == AcquireOutbound(c, p)
           IN  /\ ConnMap(r.conns)
               /\ \A q : q # p => AbstractStateOf(r.conns, q) = AbstractStateOf(c, q)
               /\ AbstractStateOf(r.conns, p) =
                    CASE st = "unknown" -> "reserved"
                      [] st = "unnegIn" -> "unnegOut"
                      [] st = "inIdleDup" -> "outDupT"
                      [] st = "inDup" -> "duplex"
                      [] OTHER -> st
               /\ r.res = "dial" <=> st \in {"unknown", "unnegIn"}
               /\ \A q \in r.prune : q \in Peers /\ AbstractStateOf(r.conns, q) \in InIdle
<1> DEFINE st == AbstractStateOf(c, p)
           r == AcquireOutbound(c, p)
           to == [unnegIn |-> "unnegOut", inIdleDup |-> "outDupT", inDup |-> "duplex"]
           d == Move(c, p, to[st])
<1>1. CASE st = "unknown"
  <2>1. r = [conns |-> NewEntry(c, p, "reserved"), res |-> "dial", prune |-> {}]
    BY <1>1 DEF AcquireOutbound
  <2>2. "reserved" \in States
    BY DEF States
  <2> QED BY <1>1, <2>1, <2>2, NewEntryState
<1>2. CASE st \in DOMAIN to
  <2>1. r = [conns |-> d,
             res   |-> IF st = "unnegIn" THEN "dial" ELSE "reused",
             prune |-> IF st = "inDup" THEN MaybePrune(d) ELSE {}]
    BY <1>2 DEF AcquireOutbound
  <2>2. to[st] \in States /\ p \in DOMAIN c
    BY <1>2, StateKnown DEF States
  <2>3. ConnMap(d) /\ \A q : AbstractStateOf(d, q) =
                                IF q = p THEN to[st] ELSE AbstractStateOf(c, q)
    <3> HIDE DEF to, st
    <3> QED BY <2>2, MoveState
  <2>4. \A q \in MaybePrune(d) : q \in Peers /\ AbstractStateOf(d, q) \in InIdle
    BY <2>3, PruneNamesIdle
  <2>5. to[st] = CASE st = "unnegIn" -> "unnegOut"
                   [] st = "inIdleDup" -> "outDupT"
                   [] st = "inDup" -> "duplex"
                   [] OTHER -> st
    BY <1>2
  <2> HIDE DEF d
  <2> QED BY <1>2, <2>1, <2>3, <2>4, <2>5
<1>3. CASE st \notin DOMAIN to /\ st # "unknown"
  <2>1. r.conns = c /\ r.prune = {} /\ r.res # "dial"
    BY <1>3 DEF AcquireOutbound
  <2> QED BY <1>3, <2>1
<1> QED
  BY <1>1, <1>2, <1>3

(* outbound_handshake_done. *)
LEMMA OutboundHandshakeState ==
    ASSUME NEW c, ConnMap(c), NEW p, NEW df
    PROVE  LET d == OutboundHandshakeDone(c, p, df)
           IN  /\ ConnMap(d)
               /\ \A q : q # p => AbstractStateOf(d, q) = AbstractStateOf(c, q)
               /\ AbstractStateOf(d, p) =
                    IF OutboundHandshakeOk(c, p)
                    THEN IF df = "Uni" THEN "outUni" ELSE "outDupT"
                    ELSE AbstractStateOf(c, p)
<1>1. OutboundHandshakeOk(c, p) => p \in DOMAIN c
  BY StateKnown DEF OutboundHandshakeOk
<1>2. (IF df = "Uni" THEN "outUni" ELSE "outDupT") \in States
  BY DEF States
<1> QED
  BY <1>1, <1>2, MoveState DEF OutboundHandshakeDone

(* outbound_connect_failed. *)
LEMMA OutboundFailedState ==
    ASSUME NEW c, ConnMap(c), NEW p
    PROVE  LET d == OutboundConnectFailed(c, p)
           IN  /\ ConnMap(d)
               /\ \A q : q # p => AbstractStateOf(d, q) = AbstractStateOf(c, q)
               /\ AbstractStateOf(d, p) =
                    IF OutboundHandshakeOk(c, p) THEN "terminated" ELSE AbstractStateOf(c, p)
<1>1. OutboundHandshakeOk(c, p) => p \in DOMAIN c
  BY StateKnown DEF OutboundHandshakeOk
<1>2. "terminated" \in States
  BY DEF States
<1> QED
  BY <1>1, <1>2, MoveState DEF OutboundConnectFailed

(* release_outbound_connection. *)
LEMMA ReleaseOutboundState ==
    ASSUME NEW c, ConnMap(c), NEW p
    PROVE  LET st == AbstractStateOf(c, p)
               r == ReleaseOutbound(c, p)
           IN  /\ ConnMap(r.conns)
               /\ \A q : q # p => AbstractStateOf(r.conns, q) = AbstractStateOf(c, q)
               /\ AbstractStateOf(r.conns, p) =
                    CASE st = "outUni" -> "outIdleUni"
                      [] st = "outDupE" -> "outIdleDup"
                      [] st = "outDupT" -> "inIdleDup"
                      [] st = "duplex" -> "inDup"
                      [] OTHER -> st
               /\ r.terminate \in BOOLEAN
               /\ r.terminate => st \in {"outUni", "outDupE"}
               /\ \A q \in r.prune : q \in Peers /\ AbstractStateOf(r.conns, q) \in InIdle
<1> DEFINE st == AbstractStateOf(c, p)
           r == ReleaseOutbound(c, p)
           to == [outUni  |-> "outIdleUni", outDupE |-> "outIdleDup",
                  outDupT |-> "inIdleDup",  duplex  |-> "inDup"]
           d == Move(c, p, to[st])
<1>1. CASE st \in DOMAIN to
  <2>1. /\ r.conns = d /\ r.terminate = (st \in {"outUni", "outDupE"})
        /\ r.prune = IF st = "outDupT" THEN MaybePrune(d) ELSE {}
    BY <1>1 DEF ReleaseOutbound
  <2>2. to[st] \in States /\ p \in DOMAIN c
    BY <1>1, StateKnown DEF States
  <2>3. ConnMap(d) /\ \A q : AbstractStateOf(d, q) =
                                IF q = p THEN to[st] ELSE AbstractStateOf(c, q)
    <3> HIDE DEF to, st
    <3> QED BY <2>2, MoveState
  <2>4. \A q \in MaybePrune(d) : q \in Peers /\ AbstractStateOf(d, q) \in InIdle
    BY <2>3, PruneNamesIdle
  <2>5. to[st] = CASE st = "outUni" -> "outIdleUni"
                   [] st = "outDupE" -> "outIdleDup"
                   [] st = "outDupT" -> "inIdleDup"
                   [] st = "duplex" -> "inDup"
                   [] OTHER -> st
    BY <1>1
  <2>6. r.terminate \in BOOLEAN /\ (r.terminate => st \in {"outUni", "outDupE"})
    <3> DEFINE u == st \in {"outUni", "outDupE"}
    <3>1. r.terminate = u /\ u \in BOOLEAN
      BY <2>1
    <3> HIDE DEF u
    <3>2. r.terminate \in BOOLEAN /\ (r.terminate => u)
      BY <3>1
    <3> QED BY <3>2 DEF u
  <2>7. r.conns = d /\ r.prune = IF st = "outDupT" THEN MaybePrune(d) ELSE {}
    BY <2>1
  <2> HIDE DEF d
  <2> QED BY <2>3, <2>4, <2>5, <2>6, <2>7
<1>2. CASE st \notin DOMAIN to
  <2>1. r.conns = c /\ r.prune = {} /\ r.terminate = FALSE
    BY <1>2 DEF ReleaseOutbound
  <2>2. st \notin {"outUni", "outDupE", "outDupT", "duplex"}
    BY <1>2
  <2> QED BY <2>1, <2>2
<1> QED
  BY <1>1, <1>2

(* include_inbound_connection. *)
LEMMA IncludeInboundState ==
    ASSUME NEW c, ConnMap(c), NEW p \in Peers
    PROVE  LET r == IncludeInbound(c, p)
               kept(q) == \/ AbstractStateOf(r.conns, q) = AbstractStateOf(c, q)
                          \/ /\ AbstractStateOf(c, q) = "terminated"
                             /\ AbstractStateOf(r.conns, q) = "unknown"
                          \/ /\ AbstractStateOf(c, q) \in InIdle
                             /\ AbstractStateOf(r.conns, q) = "terminating"
           IN  /\ ConnMap(r.conns)
               /\ r.ok \in BOOLEAN
               /\ \A q : q # p \/ ~r.ok => kept(q)
               /\ r.ok => /\ AbstractStateOf(r.conns, p) = "unnegIn"
                          /\ AbstractStateOf(c, p) \in
                                {"unknown", "reserved", "unnegIn", "unnegOut", "terminating",
                                 "terminated"} \cup InIdle
<1> DEFINE full == InboundConnectionCount(c) >= HardLimit
           d    == IF full THEN PruneForInbound(c) ELSE c
           room == InboundConnectionCount(d) < HardLimit
           ok   == room /\ AbstractStateOf(d, p) \in
                    {"unknown", "reserved", "unnegIn", "unnegOut", "terminating", "terminated"}
           r    == IncludeInbound(c, p)
<1>1. r = [conns |-> IF ok THEN NewEntry(d, p, "unnegIn") ELSE d, ok |-> ok]
  BY DEF IncludeInbound
<1> HIDE DEF full
<1>2. /\ ConnMap(d)
      /\ \A q : \/ AbstractStateOf(d, q) = AbstractStateOf(c, q)
                \/ AbstractStateOf(c, q) = "terminated" /\ AbstractStateOf(d, q) = "unknown"
                \/ AbstractStateOf(c, q) \in InIdle /\ AbstractStateOf(d, q) = "terminating"
  BY PruneForInboundState
<1> HIDE DEF d, room
<1>3. CASE ok
  <2>1. "unnegIn" \in States
    BY DEF States
  <2>2. /\ ConnMap(NewEntry(d, p, "unnegIn"))
        /\ \A q : AbstractStateOf(NewEntry(d, p, "unnegIn"), q) =
                        IF q = p THEN "unnegIn" ELSE AbstractStateOf(d, q)
    BY <1>2, <2>1, NewEntryState
  <2>3. r.ok = TRUE /\ r.conns = NewEntry(d, p, "unnegIn")
    <3>1. ok = TRUE
      BY <1>3
    <3> HIDE DEF ok
    <3> QED BY <1>1, <3>1
  <2> QED BY <1>2, <1>3, <2>2, <2>3
<1>4. CASE ~ok
  <2>1. r.ok = FALSE /\ r.conns = d
    <3>1. ok = FALSE
      BY <1>4
    <3> HIDE DEF ok
    <3> QED BY <1>1, <3>1
  <2> QED BY <1>2, <1>4, <2>1
<1> QED
  BY <1>3, <1>4

(* inbound_handshake_done. *)
LEMMA InboundHandshakeState ==
    ASSUME NEW c, ConnMap(c), NEW p, NEW df
    PROVE  LET d == InboundHandshakeDone(c, p, df)
           IN  /\ ConnMap(d)
               /\ \A q : q # p => AbstractStateOf(d, q) = AbstractStateOf(c, q)
               /\ AbstractStateOf(d, p) =
                    IF AbstractStateOf(c, p) = "unnegIn"
                    THEN IF df = "Uni" THEN "inIdleUni" ELSE "inIdleDup"
                    ELSE AbstractStateOf(c, p)
<1>1. AbstractStateOf(c, p) = "unnegIn" => p \in DOMAIN c
  BY StateKnown
<1>2. (IF df = "Uni" THEN "inIdleUni" ELSE "inIdleDup") \in States
  BY DEF States
<1> QED
  BY <1>1, <1>2, MoveState DEF InboundHandshakeDone

(* release_inbound_connection. *)
LEMMA ReleaseInboundState ==
    ASSUME NEW c, ConnMap(c), NEW p
    PROVE  LET st == AbstractStateOf(c, p)
               r == ReleaseInbound(c, p)
           IN  /\ ConnMap(r.conns)
               /\ \A q : q # p => AbstractStateOf(r.conns, q) = AbstractStateOf(c, q)
               /\ AbstractStateOf(r.conns, p) =
                    CASE st \in InIdle \cup {"outIdleUni", "outIdleDup"} -> "terminating"
                      [] st \in {"outDupT", "outDupE"} -> "outDupE"
                      [] st = "duplex" -> "outDupT"
                      [] OTHER -> st
               /\ r.res \in {"commit", "keep", "unsupported"}
               /\ r.terminate \in BOOLEAN
<1> DEFINE st == AbstractStateOf(c, p)
           r == ReleaseInbound(c, p)
           gone == InIdle \cup {"outIdleUni", "outIdleDup"}
           keep == [outDupT |-> "outDupE", outDupE |-> "outDupE", duplex |-> "outDupT"]
<1>1. CASE st \in gone
  <2>1. r = [conns |-> Move(c, p, "terminating"), res |-> "commit", terminate |-> TRUE]
    BY <1>1 DEF ReleaseInbound, InIdle
  <2>2. p \in DOMAIN c /\ "terminating" \in States
    BY <1>1, StateKnown DEF InIdle, States
  <2>3. /\ ConnMap(Move(c, p, "terminating"))
        /\ \A q : AbstractStateOf(Move(c, p, "terminating"), q) =
                                IF q = p THEN "terminating" ELSE AbstractStateOf(c, q)
    BY <2>2, MoveState
  <2> QED BY <1>1, <2>1, <2>3 DEF InIdle
<1>2. CASE st \in DOMAIN keep
  <2>1. r = [conns |-> Move(c, p, keep[st]), res |-> "keep", terminate |-> FALSE]
    BY <1>2 DEF ReleaseInbound, InIdle
  <2>2. p \in DOMAIN c /\ keep[st] \in States
    BY <1>2, StateKnown DEF States
  <2>3. /\ ConnMap(Move(c, p, keep[st]))
        /\ \A q : AbstractStateOf(Move(c, p, keep[st]), q) =
                                IF q = p THEN keep[st] ELSE AbstractStateOf(c, q)
    <3> HIDE DEF keep, st
    <3> QED BY <2>2, MoveState
  <2> QED BY <1>2, <2>1, <2>3 DEF InIdle
<1>3. CASE st \notin gone /\ st \notin DOMAIN keep
  <2>1. r.conns = c /\ r.res \in {"commit", "keep", "unsupported"} /\ r.terminate = FALSE
    BY <1>3 DEF ReleaseInbound
  <2> QED BY <1>3, <2>1
<1> QED
  BY <1>1, <1>2, <1>3

(* promoted_to_warm_remote. *)
LEMMA PromotedState ==
    ASSUME NEW c, ConnMap(c), NEW p
    PROVE  LET st == AbstractStateOf(c, p)
               r == PromotedToWarmRemote(c, p)
           IN  /\ ConnMap(r.conns)
               /\ \A q : q # p => AbstractStateOf(r.conns, q) = AbstractStateOf(c, q)
               /\ AbstractStateOf(r.conns, p) =
                    CASE st = "inIdleUni" -> "inUni"
                      [] st \in {"inIdleDup", "outIdleDup"} -> "inDup"
                      [] st \in {"outDupT", "outDupE"} -> "duplex"
                      [] OTHER -> st
               /\ \A q \in r.prune : q \in Peers /\ AbstractStateOf(r.conns, q) \in InIdle
<1> DEFINE st == AbstractStateOf(c, p)
           r == PromotedToWarmRemote(c, p)
           to == [inIdleUni |-> "inUni", inIdleDup |-> "inDup", outDupT |-> "duplex",
               outDupE |-> "duplex", outIdleDup |-> "inDup"]
           d  == IF st \in DOMAIN to THEN Move(c, p, to[st]) ELSE c
<1>1. r = [conns |-> d,
           prune |-> IF st \in DOMAIN to \ {"inIdleUni"} THEN MaybePrune(d) ELSE {}]
  BY DEF PromotedToWarmRemote
<1>2. CASE st \in DOMAIN to
  <2>1. to[st] \in States /\ p \in DOMAIN c
    BY <1>2, StateKnown DEF States
  <2>2. ConnMap(d) /\ \A q : AbstractStateOf(d, q) =
                                IF q = p THEN to[st] ELSE AbstractStateOf(c, q)
    <3> HIDE DEF to, st
    <3> QED BY <1>2, <2>1, MoveState
  <2>3. \A q \in MaybePrune(d) : q \in Peers /\ AbstractStateOf(d, q) \in InIdle
    BY <2>2, PruneNamesIdle
  <2>4. to[st] = CASE st = "inIdleUni" -> "inUni"
                   [] st \in {"inIdleDup", "outIdleDup"} -> "inDup"
                   [] st \in {"outDupT", "outDupE"} -> "duplex"
                   [] OTHER -> st
    BY <1>2
  <2> HIDE DEF d
  <2> QED BY <1>1, <2>2, <2>3, <2>4
<1>3. CASE st \notin DOMAIN to
  BY <1>1, <1>3
<1> QED
  BY <1>2, <1>3

(* demoted_to_cold_remote. *)
LEMMA DemotedState ==
    ASSUME NEW c, ConnMap(c), NEW p
    PROVE  LET st == AbstractStateOf(c, p)
               d == DemotedToColdRemote(c, p)
           IN  /\ ConnMap(d)
               /\ \A q : q # p => AbstractStateOf(d, q) = AbstractStateOf(c, q)
               /\ AbstractStateOf(d, p) =
                    CASE st = "inUni" -> "inIdleUni"
                      [] st = "inDup" -> "inIdleDup"
                      [] st = "duplex" -> "outDupT"
                      [] OTHER -> st
<1> DEFINE st == AbstractStateOf(c, p)
           to == [inUni |-> "inIdleUni", inDup |-> "inIdleDup", duplex |-> "outDupT"]
<1>1. DemotedToColdRemote(c, p) = IF st \in DOMAIN to THEN Move(c, p, to[st]) ELSE c
  BY DEF DemotedToColdRemote
<1>2. CASE st \in DOMAIN to
  <2>1. to[st] \in States /\ p \in DOMAIN c
    BY <1>2, StateKnown DEF States
  <2>2. /\ ConnMap(Move(c, p, to[st]))
        /\ \A q : AbstractStateOf(Move(c, p, to[st]), q) =
                                IF q = p THEN to[st] ELSE AbstractStateOf(c, q)
    <3> HIDE DEF to, st
    <3> QED BY <2>1, MoveState
  <2> QED BY <1>1, <1>2, <2>2
<1>3. CASE st \notin DOMAIN to
  BY <1>1, <1>3
<1> QED
  BY <1>2, <1>3

(* The entry of a peer is forgotten. *)
LEMMA RetireState ==
    ASSUME NEW c, ConnMap(c), NEW p
    PROVE  LET d == Retire(c, p)
           IN  /\ ConnMap(d)
               /\ \A q : AbstractStateOf(d, q) =
                            IF q = p THEN "unknown" ELSE AbstractStateOf(c, q)
<1> DEFINE c1 == MarkTerminating(c, p)
           c2 == TimeWaitExpired(c1, p)
<1>1. "terminated" \in States /\ "terminating" \in States
  BY DEF States
<1>2. /\ ConnMap(c1)
      /\ \A q : q # p => AbstractStateOf(c1, q) = AbstractStateOf(c, q)
      /\ AbstractStateOf(c1, p) \in {"unknown", "terminating", "terminated"}
  <2>1. CASE AbstractStateOf(c, p) \in {"unknown", "terminating", "terminated"}
    <3>1. c1 = c
      BY <2>1 DEF MarkTerminating
    <3> QED BY <2>1, <3>1
  <2>2. CASE AbstractStateOf(c, p) = "reserved"
    <3>1. c1 = Move(c, p, "terminated") /\ p \in DOMAIN c
      BY <2>2, StateKnown DEF MarkTerminating
    <3> QED BY <1>1, <3>1, MoveState
  <2>3. CASE AbstractStateOf(c, p) \notin {"unknown", "terminating", "terminated", "reserved"}
    <3>1. c1 = Move(c, p, "terminating") /\ p \in DOMAIN c
      BY <2>3, StateKnown DEF MarkTerminating
    <3> QED BY <1>1, <3>1, MoveState
  <2> QED BY <2>1, <2>2, <2>3
<1> HIDE DEF c1
<1>3. /\ ConnMap(c2)
      /\ \A q : q # p => AbstractStateOf(c2, q) = AbstractStateOf(c, q)
      /\ AbstractStateOf(c2, p) \in {"unknown", "terminated"}
  <2>1. AbstractStateOf(c1, p) = "terminating" => p \in DOMAIN c1
    BY <1>2, StateKnown
  <2> QED BY <1>1, <1>2, <2>1, MoveState DEF TimeWaitExpired
<1> HIDE DEF c2
<1>4. Retire(c, p) = IF AbstractStateOf(c2, p) = "terminated"
                     THEN Restrict(c2, DOMAIN c2 \ {p}) ELSE c2
  BY DEF Retire, RemoveTerminated, Drop, c1, c2
<1>5. /\ ConnMap(Restrict(c2, DOMAIN c2 \ {p}))
      /\ \A q : AbstractStateOf(Restrict(c2, DOMAIN c2 \ {p}), q) =
                    IF q \in {p} THEN "unknown" ELSE AbstractStateOf(c2, q)
  BY <1>3, DropState
<1> QED
  BY <1>3, <1>4, <1>5

(* timeout_tick. *)
LEMMA TimeoutTickState ==
    ASSUME NEW c, ConnMap(c), NEW X
    PROVE  LET d == TimeoutTick(c, X)
           IN  /\ ConnMap(d)
               /\ \A q : \/ AbstractStateOf(d, q) = AbstractStateOf(c, q)
                         \/ /\ AbstractStateOf(c, q) \in {"terminating", "terminated"}
                            /\ AbstractStateOf(d, q) = "unknown"
                         \/ AbstractStateOf(c, q) = "outDupT" /\ AbstractStateOf(d, q) = "outDupE"
<1> DEFINE late(p, dl) == p \in X /\ c[p].deadline = dl
           left == {p \in DOMAIN c : /\ c[p].st # "terminated"
                                     /\ ~(c[p].st = "terminating" /\ late(p, "timeWait"))}
           d == TimeoutTick(c, X)
<1>1. d = [p \in left |-> IF c[p].st = "outDupT" /\ late(p, "responder")
                          THEN Move(c, p, "outDupE")[p] ELSE c[p]]
  BY DEF TimeoutTick
<1>2. ASSUME NEW q \in DOMAIN c
      PROVE  /\ Move(c, q, "outDupE")[q] \in Entries
             /\ Move(c, q, "outDupE")[q].st = "outDupE"
  <2>1. /\ ConnMap(Move(c, q, "outDupE"))
        /\ DOMAIN Move(c, q, "outDupE") = DOMAIN c
        /\ AbstractStateOf(Move(c, q, "outDupE"), q) = "outDupE"
    BY MoveState DEF States
  <2> QED BY <2>1 DEF ConnMap, AbstractStateOf
<1>3. left \subseteq DOMAIN c
      /\ \A q \in DOMAIN c \ left : c[q].st \in {"terminating", "terminated"}
  OBVIOUS
<1> HIDE DEF d, left, late
<1>4. /\ DOMAIN d = left
      /\ \A q \in left : d[q] = IF c[q].st = "outDupT" /\ late(q, "responder")
                                THEN Move(c, q, "outDupE")[q] ELSE c[q]
  BY <1>1
<1>5. \A q \in left : /\ d[q] \in Entries
                      /\ \/ d[q].st = c[q].st
                         \/ c[q].st = "outDupT" /\ d[q].st = "outDupE"
  BY <1>2, <1>3, <1>4 DEF ConnMap
<1>6. ConnMap(d)
  BY <1>1, <1>3, <1>4, <1>5 DEF ConnMap
<1> QED
  BY <1>3, <1>4, <1>5, <1>6 DEF AbstractStateOf, d

-----------------------------------------------------------------------------
(* The inbound governor. *)

IgEntries == [st : RemoteSt, counters : Counters]
IgResults(D) == [ig : [D -> IgEntries], calls : Seq({"promote", "demote"})]

(* One event of the inbound governor. *)
LEMMA StepType ==
    ASSUME NEW D, NEW g \in [D -> IgEntries], NEW p, NEW ev
    PROVE  Step(g, p, ev) \in IgResults(D)
<1>1. NoResponders \in Counters
  BY DEF NoResponders, Counters
<1>2. ASSUME NEW st \in RemoteSt, p \in D
      PROVE  /\ [g EXCEPT ![p].st = st] \in [D -> IgEntries]
             /\ [[g EXCEPT ![p].counters = NoResponders] EXCEPT ![p].st = st] \in [D -> IgEntries]
  BY <1>1, <1>2 DEF IgEntries
<1>3. /\ <<"promote">> \in Seq({"promote", "demote"})
      /\ <<"demote">> \in Seq({"promote", "demote"})
      /\ <<>> \in Seq({"promote", "demote"})
  OBVIOUS
<1> QED
  BY <1>2, <1>3 DEF Step, StepResult, IgResults, RemoteSt

(* Several events of the inbound governor. *)
LEMMA StepAllType ==
    ASSUME NEW D, NEW g \in [D -> IgEntries], NEW p, NEW E, NEW evs \in Seq(E)
    PROVE  StepAll(g, p, evs) \in IgResults(D)
<1> DEFINE N == Len(evs)
           T == IgResults(D)
           base == [ig |-> g, calls |-> <<>>]
           then(r, ev) == [ig |-> Step(r.ig, p, ev).ig, calls |-> r.calls \o Step(r.ig, p, ev).calls]
           F == [n \in 1 .. N |-> [r \in T |-> then(r, evs[n])]]
           after[n \in 0 .. Len(evs)] ==
            IF n = 0 THEN [ig |-> g, calls |-> <<>>]
            ELSE LET s == Step(after[n - 1].ig, p, evs[n])
                 IN  [ig |-> s.ig, calls |-> after[n - 1].calls \o s.calls]
<1>1. N \in Nat
  OBVIOUS
<1>2. base \in T
  BY DEF IgResults
<1>3. ASSUME NEW r \in T, NEW ev PROVE then(r, ev) \in T
  <2>1. /\ r.ig \in [D -> IgEntries]
        /\ r.calls \in Seq({"promote", "demote"})
    BY DEF IgResults
  <2>2. Step(r.ig, p, ev) \in IgResults(D)
    BY <2>1, StepType
  <2>3. /\ Step(r.ig, p, ev).ig \in [D -> IgEntries]
        /\ Step(r.ig, p, ev).calls \in Seq({"promote", "demote"})
    BY <2>2 DEF IgResults
  <2>4. r.calls \o Step(r.ig, p, ev).calls \in Seq({"promote", "demote"})
    BY <2>1, <2>3
  <2> QED BY <2>3, <2>4 DEF IgResults
<1>4. F \in [1 .. N -> [T -> T]]
  <2> HIDE DEF then, T, N
  <2> QED BY <1>3
<1>5. PICK f \in [0 .. N -> T] : Solves(f, N, base, F)
  <2> HIDE DEF F, T, base, N
  <2>1. Solvable(N, T, base, F)
    BY <1>1, <1>2, <1>4, RecursionExists
  <2> QED BY <2>1 DEF Solvable
<1>6. f = [n \in 0 .. N |-> IF n = 0 THEN base ELSE then(f[n - 1], evs[n])]
  <2>1. ASSUME NEW n \in 1 .. N PROVE f[n] = then(f[n - 1], evs[n])
    <3>1. f[n - 1] \in T
      BY <1>1, <1>5
    <3> HIDE DEF then, T, N
    <3> QED BY <3>1, <1>5 DEF Solves
  <2> HIDE DEF then, T, base, F
  <2> QED BY <1>1, <1>5, <2>1 DEF Solves
<1>7. after = [n \in 0 .. N |-> IF n = 0 THEN base ELSE then(after[n - 1], evs[n])]
  BY <1>6, Zenon
<1> DEFINE U == {n \in Nat : n <= N => after[n] \in T}
<1>8. 0 \in U
  <2> HIDE DEF after, then, T, base, N
  <2> QED BY <1>1, <1>2, <1>7
<1>9. ASSUME NEW n \in Nat, n \in U PROVE n + 1 \in U
  <2> HIDE DEF after, then, T, base, N
  <2>1. CASE n + 1 > N
    BY <1>1, <2>1
  <2>2. CASE n + 1 <= N
    <3>1. n + 1 \in 0 .. N /\ n + 1 # 0 /\ (n + 1) - 1 = n /\ n <= N
      BY <1>1, <2>2
    <3>2. after[n + 1] = then(after[n], evs[n + 1])
      BY <1>7, <3>1
    <3> QED BY <1>3, <1>9, <3>1, <3>2
  <2> QED BY <1>1, <2>1, <2>2
<1>10. N \in U
  <2> HIDE DEF U, N
  <2> QED BY <1>1, <1>8, <1>9, NatInductionOnSet
<1>11. StepAll(g, p, evs) = after[N]
  BY Zenon DEF StepAll
<1> HIDE DEF after, T
<1> QED
  BY <1>1, <1>10, <1>11 DEF T

(* The events a change of the responder counters means. *)
LEMMA CounterEventsType ==
    ASSUME NEW g, NEW p, NEW n
    PROVE  CounterEvents(g, p, n) \in
              Seq({"awake", "promotedToHot", "demotedToWarm", "waitIdle"})
<1> DEFINE E == {"awake", "promotedToHot", "demotedToWarm", "waitIdle"}
           on(cond, ev) == IF cond THEN <<ev>> ELSE <<>>
<1>1. ASSUME NEW ev \in E, NEW b \in BOOLEAN PROVE on(b, ev) \in Seq(E)
  <2>1. <<ev>> \in Seq(E) /\ <<>> \in Seq(E)
    <3> HIDE DEF E
    <3> QED OBVIOUS
  <2> HIDE DEF E
  <2> QED BY <2>1
<1>2. \A s, t \in Seq(E) : s \o t \in Seq(E)
  OBVIOUS
<1> QED
  BY <1>1, <1>2 DEF CounterEvents

-----------------------------------------------------------------------------
(* Types. *)

(* The counters a session's responders share count the ones that run.      *)
HotRunning(task) == {r \in Responders \ {"keepAlive"} : task[r].pc = "run"}
Counted(f) ==
    \A k \in Sessions :
        /\ f[k].counters.nonHot = IF f[k].task["keepAlive"].pc = "run" THEN 1 ELSE 0
        /\ f[k].counters.hot = Cardinality(HotRunning(f[k].task))
SessOK(f) == f \in [Sessions -> SessionTypes] /\ Counted(f)

TypeInv == TypeOK /\ Counted(sess)

(* Aborting sessions closes their bearers and changes nothing else of      *)
(* them.                                                                   *)
LEMMA ClosedType ==
    ASSUME TypeInv, NEW S
    PROVE  /\ SessOK(ClosedSessions(S))
           /\ \A k \in Sessions : /\ ClosedSessions(S)[k].peer = sess[k].peer
                                  /\ ClosedSessions(S)[k].pc = sess[k].pc
                                  /\ ClosedSessions(S)[k].task = sess[k].task
           /\ AbortsWithout(S) \in [Peers -> Sessions \cup {0}]
<1> DEFINE f == ClosedSessions(S)
           shut(k) == \A p \in S : aborts[p] # k
<1>1. f = [k \in Sessions |-> [sess[k] EXCEPT !.open = sess[k].open /\ shut(k)]]
  BY DEF ClosedSessions
<1>2. \A k \in Sessions : (sess[k].open /\ shut(k)) \in BOOLEAN
  OBVIOUS
<1> HIDE DEF shut
<1>3. ASSUME NEW k \in Sessions
      PROVE  /\ f[k] \in SessionTypes
             /\ f[k].peer = sess[k].peer /\ f[k].pc = sess[k].pc
             /\ f[k].task = sess[k].task /\ f[k].counters = sess[k].counters
  <2>1. ASSUME NEW s \in SessionTypes, NEW b \in BOOLEAN
        PROVE  LET t == [s EXCEPT !.open = b]
               IN  /\ t \in SessionTypes
                   /\ t.peer = s.peer /\ t.pc = s.pc /\ t.task = s.task
                   /\ t.counters = s.counters
    BY DEF SessionTypes
  <2>2. sess[k] \in SessionTypes
    BY DEF TypeInv, TypeOK
  <2>3. f[k] = [sess[k] EXCEPT !.open = sess[k].open /\ shut(k)]
    BY <1>1
  <2> HIDE DEF f
  <2> QED BY <2>1, <2>2, <2>3, <1>2, ZenonT(40)
<1>4. f \in [Sessions -> SessionTypes]
  <2>1. f = [k \in Sessions |-> f[k]]
    BY <1>1
  <2> HIDE DEF f
  <2> QED BY <2>1, <1>3
<1>5. Counted(f)
  <2> HIDE DEF f
  <2> QED BY <1>3 DEF TypeInv, Counted
<1>6. AbortsWithout(S) \in [Peers -> Sessions \cup {0}]
  BY DEF TypeInv, TypeOK, AbortsWithout
<1> QED
  BY <1>3, <1>4, <1>5, <1>6 DEF SessOK

(* The record of a session that was not started. *)
LEMMA NoSessionType ==
    /\ NoSession \in SessionTypes
    /\ NoSession.task = [r \in Responders |-> IdleTask] /\ NoSession.counters = NoResponders
    /\ \A r \in Responders : NoSession.task[r].pc = "new" /\ NoSession.task[r].todo = <<>>
<1>1. IdleTask \in Tasks
  BY DEF IdleTask, Tasks
<1>2. NoResponders \in Counters
  BY DEF NoResponders, Counters
<1> QED
  BY <1>1, <1>2 DEF NoSession, SessionTypes, IdleTask

(* A session that has started none of its responders counts none. *)
LEMMA FreshCounted ==
    HotRunning(NoSession.task) = {} /\ Cardinality(HotRunning(NoSession.task)) = 0
<1>1. HotRunning(NoSession.task) = {}
  BY NoSessionType DEF HotRunning
<1> QED
  BY <1>1, FS_EmptySet

(* Replacing the session k by one of its type that is counted. *)
LEMMA SessUpdate ==
    ASSUME TypeInv, NEW k \in Sessions, NEW s \in SessionTypes,
           s.counters.nonHot = IF s.task["keepAlive"].pc = "run" THEN 1 ELSE 0,
           s.counters.hot = Cardinality(HotRunning(s.task))
    PROVE  SessOK([sess EXCEPT ![k] = s])
BY DEF TypeInv, TypeOK, SessOK, Counted

(* TypeInv holds at the start. *)
LEMMA InitTypeInv == Init => TypeInv
<1> SUFFICES ASSUME Init PROVE TypeInv
  OBVIOUS
<1>1. sess \in [Sessions -> SessionTypes] /\ \A k \in Sessions : sess[k] = NoSession
  BY NoSessionType DEF Init
<1>2. Counted(sess)
  <2> SUFFICES ASSUME NEW k \in Sessions
               PROVE  /\ NoSession.counters.nonHot =
                            IF NoSession.task["keepAlive"].pc = "run" THEN 1 ELSE 0
                      /\ NoSession.counters.hot = Cardinality(HotRunning(NoSession.task))
    BY <1>1 DEF Counted
  <2> QED
    BY NoSessionType, FreshCounted, ConnectionsAssumption DEF NoResponders
<1>3. /\ DOMAIN conns \subseteq Peers /\ conns \in [DOMAIN conns -> Entries]
      /\ DOMAIN ig \subseteq Peers
      /\ ig \in [DOMAIN ig -> [st : RemoteSt, counters : Counters]]
  BY DEF Init
<1>4. /\ aborts \in [Peers -> Sessions \cup {0}]
      /\ warm \subseteq Peers /\ reg \in [Peers -> {"cold", "warm"}]
      /\ acc \in AccStates /\ gov \in GovStates /\ dials \in 0 .. MaxDials
  BY ConnectionsAssumption DEF Init, AccStates, GovStates
<1> QED
  BY <1>1, <1>2, <1>3, <1>4 DEF TypeInv, TypeOK

IgOK(g) == DOMAIN g \subseteq Peers /\ g \in [DOMAIN g -> IgEntries]
OutOK == /\ warm \subseteq Peers
         /\ reg \in [Peers -> {"cold", "warm"}]
         /\ gov \in GovStates
         /\ dials \in 0 .. MaxDials

(* TypeInv by its parts. *)
LEMMA TypeParts ==
    TypeInv <=> /\ ConnMap(conns) /\ IgOK(ig) /\ aborts \in [Peers -> Sessions \cup {0}]
                /\ SessOK(sess) /\ acc \in AccStates /\ OutOK
BY DEF TypeInv, TypeOK, ConnMap, IgOK, IgEntries, SessOK, OutOK

(* The same after a step. *)
LEMMA TypePartsNext ==
    ASSUME ConnMap(conns'), IgOK(ig'), aborts' \in [Peers -> Sessions \cup {0}],
           SessOK(sess'), acc' \in AccStates, OutOK'
    PROVE  TypeInv'
BY DEF TypeInv, TypeOK, ConnMap, IgOK, IgEntries, SessOK, OutOK

(* The inbound governor forgets a peer. *)
LEMMA UnregisterType ==
    ASSUME NEW g, IgOK(g), NEW p
    PROVE  /\ IgOK(Unregister(g, p))
           /\ DOMAIN Unregister(g, p) = DOMAIN g \ {p}
BY DEF Unregister, Restrict, IgOK

(* The accept loop. *)
LEMMA AcceptTypes ==
    ASSUME TypeInv,
           \/ \E p \in Peers, df \in Flow : Accept(p, df)
           \/ HandshakeFails \/ AcceptStep
           \/ \E X \in SUBSET Peers : InboundTick(X) \/ InactivityTick(X)
    PROVE  TypeInv'
<1> USE TypeParts, TypePartsNext
<1>1. ASSUME NEW p \in Peers, NEW df \in Flow, Accept(p, df) PROVE TypeInv'
  BY <1>1 DEF Accept, AccStates, outbound, OutOK
<1>2. CASE HandshakeFails
  BY <1>2 DEF HandshakeFails, AccStates, outbound, OutOK
<1>3. CASE Include
  <2>1. acc.peer \in Peers /\ acc \in [pc : {"handshake"}, peer : Peers, flow : Flow]
    BY <1>3 DEF Include, AccStates
  <2>2. ConnMap(conns')
    BY <1>3, <2>1, IncludeInboundState DEF Include
  <2>3. acc' \in AccStates
    <3>1. acc' \in {[acc EXCEPT !.pc = "included"], [pc |-> "idle"]}
      BY <1>3 DEF Include
    <3> QED BY <2>1, <3>1 DEF AccStates
  <2> QED BY <1>3, <2>2, <2>3 DEF Include, outbound, OutOK
<1>4. CASE Negotiated
  <2>1. acc.peer \in Peers /\ acc \in [pc : {"included"}, peer : Peers, flow : Flow]
    BY <1>4 DEF Negotiated, AccStates
  <2>2. ConnMap(conns')
    BY <1>4, InboundHandshakeState DEF Negotiated
  <2>3. acc' \in AccStates
    <3>1. acc' \in {[acc EXCEPT !.pc = "negotiated"], [pc |-> "idle"]}
      BY <1>4 DEF Negotiated
    <3> QED BY <2>1, <3>1 DEF AccStates
  <2> QED BY <1>4, <2>2, <2>3 DEF Negotiated, outbound, OutOK
<1>5. CASE StartSession
  <2>1. acc.peer \in Peers
    BY <1>5 DEF StartSession, AccStates
  <2>2. IgOK(ig')
    BY <1>5, <2>1 DEF StartSession, NewConnection, IgOK, IgEntries, RemoteSt,
                      NoResponders, Counters
  <2>3. PICK k \in Sessions :
           /\ sess' = [sess EXCEPT ![k] = [NoSession EXCEPT !.peer = acc.peer,
                                                            !.pc = "run", !.open = TRUE]]
           /\ aborts' = [aborts EXCEPT ![acc.peer] = k]
    BY <1>5 DEF StartSession
  <2>4. SessOK(sess')
    <3> DEFINE s == [NoSession EXCEPT !.peer = acc.peer, !.pc = "run", !.open = TRUE]
    <3>1. s \in SessionTypes /\ s.task = NoSession.task /\ s.counters = NoResponders
      BY <2>1, NoSessionType DEF SessionTypes
    <3>2. /\ s.counters.nonHot = IF s.task["keepAlive"].pc = "run" THEN 1 ELSE 0
          /\ s.counters.hot = Cardinality(HotRunning(s.task))
      <4> HIDE DEF s
      <4> QED BY <3>1, FreshCounted, NoSessionType, ConnectionsAssumption DEF NoResponders
    <3> HIDE DEF s
    <3>3. SessOK([sess EXCEPT ![k] = s])
      BY <3>1, <3>2, SessUpdate
    <3> QED BY <2>3, <3>3 DEF s
  <2>5. aborts' \in [Peers -> Sessions \cup {0}] /\ acc' \in AccStates
    BY <1>5, <2>3 DEF StartSession, AccStates
  <2> QED BY <1>5, <2>2, <2>4, <2>5 DEF StartSession, outbound, OutOK
<1>6. ASSUME NEW X \in SUBSET Peers, InboundTick(X) PROVE TypeInv'
  <2>1. ConnMap(conns')
    BY <1>6, TimeoutTickState DEF InboundTick
  <2>2. SessOK(sess') /\ aborts' \in [Peers -> Sessions \cup {0}]
    BY <1>6, ClosedType DEF InboundTick, AbortSessions
  <2> QED BY <1>6, <2>1, <2>2 DEF InboundTick, outbound, OutOK
<1>7. ASSUME NEW X \in SUBSET Peers, InactivityTick(X) PROVE TypeInv'
  <2>1. acc' \in AccStates
    BY <1>7 DEF InactivityTick, Expired, AccStates, IgOK
  <2> QED BY <1>7, <2>1 DEF InactivityTick, outbound, OutOK
<1>8. ASSUME NEW p \in Peers, ReleaseIdle(p) PROVE TypeInv'
  <2>1. ConnMap(conns') /\ ReleaseInbound(conns, p).res \in {"commit", "keep", "unsupported"}
    BY <1>8, ReleaseInboundState DEF ReleaseIdle
  <2>2. SessOK(sess') /\ aborts' \in [Peers -> Sessions \cup {0}]
    BY <1>8, ClosedType DEF ReleaseIdle, AbortSessions
  <2>3. acc' \in AccStates
    <3>1. acc.peers \subseteq Peers
      BY <1>8 DEF ReleaseIdle, AccStates
    <3>2. acc' = [pc |-> "commit", peer |-> p, res |-> ReleaseInbound(conns, p).res,
                  peers |-> acc.peers \ {p}]
      BY <1>8 DEF ReleaseIdle
    <3> QED BY <2>1, <3>1, <3>2 DEF AccStates
  <2> QED BY <1>8, <2>1, <2>2, <2>3 DEF ReleaseIdle, outbound, OutOK
<1>9. CASE CommitIdle
  <2>1. acc.peers \subseteq Peers /\ acc.peer \in Peers
    BY <1>9 DEF CommitIdle, AccStates
  <2>2. acc' \in AccStates
    BY <1>9, <2>1 DEF CommitIdle, AccStates
  <2>3. IgOK(ig')
    <3>1. CASE acc.res = "commit"
      BY <1>9, <3>1, UnregisterType DEF CommitIdle, ApplyCommit
    <3>2. CASE acc.res # "commit"
      BY <1>9, <3>2 DEF CommitIdle, ApplyCommit, IgOK, IgEntries, RemoteSt
    <3> QED BY <3>1, <3>2
  <2> QED BY <1>9, <2>2, <2>3 DEF CommitIdle, outbound, OutOK
<1> QED
  BY <1>1, <1>2, <1>3, <1>4, <1>5, <1>6, <1>7, <1>8, <1>9 DEF AcceptStep

(* A responder that starts or ends moves its counter with it; it can only  *)
(* end after it started, so the counter is not taken below zero.           *)
LEMMA CountType ==
    ASSUME TypeInv, NEW k \in Sessions, NEW r \in Responders, NEW d \in {1, 0 - 1},
           sess[k].task[r].pc = IF d = 1 THEN "new" ELSE "run",
           Count(k, r, d)
    PROVE  SessOK(sess')
<1> DEFINE old == sess[k]
           n == old.counters
           v == IF r = "keepAlive" THEN [n EXCEPT !.nonHot = @ + d] ELSE [n EXCEPT !.hot = @ + d]
           t == [pc |-> IF d = 1 THEN "run" ELSE "end", todo |-> <<[call |-> "update", n |-> v]>>]
           new == [old EXCEPT !.counters = v, !.task[r] = t]
           H == HotRunning(old.task)
<1>1. /\ sess \in [Sessions -> SessionTypes] /\ old \in SessionTypes
      /\ n.hot \in Nat /\ n.nonHot \in Nat /\ n = [hot |-> n.hot, nonHot |-> n.nonHot]
      /\ n.nonHot = IF old.task["keepAlive"].pc = "run" THEN 1 ELSE 0
      /\ n.hot = Cardinality(H)
  BY DEF TypeInv, TypeOK, Counted, SessionTypes, Counters
<1>2. sess' = [sess EXCEPT ![k] = new]
  <2>1. sess' = [sess EXCEPT ![k].counters = v, ![k].task[r] = t]
    BY DEF Count
  <2> HIDE DEF v, t
  <2> QED BY <2>1, <1>1
<1>3. IsFiniteSet(H) /\ H \subseteq Responders \ {"keepAlive"}
  <2>1. H \subseteq Responders
    BY DEF HotRunning
  <2> QED BY <2>1, ConnectionsAssumption, FS_Subset DEF HotRunning
<1>4. r # "keepAlive" => /\ d = 1 => r \notin H /\ Cardinality(H \cup {r}) = Cardinality(H) + 1
                         /\ d # 1 => r \in H /\ Cardinality(H \ {r}) = Cardinality(H) - 1
  BY <1>3, FS_AddElement, FS_RemoveElement, ZenonT(40) DEF HotRunning
<1>5. Cardinality(H \ {r}) \in Nat /\ Cardinality(H) \in Nat
  BY <1>3, FS_Subset, FS_CardinalityType
<1>6. /\ v \in Counters
      /\ v.hot = IF r = "keepAlive" THEN n.hot ELSE n.hot + d
      /\ v.nonHot = IF r = "keepAlive" THEN n.nonHot + d ELSE n.nonHot
  <2>1. n.nonHot + d \in Nat \/ r # "keepAlive"
    BY <1>1
  <2>2. n.hot + d \in Nat \/ r = "keepAlive"
    BY <1>1, <1>4, <1>5
  <2>3. v = IF r = "keepAlive" THEN [hot |-> n.hot, nonHot |-> n.nonHot + d]
            ELSE [hot |-> n.hot + d, nonHot |-> n.nonHot]
    <3> HIDE DEF n
    <3> QED BY <1>1
  <2> HIDE DEF v
  <2> QED BY <2>1, <2>2, <2>3, <1>1 DEF Counters
<1> HIDE DEF v
<1>7. t \in Tasks /\ t.pc = IF d = 1 THEN "run" ELSE "end"
  <2>1. [call |-> "update", n |-> v] \in Events
    BY <1>6 DEF Events
  <2>2. <<[call |-> "update", n |-> v]>> \in Seq(Events)
    BY <2>1
  <2> QED BY <2>2 DEF Tasks
<1> HIDE DEF t
<1>8. /\ new \in SessionTypes /\ new.counters = v
      /\ new.task = [old.task EXCEPT ![r] = t]
      /\ old.task \in [Responders -> Tasks]
  BY <1>1, <1>6, <1>7 DEF SessionTypes
<1> HIDE DEF new
<1>9. HotRunning(new.task) = IF r = "keepAlive" THEN H
                             ELSE IF d = 1 THEN H \cup {r} ELSE H \ {r}
  BY <1>7, <1>8 DEF HotRunning
<1>10. new.counters.hot = Cardinality(HotRunning(new.task))
  <2>1. CASE r = "keepAlive"
    BY <2>1, <1>1, <1>6, <1>8, <1>9
  <2>2. CASE r # "keepAlive" /\ d = 1
    <3>1. v.hot = n.hot + 1
      BY <2>2, <1>6
    <3> QED BY <2>2, <3>1, <1>1, <1>4, <1>8, <1>9
  <2>3. CASE r # "keepAlive" /\ d = 0 - 1
    <3>1. v.hot = n.hot - 1 /\ d # 1
      BY <2>3, <1>1, <1>6
    <3> QED BY <2>3, <3>1, <1>1, <1>4, <1>8, <1>9
  <2> QED BY <2>1, <2>2, <2>3
<1>11. new.counters.nonHot = IF new.task["keepAlive"].pc = "run" THEN 1 ELSE 0
  <2>1. CASE r = "keepAlive"
    <3>1. new.task["keepAlive"] = t
      BY <2>1, <1>8, ConnectionsAssumption
    <3> QED BY <2>1, <3>1, <1>1, <1>6, <1>7, <1>8
  <2>2. CASE r # "keepAlive"
    <3>1. new.task["keepAlive"] = old.task["keepAlive"]
      BY <2>2, <1>8, ConnectionsAssumption
    <3> QED BY <2>2, <3>1, <1>1, <1>6, <1>8
  <2> QED BY <2>1, <2>2
<1>12. SessOK([sess EXCEPT ![k] = new])
  BY <1>8, <1>10, <1>11, SessUpdate
<1> QED
  BY <1>2, <1>12

(* What a responder has reported is taken off its list, or replaced by the *)
(* calls the inbound governor asks for; nothing else of a session changes. *)
SetTodo(f, k, r, todo) == [f EXCEPT ![k].task[r].todo = todo]

(* The pending calls of a responder change. *)
LEMMA TodoType ==
    ASSUME NEW f, SessOK(f), NEW k \in Sessions, NEW r \in Responders, NEW todo \in Seq(Events)
    PROVE  LET g == SetTodo(f, k, r, todo)
           IN  /\ SessOK(g)
               /\ \A j \in Sessions : g[j].peer = f[j].peer /\ g[j].pc = f[j].pc
<1> DEFINE g == SetTodo(f, k, r, todo)
<1>1. /\ f \in [Sessions -> SessionTypes]
      /\ f[k].task \in [Responders -> Tasks] /\ f[k].task[r] \in Tasks
  BY DEF SessOK, SessionTypes
<1>2. /\ [f[k].task[r] EXCEPT !.todo = todo] \in Tasks
      /\ [f[k].task[r] EXCEPT !.todo = todo].pc = f[k].task[r].pc
  BY <1>1 DEF Tasks
<1> DEFINE t == [f[k].task[r] EXCEPT !.todo = todo]
           task == [f[k].task EXCEPT ![r] = t]
<1> HIDE DEF t
<1>3. /\ task \in [Responders -> Tasks]
      /\ \A q \in Responders : task[q].pc = f[k].task[q].pc
  BY <1>1, <1>2 DEF t
<1>4. g = [f EXCEPT ![k] = [f[k] EXCEPT !.task = task]]
  BY <1>1 DEF t, SetTodo
<1>5. HotRunning(task) = HotRunning(f[k].task)
  <2> HIDE DEF task
  <2> QED BY <1>3 DEF HotRunning
<1>6. task["keepAlive"].pc = f[k].task["keepAlive"].pc
  BY <1>3, ConnectionsAssumption
<1> HIDE DEF task
<1>7. g \in [Sessions -> SessionTypes]
  BY <1>1, <1>3, <1>4, ZenonT(60) DEF SessionTypes
<1>8. /\ g[k].task = task /\ g[k].counters = f[k].counters
      /\ g[k].peer = f[k].peer /\ g[k].pc = f[k].pc
      /\ \A j \in Sessions : j # k => g[j] = f[j]
  BY <1>1, <1>4 DEF SessionTypes
<1>9. Counted(g)
  BY <1>5, <1>6, <1>8 DEF SessOK, Counted
<1> QED
  BY <1>7, <1>8, <1>9 DEF SessOK

(* What a report does to the inbound governor, and the calls it leaves.    *)
LEMMA ReportUpdate ==
    ASSUME TypeInv, NEW p, NEW n \in Counters
    PROVE  LET res == StepAll(SetCounters(ig, p, n), p, CounterEvents(ig, p, n))
           IN  /\ IgOK(res.ig) /\ DOMAIN res.ig = DOMAIN ig
               /\ [i \in DOMAIN res.calls |-> [call |-> res.calls[i]]] \in Seq(Events)
<1> DEFINE g == SetCounters(ig, p, n)
           evs == CounterEvents(ig, p, n)
           res == StepAll(g, p, evs)
<1>1. g \in [DOMAIN ig -> IgEntries] /\ DOMAIN ig \subseteq Peers
  BY TypeParts DEF SetCounters, IgOK, IgEntries
<1>2. res \in IgResults(DOMAIN ig)
  <2>1. evs \in Seq({"awake", "promotedToHot", "demotedToWarm", "waitIdle"})
    BY CounterEventsType
  <2> HIDE DEF g, evs
  <2> QED BY <1>1, <2>1, StepAllType
<1> HIDE DEF res
<1>3. res.ig \in [DOMAIN ig -> IgEntries] /\ res.calls \in Seq({"promote", "demote"})
  BY <1>2 DEF IgResults
<1>4. [i \in DOMAIN res.calls |-> [call |-> res.calls[i]]] \in Seq(Events)
  <2>1. DOMAIN res.calls = 1 .. Len(res.calls) /\ Len(res.calls) \in Nat
    BY <1>3
  <2>2. \A i \in 1 .. Len(res.calls) : [call |-> res.calls[i]] \in Events
    BY <1>3 DEF Events
  <2> QED BY <2>1, <2>2
<1> QED
  BY <1>1, <1>3, <1>4 DEF IgOK, res

(* The cases of a report, with everything it changes. *)
LEMMA ReportCases ==
    ASSUME TypeInv, NEW k \in Sessions, NEW r \in Responders, Report(k, r)
    PROVE  LET p == sess[k].peer
           IN  /\ \/ conns' = conns /\ ig' \in [DOMAIN ig -> IgEntries] /\ aborts' = aborts
                  \/ /\ conns' = PromotedToWarmRemote(conns, p).conns
                     /\ aborts' = AbortsWithout(PromotedToWarmRemote(conns, p).prune)
                     /\ ig' = ig
                  \/ conns' = DemotedToColdRemote(conns, p) /\ ig' = ig /\ aborts' = aborts
               /\ SessOK(sess')
               /\ \A j \in Sessions : sess'[j].peer = sess[j].peer /\ sess'[j].pc = sess[j].pc
               /\ UNCHANGED <<acc, outbound>>
<1> DEFINE p == sess[k].peer
           t == sess[k].task[r].todo
           do == Head(t)
           res == StepAll(SetCounters(ig, p, do.n), p, CounterEvents(ig, p, do.n))
           calls == [i \in DOMAIN res.calls |-> [call |-> res.calls[i]]]
           c == PromotedToWarmRemote(conns, p)
<1>1. /\ t \in Seq(Events) /\ t # <<>> /\ do \in Events /\ Tail(t) \in Seq(Events)
  <2>1. t \in Seq(Events)
    BY DEF TypeInv, TypeOK, SessionTypes, Tasks
  <2>2. t # <<>>
    BY DEF Report
  <2> HIDE DEF t
  <2> QED BY <2>1, <2>2
<1>2. SessOK(sess)
  BY TypeParts
<1>3. CASE /\ do.call = "update" /\ ig' = res.ig
           /\ sess' = [sess EXCEPT ![k].task[r].todo = calls \o Tail(t)]
           /\ UNCHANGED <<conns, aborts>>
  <2>1. do.n \in Counters
    BY <1>1, <1>3 DEF Events
  <2>2. IgOK(res.ig) /\ DOMAIN res.ig = DOMAIN ig /\ calls \in Seq(Events)
    BY <2>1, ReportUpdate
  <2>3. calls \o Tail(t) \in Seq(Events)
    <3> HIDE DEF calls, t
    <3> QED BY <1>1, <2>2
  <2>4. /\ SessOK(sess')
        /\ \A j \in Sessions : sess'[j].peer = sess[j].peer /\ sess'[j].pc = sess[j].pc
    <3> HIDE DEF calls, t
    <3>1. sess' = SetTodo(sess, k, r, calls \o Tail(t))
      BY <1>3 DEF SetTodo
    <3> QED BY <1>2, <2>3, <3>1, TodoType, ZenonT(60)
  <2>5. ig' \in [DOMAIN ig -> IgEntries]
    BY <1>3, <2>2 DEF IgOK
  <2> QED BY <1>3, <2>4, <2>5 DEF Report
<1>4. CASE /\ do.call = "promote" /\ conns' = c.conns /\ aborts' = AbortsWithout(c.prune)
           /\ sess' = [ClosedSessions(c.prune) EXCEPT ![k].task[r].todo = <<>> \o Tail(t)]
           /\ UNCHANGED ig
  <2> DEFINE f == ClosedSessions(c.prune)
  <2>1. <<>> \o Tail(t) \in Seq(Events)
    <3> HIDE DEF t
    <3> QED BY <1>1
  <2>2. /\ SessOK(f)
        /\ \A j \in Sessions : f[j].peer = sess[j].peer /\ f[j].pc = sess[j].pc
    BY ClosedType
  <2>3. /\ SessOK(sess')
        /\ \A j \in Sessions : sess'[j].peer = f[j].peer /\ sess'[j].pc = f[j].pc
    <3> HIDE DEF t
    <3>1. sess' = SetTodo(f, k, r, <<>> \o Tail(t))
      BY <1>4 DEF SetTodo
    <3> HIDE DEF f
    <3> QED BY <2>1, <2>2, <3>1, TodoType, ZenonT(60)
  <2> QED BY <1>4, <2>2, <2>3 DEF Report
<1>5. CASE /\ do.call = "demote" /\ conns' = DemotedToColdRemote(conns, p)
           /\ sess' = [sess EXCEPT ![k].task[r].todo = <<>> \o Tail(t)]
           /\ UNCHANGED <<ig, aborts>>
  <2>1. <<>> \o Tail(t) \in Seq(Events)
    <3> HIDE DEF t
    <3> QED BY <1>1
  <2>2. /\ SessOK(sess')
        /\ \A j \in Sessions : sess'[j].peer = sess[j].peer /\ sess'[j].pc = sess[j].pc
    <3> HIDE DEF t
    <3>1. sess' = SetTodo(sess, k, r, <<>> \o Tail(t))
      BY <1>5 DEF SetTodo
    <3> QED BY <1>2, <2>1, <3>1, TodoType
  <2> QED BY <1>5, <2>2 DEF Report
<1> QED
  BY <1>3, <1>4, <1>5 DEF Report

(* The end of a session, step by step. *)
LEMMA PcType ==
    ASSUME NEW f, SessOK(f), NEW k \in Sessions, NEW pc \in {"run", "mux", "cleaned"},
           NEW open \in BOOLEAN
    PROVE  /\ SessOK([f EXCEPT ![k].pc = pc])
           /\ SessOK([f EXCEPT ![k].open = open])
           /\ SessOK([f EXCEPT ![k].pc = pc, ![k].open = open])
<1>1. f \in [Sessions -> SessionTypes] /\ f[k] \in SessionTypes
  BY DEF SessOK
<1>2. ASSUME NEW g, \E s \in SessionTypes : /\ g = [f EXCEPT ![k] = s]
                                            /\ s.task = f[k].task
                                            /\ s.counters = f[k].counters
      PROVE  SessOK(g)
  BY <1>1, <1>2 DEF SessOK, Counted
<1>3. SessOK([f EXCEPT ![k].pc = pc])
  <2> DEFINE s == [f[k] EXCEPT !.pc = pc]
  <2>1. s \in SessionTypes /\ s.task = f[k].task /\ s.counters = f[k].counters
    BY <1>1 DEF SessionTypes
  <2>2. [f EXCEPT ![k].pc = pc] = [f EXCEPT ![k] = s]
    BY <1>1
  <2> HIDE DEF s
  <2> QED BY <1>2, <2>1, <2>2
<1>4. SessOK([f EXCEPT ![k].open = open])
  <2> DEFINE s == [f[k] EXCEPT !.open = open]
  <2>1. s \in SessionTypes /\ s.task = f[k].task /\ s.counters = f[k].counters
    BY <1>1 DEF SessionTypes
  <2>2. [f EXCEPT ![k].open = open] = [f EXCEPT ![k] = s]
    BY <1>1
  <2> HIDE DEF s
  <2> QED BY <1>2, <2>1, <2>2
<1>5. SessOK([f EXCEPT ![k].pc = pc, ![k].open = open])
  <2> DEFINE s == [f[k] EXCEPT !.pc = pc, !.open = open]
  <2>1. s \in SessionTypes /\ s.task = f[k].task /\ s.counters = f[k].counters
    BY <1>1 DEF SessionTypes
  <2>2. [f EXCEPT ![k].pc = pc, ![k].open = open] = [f EXCEPT ![k] = s]
    BY <1>1
  <2> HIDE DEF s
  <2> QED BY <1>2, <2>1, <2>2
<1> QED
  BY <1>3, <1>4, <1>5

(* The steps of a session keep TypeInv. *)
LEMMA SessionTypesKept ==
    ASSUME TypeInv, NEW k \in Sessions,
           SessionStep(k) \/ RemoteCloses(k) \/ \E r \in Responders : End(k, r)
    PROVE  TypeInv'
<1> USE TypeParts, TypePartsNext
<1>1. CASE MuxFinished(k)
  BY <1>1, UnregisterType, PcType DEF MuxFinished, outbound, OutOK
<1>2. CASE Cleanup(k)
  <2> DEFINE p == sess[k].peer
             r == ReleaseInbound(conns, p)
             S == IF r.terminate THEN {p} ELSE {}
  <2>1. ConnMap(conns')
    BY <1>2, ReleaseInboundState, RetireState DEF Cleanup
  <2>2. SessOK(ClosedSessions(S)) /\ AbortsWithout(S) \in [Peers -> Sessions \cup {0}]
    BY ClosedType
  <2>3. sess' = [ClosedSessions(S) EXCEPT ![k].pc = "cleaned"] /\ aborts' = AbortsWithout(S)
    BY <1>2 DEF Cleanup
  <2>4. SessOK(sess') /\ aborts' \in [Peers -> Sessions \cup {0}]
    <3> HIDE DEF S
    <3> QED BY <2>2, <2>3, PcType
  <2> QED BY <1>2, <2>1, <2>4 DEF Cleanup, outbound, OutOK
<1>3. CASE Finish(k)
  <2> DEFINE s == [NoSession EXCEPT !.pc = "done"]
  <2>1. s \in SessionTypes /\ s.task = NoSession.task /\ s.counters = NoResponders
    BY NoSessionType DEF SessionTypes
  <2>2. /\ s.counters.nonHot = IF s.task["keepAlive"].pc = "run" THEN 1 ELSE 0
        /\ s.counters.hot = Cardinality(HotRunning(s.task))
    <3> HIDE DEF s
    <3> QED BY <2>1, FreshCounted, NoSessionType, ConnectionsAssumption DEF NoResponders
  <2>3. SessOK(sess')
    <3> HIDE DEF s
    <3>1. SessOK([sess EXCEPT ![k] = s])
      BY <2>1, <2>2, SessUpdate
    <3> QED BY <1>3, <3>1 DEF Finish, s
  <2>4. aborts' \in [Peers -> Sessions \cup {0}]
    BY <1>3 DEF Finish
  <2> QED BY <1>3, <2>3, <2>4 DEF Finish, outbound, OutOK
<1>4. CASE RemoteCloses(k)
  BY <1>4, PcType DEF RemoteCloses, outbound, OutOK
<1>5. ASSUME NEW r \in Responders, Start(k, r) PROVE TypeInv'
  <2>1. SessOK(sess')
    BY <1>5, CountType DEF Start
  <2> QED BY <1>5, <2>1 DEF Start, outbound, OutOK
<1>6. ASSUME NEW r \in Responders, End(k, r) PROVE TypeInv'
  <2>1. SessOK(sess')
    BY <1>6, CountType DEF End
  <2> QED BY <1>6, <2>1 DEF End, outbound, OutOK
<1>7. ASSUME NEW r \in Responders, Report(k, r) PROVE TypeInv'
  <2>1. ConnMap(conns')
    BY <1>7, ReportCases, PromotedState, DemotedState
  <2>2. IgOK(ig')
    BY <1>7, ReportCases DEF IgOK
  <2>3. aborts' \in [Peers -> Sessions \cup {0}]
    BY <1>7, ReportCases, ClosedType
  <2>4. SessOK(sess') /\ UNCHANGED <<acc, outbound>>
    BY <1>7, ReportCases
  <2> QED BY <2>1, <2>2, <2>3, <2>4 DEF outbound, OutOK
<1> QED
  BY <1>1, <1>2, <1>3, <1>4, <1>5, <1>6, <1>7 DEF SessionStep

(* The steps of the outbound governor keep TypeInv. *)
LEMMA GovernorTypesKept ==
    ASSUME TypeInv,
           \/ \E X \in SUBSET Peers : GovernorTick(X)
           \/ GovernorStep
           \/ \E df \in Flow : DialSucceeds(df)
           \/ \E p \in Peers : Establish(p) \/ Close(p) \/ Forget(p)
           \/ \E S \in SUBSET Peers : RetireFailed(S)
    PROVE  TypeInv'
<1> USE TypeParts, TypePartsNext
<1>1. ASSUME NEW X \in SUBSET Peers, GovernorTick(X) PROVE TypeInv'
  BY <1>1, TimeoutTickState DEF GovernorTick, outbound, OutOK
<1>2. CASE DialFails
  BY <1>2, OutboundFailedState DEF DialFails, OutOK, GovStates
<1>3. CASE DialNegotiated
  <2>1. gov.peer \in Peers
    BY <1>3 DEF DialNegotiated, OutOK, GovStates
  <2>2. ConnMap(conns')
    BY <1>3, OutboundFailedState, OutboundHandshakeState DEF DialNegotiated
  <2>3. OutOK'
    BY <1>3, <2>1 DEF DialNegotiated, OutOK, GovStates
  <2> QED BY <1>3, <2>2, <2>3 DEF DialNegotiated
<1>4. CASE UpdateStatus
  <2>1. OutOK'
    BY <1>4 DEF UpdateStatus, OutOK, GovStates, StatusFromCm
  <2> QED BY <1>4, <2>1 DEF UpdateStatus
<1>5. ASSUME NEW df \in Flow, DialSucceeds(df) PROVE TypeInv'
  <2>1. OutOK'
    BY <1>5 DEF DialSucceeds, OutOK, GovStates
  <2> QED BY <1>5, <2>1 DEF DialSucceeds
<1>6. ASSUME NEW p \in Peers, Establish(p) PROVE TypeInv'
  <2>1. ConnMap(conns')
    BY <1>6, AcquireOutboundState DEF Establish
  <2>2. gov' \in {[pc |-> "dial", peer |-> p], [pc |-> "status", peer |-> p], [pc |-> "idle"]}
    BY <1>6 DEF Establish
  <2>3. OutOK'
    BY <1>6, <2>2, ConnectionsAssumption DEF Establish, CloseOutbound, OutOK, GovStates
  <2> QED BY <1>6, <2>1, <2>3 DEF Establish
<1>7. ASSUME NEW p \in Peers, Close(p) PROVE TypeInv'
  <2>1. ConnMap(conns')
    BY <1>7, ReleaseOutboundState DEF Close
  <2>2. gov' \in {[pc |-> "idle"], [pc |-> "status", peer |-> p]}
    BY <1>7 DEF Close
  <2>3. OutOK'
    BY <1>7, <2>2 DEF Close, CloseOutbound, OutOK, GovStates
  <2> QED BY <1>7, <2>1, <2>3 DEF Close
<1>8. ASSUME NEW S \in SUBSET Peers, LetGo(S) PROVE TypeInv'
  <2>1. OutOK'
    BY <1>8 DEF LetGo, OutOK, GovStates
  <2> QED BY <1>8, <2>1 DEF LetGo
<1>9. ASSUME NEW p \in Peers, RetireEntry(p) PROVE TypeInv'
  <2>1. ConnMap(conns')
    BY <1>9, RetireState DEF RetireEntry
  <2>2. gov \in [pc : {"retire"}, peers : SUBSET Peers]
    BY <1>9 DEF RetireEntry, OutOK, GovStates
  <2>3. gov' \in [pc : {"idle"}] \cup [pc : {"retire"}, peers : SUBSET Peers]
    BY <1>9, <2>2 DEF RetireEntry
  <2>4. OutOK'
    BY <1>9, <2>3 DEF RetireEntry, OutOK, GovStates
  <2> QED BY <1>9, <2>1, <2>4 DEF RetireEntry
<1> QED
  BY <1>1, <1>2, <1>3, <1>4, <1>5, <1>6, <1>7, <1>8, <1>9 DEF GovernorStep, Forget, RetireFailed

(* Every step keeps TypeInv. *)
LEMMA NextTypeInv == TypeInv /\ [Next]_vars => TypeInv'
<1> SUFFICES ASSUME TypeInv, [Next]_vars PROVE TypeInv'
  OBVIOUS
<1>1. CASE UNCHANGED vars
  BY <1>1, TypeParts, TypePartsNext DEF vars, OutOK
<1>2. CASE Next
  BY <1>2, AcceptTypes, SessionTypesKept, GovernorTypesKept DEF Next
<1> QED
  BY <1>1, <1>2

(***************************************************************************)
(* Every variable keeps its type.  The hard part is the counters the       *)
(* responders of a session share: none is taken below zero, whatever order *)
(* responders start, report and end in.                                    *)
(***************************************************************************)
THEOREM TypeCorrect == Spec => []TypeOK
<1>1. TypeInv => TypeOK
  BY DEF TypeInv
<1> QED
  BY InitTypeInv, NextTypeInv, <1>1, PTL DEF Spec

-----------------------------------------------------------------------------
(* No entry is left waiting for a handshake. *)

(* The peer the accept loop or the governor is at. *)
LEMMA AtPeer ==
    ASSUME TypeInv
    PROVE  /\ acc.pc \in {"handshake", "included", "negotiated", "commit"} => acc.peer \in Peers
           /\ gov.pc \in {"dial", "dialled", "dropped", "status"} => gov.peer \in Peers
BY DEF TypeInv, TypeOK, AccStates, GovStates

(* Every step keeps NoStuckHandshake. *)
LEMMA StuckStep == TypeInv /\ NoStuckHandshake /\ [Next]_vars => NoStuckHandshake'
<1> SUFFICES ASSUME TypeInv, NoStuckHandshake, [Next]_vars PROVE NoStuckHandshake'
  OBVIOUS
<1> USE DEF NoStuckHandshake
<1>0. ConnMap(conns)
  BY TypeParts
<1>1. CASE UNCHANGED vars
  BY <1>1 DEF vars
<1>2. ASSUME UNCHANGED <<conns, gov>>, acc.pc # "included", acc'.pc # "included"
      PROVE  NoStuckHandshake'
  BY <1>2
<1>3. ASSUME UNCHANGED <<conns, acc, gov>> PROVE NoStuckHandshake'
  BY <1>3
<1>4. ASSUME NEW p \in Peers, NEW df \in Flow, Accept(p, df) PROVE NoStuckHandshake'
  BY <1>4, <1>2 DEF Accept, outbound
<1>5. CASE HandshakeFails
  BY <1>5, <1>2 DEF HandshakeFails, outbound
<1>6. CASE Include
  <2> DEFINE r == IncludeInbound(conns, acc.peer)
  <2>1. acc.peer \in Peers /\ acc \in [pc : {"handshake"}, peer : Peers, flow : Flow]
    BY <1>6 DEF Include, TypeInv, TypeOK, AccStates
  <2>2. /\ r.ok => acc'.pc = "included" /\ acc'.peer = acc.peer
        /\ conns' = r.conns /\ acc.pc = "handshake" /\ UNCHANGED gov
    BY <1>6, <2>1 DEF Include, outbound
  <2> QED BY <1>0, <2>1, <2>2, IncludeInboundState DEF InIdle
<1>7. CASE Negotiated
  <2>1. conns' = InboundHandshakeDone(conns, acc.peer, acc.flow) /\ UNCHANGED gov
        /\ acc.pc = "included"
    BY <1>7 DEF Negotiated, outbound
  <2> QED BY <1>0, <2>1, InboundHandshakeState
<1>8. CASE StartSession
  BY <1>8, <1>2 DEF StartSession, outbound
<1>9. ASSUME NEW X \in SUBSET Peers, InboundTick(X) \/ GovernorTick(X) PROVE NoStuckHandshake'
  BY <1>0, <1>9, TimeoutTickState DEF InboundTick, GovernorTick, outbound
<1>10. ASSUME NEW X \in SUBSET Peers, InactivityTick(X) PROVE NoStuckHandshake'
  BY <1>10, <1>2 DEF InactivityTick, outbound
<1>11. ASSUME NEW p \in Peers, ReleaseIdle(p) PROVE NoStuckHandshake'
  BY <1>0, <1>11, ReleaseInboundState DEF ReleaseIdle, outbound
<1>12. CASE CommitIdle
  BY <1>12, <1>2 DEF CommitIdle, outbound
<1>13. ASSUME NEW k \in Sessions, NEW r \in Responders, Start(k, r) \/ End(k, r)
       PROVE  NoStuckHandshake'
  BY <1>13, <1>3 DEF Start, End, outbound
<1>14. ASSUME NEW k \in Sessions, MuxFinished(k) \/ Finish(k) \/ RemoteCloses(k)
       PROVE  NoStuckHandshake'
  BY <1>14, <1>3 DEF MuxFinished, Finish, RemoteCloses, outbound
<1>15. ASSUME NEW k \in Sessions, NEW r \in Responders, Report(k, r) PROVE NoStuckHandshake'
  <2> DEFINE p == sess[k].peer
  <2>1. /\ conns' \in {conns, PromotedToWarmRemote(conns, p).conns, DemotedToColdRemote(conns, p)}
        /\ UNCHANGED <<acc, gov>>
    BY <1>15, ReportCases DEF outbound
  <2> QED BY <1>0, <2>1, PromotedState, DemotedState
<1>16. ASSUME NEW k \in Sessions, Cleanup(k) PROVE NoStuckHandshake'
  <2> DEFINE p == sess[k].peer
  <2>1. conns' = Retire(ReleaseInbound(conns, p).conns, p) /\ UNCHANGED <<acc, gov>>
    BY <1>16 DEF Cleanup, outbound
  <2> QED BY <1>0, <2>1, ReleaseInboundState, RetireState
<1>17. CASE DialFails
  BY <1>0, <1>17, OutboundFailedState DEF DialFails, OutboundHandshakeOk
<1>18. CASE DialNegotiated
  <2>1. gov.pc = "dialled" /\ UNCHANGED acc
        /\ conns' = IF OutboundHandshakeOk(conns, gov.peer)
                    THEN OutboundHandshakeDone(conns, gov.peer, gov.flow) ELSE conns
    BY <1>18 DEF DialNegotiated
  <2> QED BY <1>0, <2>1, OutboundHandshakeState DEF OutboundHandshakeOk
<1>19. CASE UpdateStatus
  BY <1>19 DEF UpdateStatus
<1>20. ASSUME NEW df \in Flow, DialSucceeds(df) PROVE NoStuckHandshake'
  BY <1>20 DEF DialSucceeds
<1>21. ASSUME NEW p \in Peers, Establish(p) PROVE NoStuckHandshake'
  <2>1. /\ gov.pc = "idle" /\ UNCHANGED acc /\ conns' = AcquireOutbound(conns, p).conns
        /\ AcquireOutbound(conns, p).res = "dial" => gov' = [pc |-> "dial", peer |-> p]
    BY <1>21 DEF Establish
  <2> QED BY <1>0, <2>1, AcquireOutboundState
<1>22. ASSUME NEW p \in Peers, Close(p) PROVE NoStuckHandshake'
  BY <1>0, <1>22, ReleaseOutboundState DEF Close
<1>23. ASSUME NEW S, LetGo(S) PROVE NoStuckHandshake'
  BY <1>23 DEF LetGo
<1>24. ASSUME NEW p \in Peers, RetireEntry(p) PROVE NoStuckHandshake'
  BY <1>0, <1>24, RetireState DEF RetireEntry
<1> QED
  BY <1>1, <1>4, <1>5, <1>6, <1>7, <1>8, <1>9, <1>10, <1>11, <1>12, <1>13, <1>14, <1>15, <1>16,
     <1>17, <1>18, <1>19, <1>20, <1>21, <1>22, <1>23, <1>24
     DEF Next, AcceptStep, SessionStep, GovernorStep, Forget, RetireFailed

(***************************************************************************)
(* However dial, accept, cleanup and timeouts of one peer interleave, an   *)
(* entry that waits for a connect or a handshake has a task behind it, so  *)
(* no peer is shut out for good by a reservation nobody will settle.       *)
(***************************************************************************)
THEOREM HandshakesSettle == Spec => []NoStuckHandshake
<1>1. Init => NoStuckHandshake
  BY DEF Init, NoStuckHandshake, AbstractStateOf
<1> QED
  BY <1>1, InitTypeInv, NextTypeInv, StuckStep, PTL DEF Spec

-----------------------------------------------------------------------------
(* What is counted as in use exists; the inbound governor forgets. *)

SameSessions == \A k \in Sessions : sess'[k].peer = sess[k].peer /\ sess'[k].pc = sess[k].pc

(***************************************************************************)
(* InUseIsBacked alone is not inductive: an admission that is refused must *)
(* not have been the only thing behind an entry, so an entry is backed by  *)
(* an admission only once it was negotiated; the dial must hold its        *)
(* connection in the peer manager before the entry says so, and the one it *)
(* drops when the entry was taken must not be an earlier one.              *)
(***************************************************************************)
Backing ==
    /\ \A p \in Peers :
        /\ AbstractStateOf(conns, p) \in {"inIdleUni", "inUni"} =>
              Served(p) \/ (acc.pc = "negotiated" /\ acc.peer = p)
        /\ AbstractStateOf(conns, p) = "outUni" => p \in warm \/ GivenUp(p)
    /\ gov.pc = "dialled" => gov.peer \in warm
    /\ gov.pc \in {"dial", "dialled"} => AbstractStateOf(conns, gov.peer) # "outUni"

(* Only a session that runs is followed: one whose multiplexer is done was *)
(* unregistered in the same step.                                          *)
FollowedRuns == \A p \in DOMAIN ig : \E k \in Sessions : sess[k].peer = p /\ sess[k].pc = "run"

(* Steps that neither start nor end a session. *)
LEMMA SameServed ==
    ASSUME SameSessions
    PROVE  /\ \A p : Served(p)' <=> Served(p)
           /\ DOMAIN ig' \subseteq DOMAIN ig /\ FollowedRuns => FollowedRuns'
BY DEF SameSessions, Served, FollowedRuns

(* Where the sessions stand after each step that moves one. *)
LEMMA SessionMoves ==
    ASSUME TypeInv, NEW k \in Sessions
    PROVE  /\ MuxFinished(k) \/ Cleanup(k) =>
                \A j \in Sessions : /\ sess'[j].peer = sess[j].peer
                                    /\ j # k => sess'[j].pc = sess[j].pc
           /\ MuxFinished(k) => sess'[k].pc = "mux"
           /\ Cleanup(k) => sess'[k].pc = "cleaned"
           /\ Finish(k) => sess[k].pc = "cleaned" /\ \A j \in Sessions : j # k => sess'[j] = sess[j]
<1>1. sess \in [Sessions -> SessionTypes]
  BY TypeParts DEF SessOK
<1>2. ASSUME MuxFinished(k)
      PROVE  /\ \A j \in Sessions : /\ sess'[j].peer = sess[j].peer
                                    /\ j # k => sess'[j].pc = sess[j].pc
             /\ sess'[k].pc = "mux"
  BY <1>1, <1>2 DEF MuxFinished, SessionTypes
<1>3. ASSUME Cleanup(k)
      PROVE  /\ \A j \in Sessions : /\ sess'[j].peer = sess[j].peer
                                    /\ j # k => sess'[j].pc = sess[j].pc
             /\ sess'[k].pc = "cleaned"
  <2>1. PICK S : sess' = [ClosedSessions(S) EXCEPT ![k].pc = "cleaned"]
    BY <1>3 DEF Cleanup
  <2> DEFINE f == ClosedSessions(S)
  <2>2. /\ f \in [Sessions -> SessionTypes]
        /\ \A j \in Sessions : f[j].peer = sess[j].peer /\ f[j].pc = sess[j].pc
    BY ClosedType DEF SessOK
  <2> HIDE DEF f
  <2>3. sess' = [f EXCEPT ![k].pc = "cleaned"]
    BY <2>1 DEF f
  <2> QED BY <2>2, <2>3 DEF SessionTypes
<1>4. ASSUME Finish(k)
      PROVE  sess[k].pc = "cleaned" /\ \A j \in Sessions : j # k => sess'[j] = sess[j]
  BY <1>1, <1>4 DEF Finish
<1> QED
  BY <1>2, <1>3, <1>4

(* Which steps those are. *)
LEMMA SessionsStay ==
    ASSUME TypeInv
    PROVE  /\ UNCHANGED sess => SameSessions
           /\ \A S : AbortSessions(S) => SameSessions
           /\ \A k \in Sessions, r \in Responders :
                 Start(k, r) \/ End(k, r) \/ Report(k, r) => SameSessions
           /\ \A k \in Sessions : RemoteCloses(k) => SameSessions
<1> USE DEF SameSessions
<1>1. sess \in [Sessions -> SessionTypes]
  BY TypeParts DEF SessOK
<1>2. ASSUME NEW S, AbortSessions(S) PROVE SameSessions
  BY <1>2, ClosedType DEF AbortSessions
<1>3. ASSUME NEW k \in Sessions, NEW r \in Responders, NEW d, Count(k, r, d)
      PROVE  SameSessions
  BY <1>1, <1>3 DEF Count, SessionTypes
<1>4. ASSUME NEW k \in Sessions, NEW r \in Responders, Start(k, r) \/ End(k, r) \/ Report(k, r)
      PROVE  SameSessions
  BY <1>3, <1>4, ReportCases DEF Start, End
<1>5. ASSUME NEW k \in Sessions, RemoteCloses(k) PROVE SameSessions
  BY <1>1, <1>5 DEF RemoteCloses, SessionTypes
<1> QED
  BY <1>2, <1>4, <1>5

(* A session that starts takes a free record. *)
LEMMA NewSession ==
    ASSUME TypeInv, StartSession
    PROVE  \E k \in Sessions :
              /\ sess[k].pc = "none"
              /\ sess'[k].pc = "run" /\ sess'[k].peer = acc.peer
              /\ \A j \in Sessions : j # k => sess'[j] = sess[j]
<1>1. sess \in [Sessions -> SessionTypes]
  BY TypeParts DEF SessOK
<1>2. PICK k \in Sessions :
         /\ sess[k].pc = "none"
         /\ sess' = [sess EXCEPT ![k] = [NoSession EXCEPT !.peer = acc.peer,
                                                          !.pc = "run", !.open = TRUE]]
  BY DEF StartSession
<1> QED
  BY <1>1, <1>2 DEF NoSession

(* Every step keeps FollowedRuns. *)
LEMMA FollowedStep == TypeInv /\ FollowedRuns /\ [Next]_vars => FollowedRuns'
<1> SUFFICES ASSUME TypeInv, FollowedRuns, [Next]_vars PROVE FollowedRuns'
  OBVIOUS
<1> USE SessionsStay, SameServed
<1>0. IgOK(ig)
  BY TypeParts
<1>1. CASE UNCHANGED vars
  BY <1>1 DEF vars
<1>2. CASE HandshakeFails \/ Include \/ Negotiated \/ \E p \in Peers, df \in Flow : Accept(p, df)
  BY <1>2 DEF HandshakeFails, Include, Negotiated, Accept
<1>3. ASSUME NEW X \in SUBSET Peers, InboundTick(X) \/ InactivityTick(X) \/ GovernorTick(X)
      PROVE  FollowedRuns'
  BY <1>3 DEF InboundTick, InactivityTick, GovernorTick
<1>4. ASSUME NEW p \in Peers, ReleaseIdle(p) PROVE FollowedRuns'
  BY <1>4 DEF ReleaseIdle
<1>5. CASE CommitIdle
  <2>1. DOMAIN ig' \subseteq DOMAIN ig
    <3>1. CASE acc.res = "commit"
      <4>1. ig' = Unregister(ig, acc.peer)
        BY <1>5, <3>1 DEF CommitIdle, ApplyCommit
      <4> QED BY <1>0, <4>1, UnregisterType
    <3>2. CASE acc.res # "commit"
      BY <1>0, <1>5, <3>2 DEF CommitIdle, ApplyCommit, IgOK
    <3> QED BY <3>1, <3>2
  <2> QED BY <1>5, <2>1 DEF CommitIdle
<1>6. CASE StartSession
  <2>1. DOMAIN ig' \subseteq DOMAIN ig \cup {acc.peer}
    BY <1>6 DEF StartSession, NewConnection
  <2> QED BY <1>6, <2>1, NewSession DEF FollowedRuns
<1>7. ASSUME NEW k \in Sessions, NEW r \in Responders, Start(k, r) \/ End(k, r)
      PROVE  FollowedRuns'
  BY <1>7 DEF Start, End
<1>8. ASSUME NEW k \in Sessions, NEW r \in Responders, Report(k, r) PROVE FollowedRuns'
  <2>1. DOMAIN ig' = DOMAIN ig
    BY <1>8, ReportCases
  <2> QED BY <1>8, <2>1
<1>9. ASSUME NEW k \in Sessions, RemoteCloses(k) PROVE FollowedRuns'
  BY <1>9 DEF RemoteCloses
<1>10. ASSUME NEW k \in Sessions, MuxFinished(k) PROVE FollowedRuns'
  <2>1. DOMAIN ig' = DOMAIN ig \ {sess[k].peer}
    BY <1>0, <1>10, UnregisterType DEF MuxFinished
  <2> QED BY <1>10, <2>1, SessionMoves DEF FollowedRuns
<1>11. ASSUME NEW k \in Sessions, Cleanup(k) \/ Finish(k) PROVE FollowedRuns'
  <2>1. ig' = ig /\ sess[k].pc # "run"
    BY <1>11 DEF Cleanup, Finish
  <2> QED BY <1>11, <2>1, SessionMoves DEF FollowedRuns
<1>12. CASE GovernorStep
  BY <1>12 DEF GovernorStep, DialFails, DialNegotiated, UpdateStatus, RetireEntry
<1>13. ASSUME NEW df \in Flow, DialSucceeds(df) PROVE FollowedRuns'
  BY <1>13 DEF DialSucceeds
<1>14. ASSUME NEW p \in Peers, Establish(p) \/ Close(p) PROVE FollowedRuns'
  BY <1>14 DEF Establish, Close
<1>15. ASSUME NEW S, LetGo(S) PROVE FollowedRuns'
  BY <1>15 DEF LetGo
<1> QED
  BY <1>1, <1>2, <1>3, <1>4, <1>5, <1>6, <1>7, <1>8, <1>9, <1>10, <1>11, <1>12, <1>13, <1>14,
     <1>15
     DEF Next, AcceptStep, SessionStep, Forget, RetireFailed

(***************************************************************************)
(* The inbound governor tracks no finished connection: no report of a late *)
(* responder, idle release or second session of the peer puts back or      *)
(* leaves an entry whose session has ended.                                *)
(***************************************************************************)
THEOREM GovernorForgetsAlways == Spec => []GovernorForgets
<1>1. Init => FollowedRuns
  BY DEF Init, FollowedRuns
<1>2. FollowedRuns => GovernorForgets
  BY DEF FollowedRuns, GovernorForgets, Served
<1> QED
  BY <1>1, <1>2, InitTypeInv, NextTypeInv, FollowedStep, PTL DEF Spec

(* Every step keeps Backing. *)
LEMMA BackingStep == TypeInv /\ Backing /\ [Next]_vars => Backing'
<1> SUFFICES ASSUME TypeInv, Backing, [Next]_vars PROVE Backing'
  OBVIOUS
<1> USE SessionsStay, SameServed DEF Backing, GivenUp
<1>0. ConnMap(conns)
  BY TypeParts
<1>1. CASE UNCHANGED vars
  BY <1>1 DEF vars
<1>2. CASE HandshakeFails \/ \E p \in Peers, df \in Flow : Accept(p, df)
  BY <1>2 DEF HandshakeFails, Accept, outbound
<1>3. CASE Include
  <2>1. acc.peer \in Peers
    BY <1>3, AtPeer DEF Include
  <2>2. /\ conns' = IncludeInbound(conns, acc.peer).conns
        /\ acc.pc = "handshake" /\ SameSessions /\ UNCHANGED <<warm, gov>>
    BY <1>3 DEF Include, outbound
  <2> QED BY <1>0, <2>1, <2>2, IncludeInboundState
<1>4. CASE Negotiated
  <2>1. acc.peer \in Peers /\ acc \in [pc : {"included"}, peer : Peers, flow : Flow]
    BY <1>4 DEF Negotiated, TypeInv, TypeOK, AccStates
  <2>2. /\ conns' = InboundHandshakeDone(conns, acc.peer, acc.flow)
        /\ acc.pc = "included" /\ SameSessions /\ UNCHANGED <<warm, gov>>
        /\ AbstractStateOf(conns, acc.peer) = "unnegIn" =>
              acc'.pc = "negotiated" /\ acc'.peer = acc.peer
    BY <1>4, <2>1 DEF Negotiated, InboundHandshakeOk, outbound
  <2> QED BY <1>0, <2>1, <2>2, InboundHandshakeState
<1>5. CASE StartSession
  <2>1. PICK k \in Sessions :
           /\ sess[k].pc = "none"
           /\ sess'[k].pc = "run" /\ sess'[k].peer = acc.peer
           /\ \A j \in Sessions : j # k => sess'[j] = sess[j]
    BY <1>5, NewSession
  <2>2. \A p \in Peers : Served(p) \/ p = acc.peer => Served(p)'
    BY <2>1 DEF Served
  <2> QED BY <1>5, <2>2 DEF StartSession, outbound
<1>6. ASSUME NEW X \in SUBSET Peers, InboundTick(X) \/ GovernorTick(X) PROVE Backing'
  BY <1>0, <1>6, TimeoutTickState DEF InboundTick, GovernorTick, outbound
<1>7. ASSUME NEW X \in SUBSET Peers, InactivityTick(X) PROVE Backing'
  BY <1>7 DEF InactivityTick, outbound
<1>8. ASSUME NEW p \in Peers, ReleaseIdle(p) PROVE Backing'
  <2>1. /\ conns' = ReleaseInbound(conns, p).conns /\ acc.pc = "release"
        /\ SameSessions /\ UNCHANGED <<warm, gov>>
    BY <1>8 DEF ReleaseIdle, outbound
  <2> QED BY <1>0, <2>1, ReleaseInboundState
<1>9. CASE CommitIdle
  BY <1>9 DEF CommitIdle, outbound
<1>10. ASSUME NEW k \in Sessions, NEW r \in Responders, Start(k, r) \/ End(k, r)
       PROVE  Backing'
  BY <1>10 DEF Start, End, outbound
<1>11. ASSUME NEW k \in Sessions, NEW r \in Responders, Report(k, r) PROVE Backing'
  <2> DEFINE p == sess[k].peer
  <2>1. /\ conns' \in {conns, PromotedToWarmRemote(conns, p).conns, DemotedToColdRemote(conns, p)}
        /\ SameSessions /\ UNCHANGED <<acc, gov, warm>>
    BY <1>11, ReportCases DEF outbound
  <2>2. /\ \A q : AbstractStateOf(conns', q) \in {"inIdleUni", "inUni"} =>
                  AbstractStateOf(conns, q) \in {"inIdleUni", "inUni"}
        /\ \A q : AbstractStateOf(conns', q) = "outUni" => AbstractStateOf(conns, q) = "outUni"
    BY <1>0, <2>1, PromotedState, DemotedState
  <2> QED BY <2>1, <2>2
<1>12. ASSUME NEW k \in Sessions, RemoteCloses(k) PROVE Backing'
  BY <1>12 DEF RemoteCloses, outbound
<1>13. ASSUME NEW k \in Sessions, MuxFinished(k) PROVE Backing'
  <2>1. \A p \in Peers : Served(p) => Served(p)'
    BY <1>13, SessionMoves DEF Served
  <2> QED BY <1>13, <2>1 DEF MuxFinished, outbound
<1>14. ASSUME NEW k \in Sessions, Cleanup(k) PROVE Backing'
  <2> DEFINE p == sess[k].peer
  <2>1. conns' = Retire(ReleaseInbound(conns, p).conns, p) /\ UNCHANGED <<acc, warm, gov>>
    BY <1>14 DEF Cleanup, outbound
  <2>2. /\ AbstractStateOf(conns', p) = "unknown"
        /\ \A q : q # p => AbstractStateOf(conns', q) = AbstractStateOf(conns, q)
    BY <1>0, <2>1, ReleaseInboundState, RetireState
  <2>3. \A q \in Peers : q # p /\ Served(q) => Served(q)'
    BY <1>14, SessionMoves DEF Served
  <2> QED BY <2>1, <2>2, <2>3
<1>15. ASSUME NEW k \in Sessions, Finish(k) PROVE Backing'
  <2>1. \A q \in Peers : Served(q) => Served(q)'
    BY <1>15, SessionMoves DEF Served
  <2> QED BY <1>15, <2>1 DEF Finish, outbound
<1>16. CASE DialFails
  BY <1>0, <1>16, OutboundFailedState DEF DialFails
<1>17. CASE DialNegotiated
  <2>1. CASE OutboundHandshakeOk(conns, gov.peer)
    <3>1. /\ conns' = OutboundHandshakeDone(conns, gov.peer, gov.flow)
          /\ gov.peer \in warm /\ SameSessions /\ UNCHANGED <<acc, warm>>
          /\ gov.pc = "dialled" /\ gov'.pc = "status"
      BY <1>17, <2>1 DEF DialNegotiated
    <3> QED BY <1>0, <3>1, <2>1, OutboundHandshakeState
  <2>2. CASE ~OutboundHandshakeOk(conns, gov.peer)
    <3>1. /\ warm' = warm \ {gov.peer} /\ SameSessions /\ UNCHANGED <<acc, conns>>
          /\ gov.pc = "dialled" /\ gov'.pc = "dropped"
      BY <1>17, <2>2 DEF DialNegotiated
    <3> QED BY <3>1
  <2> QED BY <2>1, <2>2
<1>18. CASE UpdateStatus
  BY <1>18 DEF UpdateStatus
<1>19. ASSUME NEW df \in Flow, DialSucceeds(df) PROVE Backing'
  BY <1>19 DEF DialSucceeds
<1>20. ASSUME NEW p \in Peers, Establish(p) PROVE Backing'
  <2> DEFINE r == AcquireOutbound(conns, p)
  <2>1. /\ conns' = r.conns /\ warm' = warm \ r.prune
        /\ SameSessions /\ UNCHANGED acc /\ gov.pc = "idle"
        /\ r.res = "dial" => gov'.pc = "dial" /\ gov'.peer = p
        /\ r.res # "dial" => gov'.pc \in {"status", "idle"}
    BY <1>20 DEF Establish, CloseOutbound
  <2> QED BY <1>0, <2>1, AcquireOutboundState DEF InIdle
<1>21. ASSUME NEW p \in Peers, Close(p) PROVE Backing'
  <2> DEFINE r == ReleaseOutbound(conns, p)
  <2>1. /\ conns' = r.conns /\ \A q \in warm \ r.prune : q # p => q \in warm'
        /\ gov.pc = "idle" /\ gov'.pc \in {"idle", "status"} /\ SameSessions /\ UNCHANGED acc
    BY <1>21 DEF Close, CloseOutbound
  <2> QED BY <1>0, <2>1, ReleaseOutboundState DEF InIdle
<1>22. ASSUME NEW S \in SUBSET Peers, LetGo(S) PROVE Backing'
  <2>1. /\ gov.pc = "idle" /\ warm' = warm \ S /\ gov' = [pc |-> "retire", peers |-> S]
        /\ SameSessions /\ UNCHANGED <<conns, acc>>
    BY <1>22 DEF LetGo
  <2> QED BY <2>1
<1>23. ASSUME NEW p \in Peers, RetireEntry(p) PROVE Backing'
  <2>1. gov \in [pc : {"retire"}, peers : SUBSET Peers] /\ p \in gov.peers
    BY <1>23 DEF RetireEntry, TypeInv, TypeOK, GovStates
  <2>2. /\ conns' = Retire(conns, p) /\ SameSessions /\ UNCHANGED <<warm, acc>>
        /\ gov'.pc \in {"idle", "retire"}
        /\ \A q \in gov.peers : q # p => gov'.pc = "retire" /\ q \in gov'.peers
    BY <1>23, <2>1 DEF RetireEntry
  <2>3. \A q \in Peers : q # p /\ GivenUp(q) => GivenUp(q)'
    BY <2>2
  <2> QED BY <1>0, <2>2, <2>3, RetireState
<1> QED
  BY <1>1, <1>2, <1>3, <1>4, <1>5, <1>6, <1>7, <1>8, <1>9, <1>10, <1>11, <1>12, <1>13, <1>14,
     <1>15, <1>16, <1>17, <1>18, <1>19, <1>20, <1>21, <1>22, <1>23
     DEF Next, AcceptStep, SessionStep, GovernorStep, Forget, RetireFailed

(***************************************************************************)
(* A unidirectional connection the manager holds an entry for exists:      *)
(* inbound, it is being admitted or its session has not ended; outbound,   *)
(* the peer manager holds it, or let go of it and the governor is between  *)
(* that and taking the entry down.                                         *)
(***************************************************************************)
THEOREM InUseIsBackedAlways == Spec => []InUseIsBacked
<1>1. Init => Backing
  BY DEF Init, Backing, AbstractStateOf
<1>2. Backing => InUseIsBacked
  BY DEF Backing, InUseIsBacked, Admitting
<1> QED
  BY <1>1, <1>2, InitTypeInv, NextTypeInv, BackingStep, PTL DEF Spec

-----------------------------------------------------------------------------
(* The accept loop and the node's own use of a connection. *)

LEMMA LocalUseStep ==
    ASSUME TypeInv,
           RemoteSideStep,
           NEW p \in Peers, LocalUse(p)
    PROVE  LocalUse(p)'
<1> USE DEF LocalUse
<1>0. ConnMap(conns)
  BY TypeParts
<1>1. CASE Include
  <2>1. acc.peer \in Peers /\ conns' = IncludeInbound(conns, acc.peer).conns
    BY <1>1, AtPeer DEF Include
  <2> QED BY <1>0, <2>1, IncludeInboundState DEF InIdle
<1>2. CASE Negotiated
  BY <1>0, <1>2, InboundHandshakeState DEF Negotiated
<1>3. ASSUME NEW q \in Peers, ReleaseIdle(q) PROVE LocalUse(p)'
  <2>1. conns' = ReleaseInbound(conns, q).conns
    BY <1>3 DEF ReleaseIdle
  <2> QED BY <1>0, <2>1, ReleaseInboundState DEF InIdle
<1>4. ASSUME NEW X \in SUBSET Peers, InboundTick(X) PROVE LocalUse(p)'
  BY <1>0, <1>4, TimeoutTickState DEF InboundTick
<1>5. ASSUME NEW k \in Sessions, NEW r \in Responders, Report(k, r) PROVE LocalUse(p)'
  <2> DEFINE q == sess[k].peer
  <2>1. conns' \in {conns, PromotedToWarmRemote(conns, q).conns, DemotedToColdRemote(conns, q)}
    BY <1>5, ReportCases
  <2> QED BY <1>0, <2>1, PromotedState, DemotedState
<1> QED
  BY <1>1, <1>2, <1>3, <1>4, <1>5 DEF RemoteSideStep

(***************************************************************************)
(* What the local side uses it keeps: neither the release of a connection  *)
(* found idle before it was reused, nor a tick, a new connection or a      *)
(* responder's report, however late, takes it out of the states of local   *)
(* use.                                                                    *)
(***************************************************************************)
THEOREM LocalUseIsKept == Spec => LocalUseKept
<1>1. TypeInv /\ [Next]_vars =>
        [\A p \in Peers : LocalUse(p) /\ ~LocalUse(p)' => ~RemoteSideStep]_vars
  BY LocalUseStep
<1> QED
  BY <1>1, InitTypeInv, NextTypeInv, PTL DEF Spec, LocalUseKept
=============================================================================
