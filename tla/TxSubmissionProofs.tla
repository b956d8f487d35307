------------------------- MODULE TxSubmissionProofs -------------------------
(***************************************************************************)
(* Proofs about TxSubmission.  The bytes in flight of a peer are the sizes *)
(* of its transactions in flight, and the total of TxState is their sum;   *)
(* what a session has in flight follows from where its server is.          *)
(***************************************************************************)
EXTENDS TxSubmission, InductionLemmas, SequenceTheorems

(* What is known of one session at each point of the server's loop.        *)

(* After a round that deferred nothing, all that is outstanding will be    *)
(* acknowledged.                                                           *)
Settled(s, c) == s.deferred = 0 => s.ack = Len(c.out)

(* What was offered is new to the session, and all of it may be asked for. *)
Offered(c) ==
    /\ IsInjective(c.out) /\ Len(c.out) <= BatchSize
    /\ c.requestable = ToSet(c.out)

(* A choice the server may ask for. *)
Within(s, c) == IsInjective(s) /\ ToSet(s) \subseteq c.requestable

(* What is asked for fits in a budget, or is one transaction and others of *)
(* no size.                                                                *)
FitsIn(s, b) ==
    \/ SizeOf(ToSet(s)) <= b
    \/ \E t \in ToSet(s) : \A o \in ToSet(s) \ {t} : Size[o] = 0

Fits(s) == FitsIn(s, PeerBytes)

Asking(s, w) == w \in [type : {"RequestTxIds"}, ack : {s.ack}, req : 1 .. BatchSize]
Answering(c, w) == w = [type |-> "ReplyTxIds", txids |-> c.out]

AtOff(s, c, w) == s = Off /\ c.st = "off" /\ w = <<>>
AtAsk(s, c, w) == c.st = "idle" /\ w = <<>> /\ Settled(s, c)
AtIds(s, c, w) ==
    \/ /\ Asking(s, w) /\ Settled(s, c)
       /\ c.st = "idle" \/ (c.st = "error" /\ s.deferred > 0)
    \/ w = [type |-> "Done"] /\ c.st = "idle"
    \/ Answering(c, w) /\ c.st = "idle" /\ Offered(c)
AtFilter(s, c, w) == c.st = "idle" /\ w = <<>> /\ s.adv = c.out /\ Offered(c)
AtBudget(s, c, w) ==
    /\ AtFilter(s, c, w)
    /\ s.fetch # <<>> /\ Within(s.fetch, c) /\ Len(s.fetch) <= Len(s.adv)
AtMark(s, c, w) ==
    /\ AtBudget(s, c, w)
    /\ s.take # <<>> /\ Within(s.take, c) /\ Fits(s.take)
    /\ s.deferred = Len(s.fetch) - Len(s.take)
AtTxs(s, c, w) ==
    /\ c.st = "idle" /\ Settled(s, c) /\ Fits(s.take) /\ s.take # <<>>
    /\ \/ w = [type |-> "RequestTxs", txids |-> s.take] /\ Within(s.take, c)
       \/ w \in [type : {"ReplyTxs"}, txs : Seq(Txs)]
AtConsume(s, c, w) == c.st = "idle" /\ w = <<>> /\ Settled(s, c)

SessionOK(s, c, w) ==
    /\ s.pc = "off" => AtOff(s, c, w)
    /\ s.pc = "ask" => AtAsk(s, c, w)
    /\ s.pc = "ids" => AtIds(s, c, w)
    /\ s.pc = "filter" => AtFilter(s, c, w)
    /\ s.pc = "budget" => AtBudget(s, c, w)
    /\ s.pc = "mark" => AtMark(s, c, w)
    /\ s.pc = "txs" => AtTxs(s, c, w)
    /\ s.pc = "consume" => AtConsume(s, c, w)

(* The peer's mempool holds a transaction once. *)
PoolOK(c) == \A i, j \in 1 .. Len(c.pool) : c.pool[i].tx = c.pool[j].tx => i = j

(* OnlyAbortsOrphan, of any shared state, aborted sessions and servers. *)
Orphans(u, a, s) ==
    /\ a \subseteq Peers
    /\ Registered(u) = a \cup {p \in Peers : s[p].pc # "off"}
    /\ \A p \in Registered(u) \ a :
          u.peers[p].inflight # {} => /\ s[p].pc = "txs"
                                      /\ u.peers[p].inflight \subseteq ToSet(s[p].take)
    /\ u.global \subseteq UNION {u.peers[p].inflight : p \in Registered(u)}

(* The part of FetchesAccounted that is about the shared state alone. *)
TxStateOK(u) == u \in TxStates(Registered(u)) /\ Registered(u) \in SUBSET Peers

PeersBytes(u) == [p \in Registered(u) |-> u.peers[p].bytes]

Accounted(u) ==
    /\ \A p \in Registered(u) : u.peers[p].bytes = SizeOf(u.peers[p].inflight)
    /\ u.total = SumFunction(PeersBytes(u))

(* The inductive invariant: the shared state, the servers, the clients and *)
(* the wires; then the rest.                                               *)
Good(u, a, s, c, w) ==
    /\ TxStateOK(u) /\ Accounted(u) /\ Orphans(u, a, s)
    /\ s \in [Peers -> ServerStates] /\ c \in [Peers -> ClientStates]
    /\ w = [p \in Peers |-> w[p]]
    /\ \A p \in Peers : SessionOK(s[p], c[p], w[p]) /\ PoolOK(c[p])

Rest ==
    /\ pool \in SUBSET Txs /\ onchain \in SUBSET Txs
    /\ opens \in 0 .. MaxOpens /\ changes \in 0 .. MaxChanges

IInv == Good(ts, aborted, srv, cli, wire) /\ Rest

-----------------------------------------------------------------------------
(* The shared state. *)

LEMMA MaxTwo ==
    ASSUME NEW a \in Int, NEW b \in Int
    PROVE  Max({a, b}) = IF a >= b THEN a ELSE b
<1> DEFINE m == IF a >= b THEN a ELSE b
<1>1. m \in {a, b} /\ \A y \in {a, b} : m >= y
  OBVIOUS
<1>2. \A x \in {a, b} : (\A y \in {a, b} : x >= y) => x = m
  OBVIOUS
<1> HIDE DEF m
<1>3. Max({a, b}) = m
  BY <1>1, <1>2 DEF Max
<1> QED BY <1>3 DEF m

(* The smaller of two numbers. *)
LEMMA MinTwo ==
    ASSUME NEW a \in Int, NEW b \in Int
    PROVE  Min({a, b}) = IF a <= b THEN a ELSE b
<1> DEFINE m == IF a <= b THEN a ELSE b
<1>1. m \in {a, b} /\ \A y \in {a, b} : m <= y
  OBVIOUS
<1>2. \A x \in {a, b} : (\A y \in {a, b} : x <= y) => x = m
  OBVIOUS
<1> HIDE DEF m
<1>3. Min({a, b}) = m
  BY <1>1, <1>2 DEF Min
<1> QED BY <1>3 DEF m

(* A saturating subtraction that does not saturate. *)
LEMMA Subtracts ==
    ASSUME NEW a \in Nat, NEW b \in Nat, b <= a
    PROVE  Max({0, a - b}) = a - b /\ a - b \in Nat
<1>1. a - b \in Nat
  OBVIOUS
<1> QED BY <1>1, MaxTwo

(* The greatest of finitely many positions. *)
LEMMA MaxExists ==
    ASSUME NEW n \in Nat, NEW S \in SUBSET (1 .. n), S # {}
    PROVE  Max(S) \in S /\ \A y \in S : Max(S) >= y
<1> DEFINE T == {k \in Nat : \A y \in S : k >= y}
<1>1. T \in SUBSET Nat /\ n \in T
  OBVIOUS
<1>2. PICK m \in T : \A k \in T : m <= k
  <2> HIDE DEF T
  <2> QED BY <1>1, LeastExists
<1>3. m \in S
  <2> SUFFICES ASSUME m \notin S PROVE FALSE
    OBVIOUS
  <2>1. \A y \in S : m - 1 >= y /\ y \in 1 .. n
    BY <1>2
  <2>2. m - 1 \in Nat
    <3>1. PICK y \in S : TRUE
      OBVIOUS
    <3>2. y \in 1 .. n /\ m - 1 >= y /\ m \in Nat
      BY <2>1, <1>2
    <3> QED BY <3>2
  <2>3. m - 1 \in T
    BY <2>1, <2>2
  <2> QED BY <1>2, <2>3
<1>4. \A y \in S : m >= y
  BY <1>2
<1> QED BY <1>3, <1>4 DEF Max

(* A set of transactions is finite and has a size. *)
LEMMA SizeType == ASSUME NEW S \in SUBSET Txs PROVE SizeOf(S) \in Nat /\ IsFiniteSet(S)
<1>1. IsFiniteSet(S)
  BY TxStateAssumption, FS_Subset
<1>2. \A t \in S : Size[t] \in Nat
  BY TxStateAssumption
<1> QED BY <1>1, <1>2, SumType DEF SizeOf

(* The size of a set is that of two parts of it. *)
LEMMA SizeSplits ==
    ASSUME NEW S \in SUBSET Txs, NEW T \in SUBSET S
    PROVE  /\ SizeOf(S) = SizeOf(T) + SizeOf(S \ T)
           /\ SizeOf(T) \in Nat /\ SizeOf(S) \in Nat /\ SizeOf(S \ T) \in Nat
<1>1. IsFiniteSet(S)
  BY SizeType
<1>2. \A t \in S : Size[t] \in Nat
  BY TxStateAssumption
<1>3. T \in SUBSET Txs /\ S \ T \in SUBSET Txs
  OBVIOUS
<1> QED BY <1>1, <1>2, <1>3, SumSplit, SizeType DEF SizeOf

(* Transactions of no size have none together. *)
LEMMA NoSize == ASSUME NEW S \in SUBSET Txs, \A t \in S : Size[t] = 0 PROVE SizeOf(S) = 0
<1> DEFINE U == {T \in SUBSET S : SizeOf(T) = 0}
<1>1. IsFiniteSet(S)
  BY SizeType
<1>2. {} \in U
  BY SumEmpty DEF SizeOf
<1>3. ASSUME NEW T \in SUBSET S, NEW t \in S, T \in U PROVE T \cup {t} \in U
  <2> DEFINE W == T \cup {t}
  <2>1. W \in SUBSET Txs /\ T \in SUBSET W /\ SizeOf(T) = 0 /\ T \cup {t} \in SUBSET S
    BY <1>3
  <2>2. CASE t \in T
    <3>1. W = T
      BY <2>2
    <3> QED BY <2>1, <3>1
  <2>3. CASE t \notin T
    <3>1. W \ {t} = T /\ t \in W
      BY <2>3
    <3>2. IsFiniteSet(W) /\ \A x \in W : Size[x] \in Nat
      BY <2>1, SizeType, TxStateAssumption
    <3> HIDE DEF W
    <3>3. SizeOf(W) = Size[t] + SizeOf(T)
      BY <3>1, <3>2, SumRemove DEF SizeOf
    <3> QED BY <2>1, <3>3 DEF W
  <2> QED BY <2>2, <2>3
<1>4. S \in U
  <2> HIDE DEF U
  <2> QED BY <1>1, <1>2, <1>3, FiniteInductionOnSet
<1> QED BY <1>4

(* One transaction and the others. *)
LEMMA SizeOfMore ==
    ASSUME NEW S \in SUBSET Txs, NEW t \in S
    PROVE  /\ SizeOf(S) = Size[t] + SizeOf(S \ {t})
           /\ SizeOf(S) \in Nat /\ SizeOf(S \ {t}) \in Nat /\ Size[t] \in Nat
<1>1. IsFiniteSet(S) /\ SizeOf(S) \in Nat
  BY SizeType
<1>2. \A x \in S : Size[x] \in Nat
  BY TxStateAssumption
<1>3. S \ {t} \in SUBSET Txs
  OBVIOUS
<1>4. SizeOf(S \ {t}) \in Nat
  BY <1>3, SizeType
<1> QED BY <1>1, <1>2, <1>4, SumRemove DEF SizeOf

(* The fields of a well-formed shared state. *)
LEMMA TxStateParts ==
    ASSUME NEW u, TxStateOK(u)
    PROVE  /\ u = [known |-> u.known, global |-> u.global, total |-> u.total, peers |-> u.peers]
           /\ u.known \in Seq(Txs) /\ Len(u.known) <= KnownCapacity
           /\ u.global \in SUBSET Txs /\ u.total \in Nat
           /\ Registered(u) \in SUBSET Peers /\ IsFiniteSet(Registered(u))
           /\ u.peers \in [Registered(u) -> PeerStates]
           /\ \A p \in Registered(u) :
                 /\ u.peers[p] = [unack |-> u.peers[p].unack, inflight |-> u.peers[p].inflight,
                                  bytes |-> u.peers[p].bytes]
                 /\ u.peers[p].unack \in SUBSET Txs /\ u.peers[p].inflight \in SUBSET Txs
                 /\ u.peers[p].bytes \in Nat
<1>1. u \in TxStates(Registered(u)) /\ Registered(u) \in SUBSET Peers
  BY DEF TxStateOK
<1>2. IsFiniteSet(Registered(u))
  BY <1>1, TxStateAssumption, FS_Subset
<1>3. u.peers \in [Registered(u) -> PeerStates]
  BY <1>1 DEF TxStates
<1>4. \A p \in Registered(u) : u.peers[p] \in PeerStates
  BY <1>3
<1>5. \A p \in Registered(u) :
         /\ u.peers[p] = [unack |-> u.peers[p].unack, inflight |-> u.peers[p].inflight,
                          bytes |-> u.peers[p].bytes]
         /\ u.peers[p].unack \in SUBSET Txs /\ u.peers[p].inflight \in SUBSET Txs
         /\ u.peers[p].bytes \in Nat
  BY <1>4 DEF PeerStates
<1> QED BY <1>1, <1>2, <1>3, <1>5 DEF TxStates

(* A state from its parts. *)
State(k, g, t, P) == [known |-> k, global |-> g, total |-> t, peers |-> P]

(* Reading the fields of a state that is given by them. *)
LEMMA StateFields ==
    ASSUME NEW k, NEW g, NEW t, NEW P
    PROVE  /\ State(k, g, t, P).known = k /\ State(k, g, t, P).global = g
           /\ State(k, g, t, P).total = t /\ State(k, g, t, P).peers = P
           /\ Registered(State(k, g, t, P)) = DOMAIN P
BY DEF State, Registered

(* A state with well-formed fields is well-formed. *)
LEMMA StateOK ==
    ASSUME NEW k \in Seq(Txs), Len(k) <= KnownCapacity, NEW g \in SUBSET Txs, NEW t \in Nat,
           NEW P, DOMAIN P \in SUBSET Peers, P \in [DOMAIN P -> PeerStates]
    PROVE  TxStateOK(State(k, g, t, P))
<1> DEFINE u == State(k, g, t, P)
<1>1. Registered(u) = DOMAIN P
  BY StateFields
<1>2. k \in {x \in Seq(Txs) : Len(x) <= KnownCapacity}
  OBVIOUS
<1>3. u \in TxStates(DOMAIN P)
  BY <1>2 DEF State, TxStates
<1> QED BY <1>1, <1>3 DEF TxStateOK

(* An update of one peer and of the totals, field by field. *)
LEMMA StateExcept ==
    ASSUME NEW u, TxStateOK(u), NEW p, NEW n, NEW g, NEW t, NEW v,
           v = [u EXCEPT !.peers[p] = n, !.global = g, !.total = t]
    PROVE  v = State(u.known, g, t, [u.peers EXCEPT ![p] = n])
<1> DEFINE P == [u.peers EXCEPT ![p] = n]
           K == {x \in Seq(Txs) : Len(x) <= KnownCapacity}
           Q == [Registered(u) -> PeerStates]
<1>1. u \in [known : K, global : SUBSET Txs, total : Nat, peers : Q]
  BY DEF TxStateOK, TxStates
<1> HIDE DEF K, Q
<1>2. v = [u EXCEPT !.peers = P, !.global = g, !.total = t]
  BY <1>1
<1> HIDE DEF P
<1>3. v = [known |-> u.known, global |-> g, total |-> t, peers |-> P]
  BY <1>1, <1>2
<1> QED BY <1>3 DEF P, State

(* A peer's part from its fields. *)
Part(a, i, b) == [unack |-> a, inflight |-> i, bytes |-> b]

(* An update of the fetches of a peer, field by field. *)
LEMMA PartExcept ==
    ASSUME NEW a \in PeerStates, NEW i, NEW b, NEW v, v = [a EXCEPT !.inflight = i, !.bytes = b]
    PROVE  v = Part(a.unack, i, b)
BY DEF Part, PeerStates

(* A part with well-formed fields is well-formed. *)
LEMMA PartOK ==
    ASSUME NEW a \in SUBSET Txs, NEW i \in SUBSET Txs, NEW b \in Nat
    PROVE  /\ Part(a, i, b) \in PeerStates /\ Part(a, i, b).inflight = i
           /\ Part(a, i, b).bytes = b /\ Part(a, i, b).unack = a
BY DEF Part, PeerStates

(* The total covers every peer's bytes. *)
LEMMA TotalCovers ==
    ASSUME NEW u, TxStateOK(u), Accounted(u), NEW p \in Registered(u)
    PROVE  u.peers[p].bytes <= u.total
<1> DEFINE R == Registered(u)
<1>1. IsFiniteSet(R) /\ \A q \in R : u.peers[q].bytes \in Nat
  BY TxStateParts
<1>2. \A q \in R : PeersBytes(u)[q] = u.peers[q].bytes
  BY DEF PeersBytes
<1>3. \A q \in R : PeersBytes(u)[q] \in Nat
  BY <1>1, <1>2
<1>4. DOMAIN PeersBytes(u) = R
  BY DEF PeersBytes
<1>5. u.total = SumFunctionOnSet(PeersBytes(u), R)
  BY <1>4 DEF Accounted, SumFunction
<1>6. SumFunctionOnSet(PeersBytes(u), R)
        = PeersBytes(u)[p] + SumFunctionOnSet(PeersBytes(u), R \ {p})
  <2> HIDE DEF R
  <2> QED BY <1>1, <1>3, SumRemove DEF R
<1>7. SumFunctionOnSet(PeersBytes(u), R \ {p}) \in Nat
  <2>1. IsFiniteSet(R \ {p})
    BY <1>1, FS_Subset
  <2>2. \A q \in R \ {p} : PeersBytes(u)[q] \in Nat
    BY <1>3
  <2> QED BY <2>1, <2>2, SumType
<1>8. u.peers[p].bytes \in Nat
  BY <1>1
<1> HIDE DEF R
<1> QED BY <1>2, <1>5, <1>6, <1>7, <1>8 DEF R

(* A step that changes one peer's part keeps the accounts when the total   *)
(* moves by as much as the peer's bytes do.                                *)
LEMMA OnePeer ==
    ASSUME NEW u, TxStateOK(u), Accounted(u), NEW p \in Registered(u),
           NEW k \in Seq(Txs), Len(k) <= KnownCapacity, NEW g \in SUBSET Txs, NEW t \in Nat,
           NEW n \in PeerStates, n.bytes = SizeOf(n.inflight),
           t + u.peers[p].bytes = u.total + n.bytes
    PROVE  /\ TxStateOK(State(k, g, t, [u.peers EXCEPT ![p] = n]))
           /\ Accounted(State(k, g, t, [u.peers EXCEPT ![p] = n]))
           /\ Registered(State(k, g, t, [u.peers EXCEPT ![p] = n])) = Registered(u)
           /\ State(k, g, t, [u.peers EXCEPT ![p] = n]).global = g
           /\ State(k, g, t, [u.peers EXCEPT ![p] = n]).peers = [u.peers EXCEPT ![p] = n]
<1> DEFINE R == Registered(u)
           P == [u.peers EXCEPT ![p] = n]
           v == State(k, g, t, P)
<1>1. R \in SUBSET Peers /\ IsFiniteSet(R) /\ u.peers \in [R -> PeerStates] /\ u.total \in Nat
  BY TxStateParts
<1>2. P \in [R -> PeerStates]
  BY <1>1
<1>3. P[p] = n /\ \A q \in R \ {p} : P[q] = u.peers[q]
  BY <1>1
<1> HIDE DEF P
<1>4. TxStateOK(v) /\ Registered(v) = R /\ v.peers = P /\ v.total = t /\ v.global = g
  <2>1. DOMAIN P = R
    BY <1>2
  <2>2. DOMAIN P \in SUBSET Peers /\ P \in [DOMAIN P -> PeerStates]
    BY <1>1, <1>2, <2>1
  <2>3. TxStateOK(v)
    BY <2>2, StateOK
  <2> QED BY <2>1, <2>3, StateFields
<1> HIDE DEF v
<1>5. \A q \in R : P[q].bytes = SizeOf(P[q].inflight)
  BY <1>3 DEF Accounted
<1>6. t = SumFunction(PeersBytes(v))
  <2> DEFINE f == PeersBytes(u)
             h == PeersBytes(v)
  <2>1. \A q \in R : f[q] = u.peers[q].bytes /\ h[q] = P[q].bytes
    BY <1>4 DEF PeersBytes
  <2>2. DOMAIN f = R /\ DOMAIN h = R
    BY <1>4 DEF PeersBytes
  <2>3. u.total = SumFunctionOnSet(f, R)
    BY <2>2 DEF Accounted, SumFunction
  <2>4. \A q \in R : u.peers[q].bytes \in Nat /\ P[q].bytes \in Nat
    BY <1>1, <1>2 DEF PeerStates
  <2> HIDE DEF f, h
  <2>5. \A q \in R : f[q] \in Nat /\ h[q] \in Nat
    BY <2>1, <2>4
  <2>6. \A q \in R \ {p} : h[q] = f[q]
    BY <2>1, <1>3
  <2>7. SumFunctionOnSet(h, R) + f[p] = SumFunctionOnSet(f, R) + h[p]
    BY <1>1, <2>5, <2>6, SumOneChanges
  <2>8. SumFunctionOnSet(h, R) \in Nat
    BY <1>1, <2>5, SumType
  <2>9. f[p] = u.peers[p].bytes /\ h[p] = n.bytes /\ f[p] \in Nat /\ h[p] \in Nat
    BY <2>1, <2>5, <1>3
  <2>10. t = SumFunctionOnSet(h, R)
    BY <2>3, <2>7, <2>8, <2>9, <1>1
  <2> QED BY <2>2, <2>10 DEF SumFunction, h
<1>7. Accounted(v)
  BY <1>4, <1>5, <1>6 DEF Accounted
<1> QED BY <1>4, <1>7 DEF v, P

(* What a step that changes the part of p leaves: p fetches I, and g is    *)
(* blocked for every peer.                                                 *)
OneStep(u, v, p, I, g) ==
    /\ TxStateOK(v) /\ Accounted(v)
    /\ Registered(v) = Registered(u)
    /\ v.peers[p].inflight = I
    /\ \A q \in Registered(u) \ {p} : v.peers[q].inflight = u.peers[q].inflight
    /\ v.global = g

(* An operation for one peer keeps the accounts if it moves the total by   *)
(* as much as the bytes of the peer.                                       *)
LEMMA OnePeerStep ==
    ASSUME NEW u, TxStateOK(u), Accounted(u), NEW p \in Registered(u),
           NEW k \in Seq(Txs), Len(k) <= KnownCapacity, NEW g \in SUBSET Txs, NEW t \in Nat,
           NEW n \in PeerStates, n.bytes = SizeOf(n.inflight),
           t + u.peers[p].bytes = u.total + n.bytes
    PROVE  OneStep(u, State(k, g, t, [u.peers EXCEPT ![p] = n]), p, n.inflight, g)
<1> DEFINE P == [u.peers EXCEPT ![p] = n]
           v == State(k, g, t, P)
<1>1. u.peers \in [Registered(u) -> PeerStates]
  BY TxStateParts
<1>2. P[p] = n /\ \A q \in Registered(u) \ {p} : P[q] = u.peers[q]
  BY <1>1
<1>3. /\ TxStateOK(v) /\ Accounted(v) /\ Registered(v) = Registered(u)
      /\ v.global = g /\ v.peers = P
  BY OnePeer
<1> HIDE DEF v, P
<1>4. OneStep(u, v, p, n.inflight, g)
  BY <1>2, <1>3 DEF OneStep
<1> QED BY <1>4 DEF v, P

(* mark_in_flight_sized counts only what was not in flight yet. *)
LEMMA MarkStep ==
    ASSUME NEW u, TxStateOK(u), Accounted(u), NEW p \in Registered(u), NEW S \in SUBSET Txs
    PROVE  OneStep(u, MarkInFlightSized(u, p, S), p, u.peers[p].inflight \cup S,
                   u.global \cup (S \ u.peers[p].inflight))
<1> DEFINE a == u.peers[p]
           new == S \ a.inflight
           N == SizeOf(new)
           n == [a EXCEPT !.inflight = a.inflight \cup new, !.bytes = a.bytes + N]
           g == u.global \cup new
           t == u.total + N
           v == MarkInFlightSized(u, p, S)
<1>1. /\ u.known \in Seq(Txs) /\ Len(u.known) <= KnownCapacity
      /\ u.global \in SUBSET Txs /\ u.total \in Nat
      /\ u.peers \in [Registered(u) -> PeerStates]
  BY TxStateParts
<1>2. a \in PeerStates /\ a.unack \in SUBSET Txs /\ a.inflight \in SUBSET Txs /\ a.bytes \in Nat
  BY <1>1 DEF PeerStates
<1>3. a.bytes = SizeOf(a.inflight)
  BY DEF Accounted
<1>4. v = [u EXCEPT !.peers[p] = n, !.global = g, !.total = t]
  BY DEF MarkInFlightSized
<1> HIDE DEF a, v
<1>5. new \in SUBSET Txs /\ a.inflight \cup new \in SUBSET Txs /\ a.inflight \cup new = a.inflight \cup S
  BY <1>2
<1>6. N \in Nat /\ t \in Nat
  BY <1>1, <1>5, SizeType
<1>7. SizeOf(a.inflight \cup new) = a.bytes + N
  <2> DEFINE W == a.inflight \cup new
  <2>1. a.inflight \in SUBSET W /\ W \ a.inflight = new /\ W \in SUBSET Txs
    BY <1>5
  <2> HIDE DEF W
  <2>2. SizeOf(W) = SizeOf(a.inflight) + SizeOf(W \ a.inflight)
    BY <2>1, SizeSplits
  <2> QED BY <1>3, <2>1, <2>2 DEF W
<1> HIDE DEF N, new
<1>8. n = Part(a.unack, a.inflight \cup new, a.bytes + N)
  <2> HIDE DEF n
  <2> QED BY <1>2, PartExcept DEF n
<1> HIDE DEF n
<1>9. a.bytes + N \in Nat
  BY <1>2, <1>6
<1>10. n \in PeerStates /\ n.inflight = a.inflight \cup new /\ n.bytes = a.bytes + N
  BY <1>2, <1>5, <1>8, <1>9, PartOK
<1>11. n.bytes = SizeOf(n.inflight)
  BY <1>7, <1>10
<1>12. g \in SUBSET Txs
  BY <1>1, <1>5
<1>13. t + u.peers[p].bytes = u.total + n.bytes
  BY <1>1, <1>2, <1>6, <1>10 DEF a
<1> HIDE DEF g, t
<1>14. v = State(u.known, g, t, [u.peers EXCEPT ![p] = n])
  BY <1>4, StateExcept
<1>15. OneStep(u, State(u.known, g, t, [u.peers EXCEPT ![p] = n]), p, n.inflight, g)
  BY <1>1, <1>6, <1>10, <1>11, <1>12, <1>13, OnePeerStep
<1>16. OneStep(u, v, p, a.inflight \cup S, g)
  BY <1>5, <1>10, <1>14, <1>15
<1> QED BY <1>16 DEF v, g, new, a

(* Settling counts down only what was in flight. *)
LEMMA SettleStep ==
    ASSUME NEW u, TxStateOK(u), Accounted(u), NEW p \in Registered(u), NEW S \in SUBSET Txs
    PROVE  /\ OneStep(u, Settle(u, p, S), p, u.peers[p].inflight \ S, u.global \ S)
           /\ Settle(u, p, S).known = u.known
<1> DEFINE a == u.peers[p]
           done == SizeOf(S \cap a.inflight)
           b == Max({0, a.bytes - done})
           n == [a EXCEPT !.inflight = a.inflight \ S, !.bytes = b, !.unack = a.unack \ S]
           g == u.global \ S
           t == Max({0, u.total - done})
           v == Settle(u, p, S)
<1>1. /\ u.known \in Seq(Txs) /\ Len(u.known) <= KnownCapacity
      /\ u.global \in SUBSET Txs /\ u.total \in Nat
      /\ u.peers \in [Registered(u) -> PeerStates]
  BY TxStateParts
<1>2. a \in PeerStates /\ a.unack \in SUBSET Txs /\ a.inflight \in SUBSET Txs /\ a.bytes \in Nat
  BY <1>1 DEF PeerStates
<1>3. a.bytes = SizeOf(a.inflight)
  BY DEF Accounted
<1>4. v = [u EXCEPT !.peers[p] = n, !.global = g, !.total = t]
  BY DEF Settle
<1>5. a.bytes <= u.total
  BY TotalCovers
<1> HIDE DEF a, v
<1>6. SizeOf(a.inflight) = done + SizeOf(a.inflight \ S) /\ done \in Nat /\ SizeOf(a.inflight \ S) \in Nat
  <2> DEFINE T == S \cap a.inflight
  <2>1. T \in SUBSET a.inflight /\ a.inflight \ T = a.inflight \ S
    OBVIOUS
  <2> HIDE DEF T
  <2>2. /\ SizeOf(a.inflight) = SizeOf(T) + SizeOf(a.inflight \ T)
        /\ SizeOf(T) \in Nat /\ SizeOf(a.inflight \ T) \in Nat
    BY <1>2, <2>1, SizeSplits
  <2> QED BY <2>1, <2>2 DEF T
<1> HIDE DEF done
<1>7. b = a.bytes - done /\ b \in Nat /\ b = SizeOf(a.inflight \ S)
  <2>1. done <= a.bytes
    BY <1>2, <1>3, <1>6
  <2>2. b = a.bytes - done /\ b \in Nat
    BY <1>2, <1>6, <2>1, Subtracts
  <2> HIDE DEF b
  <2> QED BY <2>2, <1>2, <1>3, <1>6
<1>8. t = u.total - done /\ t \in Nat
  <2>1. done <= u.total
    BY <1>1, <1>2, <1>3, <1>5, <1>6
  <2> QED BY <1>1, <1>6, <2>1, Subtracts
<1> HIDE DEF b, t
<1> DEFINE us == a.unack \ S
           is == a.inflight \ S
<1>9. us \in SUBSET Txs /\ is \in SUBSET Txs
  BY <1>2
<1> HIDE DEF us, is
<1>10. n = Part(us, is, b)
  <2>1. n = [a EXCEPT !.inflight = is, !.bytes = b, !.unack = us]
    BY DEF us, is
  <2> HIDE DEF n
  <2> QED BY <1>2, <2>1 DEF Part, PeerStates
<1> HIDE DEF n
<1>11. n \in PeerStates /\ n.inflight = a.inflight \ S /\ n.bytes = b
  <2>1. n \in PeerStates /\ n.inflight = is /\ n.bytes = b
    BY <1>7, <1>9, <1>10, PartOK
  <2> QED BY <2>1 DEF is
<1>12. g \in SUBSET Txs
  BY <1>1
<1>13. t + u.peers[p].bytes = u.total + n.bytes
  <2>1. n.bytes = a.bytes - done /\ a.bytes \in Nat /\ done \in Nat
    BY <1>2, <1>6, <1>7, <1>11
  <2>2. t + a.bytes = u.total + n.bytes
    BY <2>1, <1>1, <1>8
  <2> QED BY <2>2 DEF a
<1> HIDE DEF g
<1>14. v = State(u.known, g, t, [u.peers EXCEPT ![p] = n])
  BY <1>4, StateExcept
<1>15. OneStep(u, State(u.known, g, t, [u.peers EXCEPT ![p] = n]), p, n.inflight, g)
  BY <1>1, <1>7, <1>8, <1>11, <1>12, <1>13, OnePeerStep
<1>16. OneStep(u, v, p, a.inflight \ S, g) /\ v.known = u.known
  BY <1>11, <1>14, <1>15, StateFields
<1> QED BY <1>16 DEF v, g, a

(* insert_known keeps the ring within its capacity. *)
LEMMA InsertType ==
    ASSUME NEW k \in Seq(Txs), Len(k) <= KnownCapacity, NEW t \in Txs
    PROVE  Insert(k, t) \in Seq(Txs) /\ Len(Insert(k, t)) <= KnownCapacity
<1> DEFINE l == Append(k, t)
           d == Max({0, Len(l) - KnownCapacity})
           r == SubSeq(l, 1 + d, Len(l))
<1>1. l \in Seq(Txs) /\ Len(l) = Len(k) + 1 /\ Len(k) \in Nat /\ KnownCapacity \in Nat \ {0}
  BY TxStateAssumption
<1>2. d = IF 0 >= Len(l) - KnownCapacity THEN 0 ELSE Len(l) - KnownCapacity
  <2>1. Len(l) - KnownCapacity \in Int
    BY <1>1
  <2> HIDE DEF l
  <2> QED BY <2>1, MaxTwo
<1> HIDE DEF d
<1>3. d \in 0 .. 1 /\ (d = 0 => Len(l) <= KnownCapacity) /\ (d = 1 => Len(l) = KnownCapacity + 1)
  <2> HIDE DEF l
  <2> QED BY <1>1, <1>2
<1> HIDE DEF l
<1>4. r \in Seq(Txs) /\ Len(r) = Len(l) - d
  BY <1>1, <1>3
<1>5. Len(r) <= KnownCapacity
  BY <1>1, <1>3, <1>4
<1>6. Insert(k, t) = IF t \in ToSet(k) THEN k ELSE r
  BY DEF Insert, r, d, l
<1> QED BY <1>4, <1>5, <1>6

(* The list of known transactions keeps to its capacity. *)
LEMMA InsertKnownType ==
    ASSUME NEW k \in Seq(Txs), Len(k) <= KnownCapacity, NEW s \in Seq(Txs)
    PROVE  InsertKnown(k, s) \in Seq(Txs) /\ Len(InsertKnown(k, s)) <= KnownCapacity
<1> DEFINE N == Len(s)
           T == {x \in Seq(Txs) : Len(x) <= KnownCapacity}
           after[n \in 0 .. Len(s)] == IF n = 0 THEN k ELSE Insert(after[n - 1], s[n])
           F == [n \in 1 .. N |-> [x \in T |-> Insert(x, s[n])]]
<1>1. InsertKnown(k, s) = after[N]
  BY Zenon DEF InsertKnown
<1>2. N \in Nat /\ k \in T /\ \A n \in 1 .. N : s[n] \in Txs
  OBVIOUS
<1>3. F \in [1 .. N -> [T -> T]]
  <2>1. ASSUME NEW n \in 1 .. N, NEW x \in T PROVE Insert(x, s[n]) \in T
    <3>1. x \in Seq(Txs) /\ Len(x) <= KnownCapacity /\ s[n] \in Txs
      BY <1>2
    <3> QED BY <3>1, InsertType
  <2> HIDE DEF T
  <2> QED BY <2>1
<1> HIDE DEF T, N
<1>4. PICK g \in [0 .. N -> T] : Solves(g, N, k, F)
  <2> HIDE DEF F
  <2> QED BY <1>2, <1>3, RecursionExists DEF Solvable
<1>5. g = [n \in 0 .. Len(s) |-> IF n = 0 THEN k ELSE Insert(g[n - 1], s[n])]
  <2>1. \A n \in 1 .. N : g[n] = Insert(g[n - 1], s[n])
    <3> SUFFICES ASSUME NEW n \in 1 .. N PROVE g[n] = Insert(g[n - 1], s[n])
      OBVIOUS
    <3>1. g[n] = F[n][g[n - 1]]
      <4> HIDE DEF F
      <4> QED BY <1>4 DEF Solves
    <3>2. g[n - 1] \in T
      <4>1. n - 1 \in 0 .. N
        BY <1>2
      <4> QED BY <4>1, <1>4
    <3>3. F[n] = [x \in T |-> Insert(x, s[n])]
      OBVIOUS
    <3> HIDE DEF F
    <3> QED BY <3>1, <3>2, <3>3
  <2>2. g[0] = k
    BY <1>4 DEF Solves
  <2>3. \A n \in 0 .. Len(s) : g[n] = IF n = 0 THEN k ELSE Insert(g[n - 1], s[n])
    <3> HIDE DEF F
    <3> QED BY <2>1, <2>2, <1>2 DEF N
  <2>4. g = [n \in 0 .. Len(s) |-> g[n]]
    BY <1>4 DEF N
  <2> QED BY <2>3, <2>4, Zenon
<1>6. after = [n \in 0 .. Len(s) |-> IF n = 0 THEN k ELSE Insert(after[n - 1], s[n])]
  BY <1>5, Zenon
<1> HIDE DEF after, F
<1> DEFINE U == {n \in Nat : n <= N => after[n] \in T}
<1>7. 0 \in U
  BY <1>2, <1>6
<1>8. ASSUME NEW n \in Nat, n \in U PROVE n + 1 \in U
  <2> SUFFICES ASSUME n + 1 <= N PROVE after[n + 1] \in T
    OBVIOUS
  <2>1. after[n] \in T
    BY <1>8, <1>2
  <2>2. after[n + 1] = Insert(after[n], s[n + 1])
    <3>1. n + 1 \in 0 .. Len(s) /\ n + 1 # 0 /\ (n + 1) - 1 = n
      BY <1>2 DEF N
    <3> QED BY <3>1, <1>6
  <2>3. after[n] \in Seq(Txs) /\ Len(after[n]) <= KnownCapacity
    BY <2>1 DEF T
  <2>4. s[n + 1] \in Txs
    BY <1>2
  <2>5. Insert(after[n], s[n + 1]) \in Seq(Txs) /\ Len(Insert(after[n], s[n + 1])) <= KnownCapacity
    BY <2>3, <2>4, InsertType
  <2> QED BY <2>2, <2>5 DEF T
<1>9. N \in U
  <2> HIDE DEF U
  <2> QED BY <1>2, <1>7, <1>8, NatInductionOnSet
<1>10. after[N] \in T
  BY <1>2, <1>9
<1> QED BY <1>1, <1>10 DEF T

(* What is known is no part of the accounts. *)
LEMMA KnownStep ==
    ASSUME NEW u, TxStateOK(u), Accounted(u), NEW k \in Seq(Txs), Len(k) <= KnownCapacity,
           NEW v, v = [u EXCEPT !.known = k]
    PROVE  TxStateOK(v) /\ Accounted(v) /\ v.peers = u.peers /\ v.global = u.global
<1> DEFINE K == {x \in Seq(Txs) : Len(x) <= KnownCapacity}
           Q == [Registered(u) -> PeerStates]
<1>1. u \in [known : K, global : SUBSET Txs, total : Nat, peers : Q] /\ k \in K
  BY DEF TxStateOK, TxStates
<1> HIDE DEF K, Q
<1>2. v \in [known : K, global : SUBSET Txs, total : Nat, peers : Q]
  BY <1>1
<1>3. v.peers = u.peers /\ v.global = u.global /\ v.total = u.total
  BY <1>1
<1>4. Registered(v) = Registered(u)
  BY <1>3 DEF Registered
<1>5. TxStateOK(v)
  BY <1>2, <1>4 DEF TxStateOK, TxStates, K, Q
<1>6. PeersBytes(v) = PeersBytes(u)
  BY <1>3, <1>4 DEF PeersBytes
<1> QED BY <1>3, <1>4, <1>5, <1>6 DEF Accounted

(* mark_received settles and records. *)
LEMMA ReceivedStep ==
    ASSUME NEW u, TxStateOK(u), Accounted(u), NEW p \in Registered(u), NEW s \in Seq(Txs)
    PROVE  OneStep(u, MarkReceived(u, p, s), p, u.peers[p].inflight \ ToSet(s), u.global \ ToSet(s))
<1> DEFINE S == ToSet(s)
           w == Settle(u, p, S)
           k == InsertKnown(w.known, s)
           v == MarkReceived(u, p, s)
<1>1. S \in SUBSET Txs
  BY DEF ToSet
<1>2. v = [w EXCEPT !.known = k]
  BY DEF MarkReceived
<1> HIDE DEF S, v
<1>3. OneStep(u, w, p, u.peers[p].inflight \ S, u.global \ S) /\ w.known = u.known
  BY <1>1, SettleStep
<1> HIDE DEF w
<1>4. u.known \in Seq(Txs) /\ Len(u.known) <= KnownCapacity
  BY TxStateParts
<1>5. k \in Seq(Txs) /\ Len(k) <= KnownCapacity
  BY <1>3, <1>4, InsertKnownType
<1> HIDE DEF k
<1>6. TxStateOK(w) /\ Accounted(w)
  BY <1>3 DEF OneStep
<1>7. TxStateOK(v) /\ Accounted(v) /\ v.peers = w.peers /\ v.global = w.global
  BY <1>2, <1>5, <1>6, KnownStep
<1>8. Registered(v) = Registered(w)
  BY <1>7 DEF Registered
<1>9. OneStep(u, v, p, u.peers[p].inflight \ S, u.global \ S)
  BY <1>3, <1>7, <1>8 DEF OneStep
<1> QED BY <1>9 DEF v, S

(* register_peer: a peer already registered keeps its part. *)
LEMMA RegisterStep ==
    ASSUME NEW u, TxStateOK(u), Accounted(u), NEW p \in Peers
    PROVE  /\ TxStateOK(RegisterPeer(u, p)) /\ Accounted(RegisterPeer(u, p))
           /\ Registered(RegisterPeer(u, p)) = Registered(u) \cup {p}
           /\ \A q \in Registered(u) : RegisterPeer(u, p).peers[q] = u.peers[q]
           /\ p \notin Registered(u) => RegisterPeer(u, p).peers[p].inflight = {}
           /\ RegisterPeer(u, p).global = u.global
<1> DEFINE R == Registered(u)
           Q == R \cup {p}
           P == [q \in Q |-> IF q \in R THEN u.peers[q] ELSE NewPeer]
           v == RegisterPeer(u, p)
<1>1. /\ u.known \in Seq(Txs) /\ Len(u.known) <= KnownCapacity
      /\ u.global \in SUBSET Txs /\ u.total \in Nat
      /\ R \in SUBSET Peers /\ IsFiniteSet(R)
      /\ u.peers \in [R -> PeerStates]
  BY TxStateParts
<1>2. NewPeer \in PeerStates /\ NewPeer.inflight = {} /\ NewPeer.bytes = 0
  BY DEF NewPeer, PeerStates
<1>3. P \in [Q -> PeerStates] /\ DOMAIN P = Q /\ Q \in SUBSET Peers
  BY <1>1, <1>2
<1>4. \A q \in R : P[q] = u.peers[q]
  OBVIOUS
<1>5. \A q \in Q : q \notin R => q = p /\ P[q] = NewPeer
  OBVIOUS
<1>6. v = [u EXCEPT !.peers = P]
  BY DEF RegisterPeer
<1> HIDE DEF P, v
<1>7. v = State(u.known, u.global, u.total, P)
  <2> DEFINE K == {x \in Seq(Txs) : Len(x) <= KnownCapacity}
             X == [Registered(u) -> PeerStates]
  <2>1. u \in [known : K, global : SUBSET Txs, total : Nat, peers : X]
    BY DEF TxStateOK, TxStates
  <2> HIDE DEF K, X
  <2> QED BY <2>1, <1>6 DEF State
<1>8. TxStateOK(v)
  BY <1>1, <1>3, <1>7, StateOK
<1>9. Registered(v) = Q /\ v.peers = P /\ v.global = u.global /\ v.total = u.total
  BY <1>3, <1>7, StateFields
<1>10. SizeOf({}) = 0
  BY SumEmpty DEF SizeOf
<1>11. \A q \in Q : P[q].bytes = SizeOf(P[q].inflight)
  BY <1>2, <1>4, <1>5, <1>10 DEF Accounted
<1>12. u.total = SumFunction(PeersBytes(v))
  <2> DEFINE f == PeersBytes(u)
             h == PeersBytes(v)
  <2>1. /\ \A q \in R : f[q] = u.peers[q].bytes
        /\ \A q \in Q : h[q] = P[q].bytes
        /\ DOMAIN f = R /\ DOMAIN h = Q
    BY <1>9 DEF PeersBytes
  <2>2. u.total = SumFunctionOnSet(f, R)
    BY <2>1 DEF Accounted, SumFunction
  <2>3. \A q \in R : f[q] \in Nat /\ h[q] = f[q]
    BY <2>1, <1>1, <1>4 DEF PeerStates
  <2> HIDE DEF f, h
  <2>4. SumFunctionOnSet(f, R) = SumFunctionOnSet(h, R)
    <3> HIDE DEF R
    <3> QED BY <1>1, <2>3, SumCongruent
  <2>5. SumFunctionOnSet(h, Q) = SumFunctionOnSet(h, R)
    <3>1. CASE p \in R
      <4>1. Q = R
        BY <3>1
      <4> HIDE DEF Q
      <4> QED BY <4>1
    <3>2. CASE p \notin R
      <4>1. IsFiniteSet(Q)
        BY <1>1, FS_AddElement
      <4>2. Q \ {p} = R /\ p \in Q
        BY <3>2
      <4>3. h[p] = 0
        BY <2>1, <1>2, <1>5, <3>2
      <4>4. \A q \in Q : h[q] \in Nat
        BY <2>3, <4>3
      <4>5. SumFunctionOnSet(h, Q) = h[p] + SumFunctionOnSet(h, Q \ {p})
        <5> HIDE DEF Q
        <5> QED BY <4>1, <4>2, <4>4, SumRemove
      <4>6. SumFunctionOnSet(h, R) \in Nat
        <5> HIDE DEF R
        <5> QED BY <1>1, <2>3, SumType
      <4> QED BY <4>2, <4>3, <4>5, <4>6
    <3> QED BY <3>1, <3>2
  <2>6. u.total = SumFunctionOnSet(h, Q)
    BY <2>2, <2>4, <2>5
  <2> QED BY <2>1, <2>6 DEF SumFunction, h
<1>13. Accounted(v)
  BY <1>9, <1>11, <1>12 DEF Accounted
<1>14. p \notin R => P[p].inflight = {}
  BY <1>2, <1>5
<1> QED BY <1>4, <1>8, <1>9, <1>13, <1>14 DEF v

(* unregister_peer: the peer's bytes leave the total, its fetches end. *)
LEMMA UnregisterStep ==
    ASSUME NEW u, TxStateOK(u), Accounted(u), NEW p \in Registered(u)
    PROVE  /\ TxStateOK(UnregisterPeer(u, p)) /\ Accounted(UnregisterPeer(u, p))
           /\ Registered(UnregisterPeer(u, p)) = Registered(u) \ {p}
           /\ \A q \in Registered(u) \ {p} : UnregisterPeer(u, p).peers[q] = u.peers[q]
           /\ UnregisterPeer(u, p).global = u.global \ u.peers[p].inflight
<1> DEFINE R == Registered(u)
           Q == R \ {p}
           P == [q \in Q |-> u.peers[q]]
           g == u.global \ u.peers[p].inflight
           t == Max({0, u.total - u.peers[p].bytes})
           v == UnregisterPeer(u, p)
<1>1. /\ u.known \in Seq(Txs) /\ Len(u.known) <= KnownCapacity
      /\ u.global \in SUBSET Txs /\ u.total \in Nat
      /\ R \in SUBSET Peers /\ IsFiniteSet(R)
      /\ u.peers \in [R -> PeerStates]
      /\ \A q \in R : u.peers[q].bytes \in Nat
  BY TxStateParts
<1>2. P \in [Q -> PeerStates] /\ DOMAIN P = Q /\ Q \in SUBSET Peers
  BY <1>1
<1>3. \A q \in Q : P[q] = u.peers[q]
  OBVIOUS
<1>4. v = [u EXCEPT !.peers = P, !.global = g, !.total = t]
  BY DEF UnregisterPeer
<1>5. g \in SUBSET Txs
  BY <1>1
<1>6. t = u.total - u.peers[p].bytes /\ t \in Nat
  <2>1. u.peers[p].bytes <= u.total
    BY TotalCovers
  <2>2. u.peers[p].bytes \in Nat
    BY <1>1
  <2> QED BY <1>1, <2>1, <2>2, Subtracts
<1> HIDE DEF P, v, g, t
<1>7. v = State(u.known, g, t, P)
  <2> DEFINE K == {x \in Seq(Txs) : Len(x) <= KnownCapacity}
             X == [Registered(u) -> PeerStates]
  <2>1. u \in [known : K, global : SUBSET Txs, total : Nat, peers : X]
    BY DEF TxStateOK, TxStates
  <2> HIDE DEF K, X
  <2> QED BY <2>1, <1>4 DEF State
<1>8. TxStateOK(v)
  BY <1>1, <1>2, <1>5, <1>6, <1>7, StateOK
<1>9. Registered(v) = Q /\ v.peers = P /\ v.global = g /\ v.total = t
  BY <1>2, <1>7, StateFields
<1>10. \A q \in Q : P[q].bytes = SizeOf(P[q].inflight)
  BY <1>3 DEF Accounted
<1>11. t = SumFunction(PeersBytes(v))
  <2> DEFINE f == PeersBytes(u)
             h == PeersBytes(v)
  <2>1. /\ \A q \in R : f[q] = u.peers[q].bytes
        /\ \A q \in Q : h[q] = P[q].bytes
        /\ DOMAIN f = R /\ DOMAIN h = Q
    BY <1>9 DEF PeersBytes
  <2>2. u.total = SumFunctionOnSet(f, R)
    BY <2>1 DEF Accounted, SumFunction
  <2>3. \A q \in R : f[q] \in Nat
    BY <2>1, <1>1
  <2>4. \A q \in Q : f[q] \in Nat /\ h[q] = f[q]
    BY <2>1, <2>3, <1>3
  <2>5. IsFiniteSet(Q)
    BY <1>1, FS_Subset
  <2> HIDE DEF f, h
  <2>6. SumFunctionOnSet(f, Q) = SumFunctionOnSet(h, Q) /\ SumFunctionOnSet(f, Q) \in Nat
    <3> HIDE DEF Q
    <3> QED BY <2>4, <2>5, SumCongruent, SumType
  <2>7. SumFunctionOnSet(f, R) = f[p] + SumFunctionOnSet(f, R \ {p})
    <3> HIDE DEF R
    <3> QED BY <1>1, <2>3, SumRemove DEF R
  <2>8. f[p] = u.peers[p].bytes /\ f[p] \in Nat
    BY <2>1, <2>3
  <2>9. t = SumFunctionOnSet(h, Q)
    BY <1>6, <2>2, <2>6, <2>7, <2>8
  <2> QED BY <2>1, <2>9 DEF SumFunction, h
<1>12. Accounted(v)
  BY <1>9, <1>10, <1>11 DEF Accounted
<1> QED BY <1>3, <1>8, <1>9, <1>12 DEF v, g

(* filter_advertised touches only what the peer has not acknowledged. *)
LEMMA FilterStep ==
    ASSUME NEW u, TxStateOK(u), Accounted(u), NEW p \in Registered(u), NEW s \in Seq(Txs)
    PROVE  OneStep(u, FilterAdvertised(u, p, s), p, u.peers[p].inflight, u.global)
<1> DEFINE a == u.peers[p]
           w == RegisterPeer(u, p)
           us == w.peers[p].unack \cup ToSet(ToFetch(u, s))
           n == [a EXCEPT !.unack = us]
           v == FilterAdvertised(u, p, s)
<1>1. /\ u.known \in Seq(Txs) /\ Len(u.known) <= KnownCapacity
      /\ u.global \in SUBSET Txs /\ u.total \in Nat
      /\ Registered(u) \in SUBSET Peers
      /\ u.peers \in [Registered(u) -> PeerStates]
  BY TxStateParts
<1>2. a \in PeerStates /\ a.unack \in SUBSET Txs /\ a.inflight \in SUBSET Txs /\ a.bytes \in Nat
  BY <1>1 DEF PeerStates
<1>3. ToFetch(u, s) \in Seq(Txs)
  BY RetainSelects DEF ToFetch
<1>4. ToSet(ToFetch(u, s)) \in SUBSET Txs
  <2> DEFINE r == ToFetch(u, s)
  <2> HIDE DEF r
  <2>1. r \in Seq(Txs)
    BY <1>3 DEF r
  <2>2. ToSet(r) \in SUBSET Txs
    BY <2>1 DEF ToSet
  <2> QED BY <2>2 DEF r
<1>5. v = [w EXCEPT !.peers[p].unack = us]
  BY DEF FilterAdvertised
<1> HIDE DEF v
<1>6. TxStateOK(w) /\ w = u
  <2>1. [q \in Registered(u) \cup {p} |-> IF q \in Registered(u) THEN u.peers[q] ELSE NewPeer] = u.peers
    BY <1>1
  <2>2. w = [u EXCEPT !.peers = u.peers]
    BY <2>1 DEF RegisterPeer
  <2> HIDE DEF w
  <2> DEFINE K == {x \in Seq(Txs) : Len(x) <= KnownCapacity}
             X == [Registered(u) -> PeerStates]
  <2>3. u \in [known : K, global : SUBSET Txs, total : Nat, peers : X]
    BY DEF TxStateOK, TxStates
  <2> HIDE DEF K, X
  <2> QED BY <2>2, <2>3
<1> HIDE DEF w
<1>7. us = a.unack \cup ToSet(ToFetch(u, s)) /\ us \in SUBSET Txs
  BY <1>2, <1>4, <1>6
<1> HIDE DEF us
<1>8. v = State(u.known, u.global, u.total, [u.peers EXCEPT ![p] = n])
  <2> DEFINE K == {x \in Seq(Txs) : Len(x) <= KnownCapacity}
             X == [Registered(u) -> PeerStates]
             P == [u.peers EXCEPT ![p] = n]
  <2>1. u \in [known : K, global : SUBSET Txs, total : Nat, peers : X]
    BY DEF TxStateOK, TxStates
  <2> HIDE DEF K, X
  <2>2. v = [u EXCEPT !.peers = P]
    BY <1>5, <1>6, <2>1
  <2> HIDE DEF P
  <2>3. v = [known |-> u.known, global |-> u.global, total |-> u.total, peers |-> P]
    BY <2>1, <2>2
  <2> QED BY <2>3 DEF State, P
<1> HIDE DEF a
<1>9. n \in PeerStates /\ n.inflight = a.inflight /\ n.bytes = a.bytes
  BY <1>2, <1>7 DEF PeerStates
<1> HIDE DEF n
<1>10. n.bytes = SizeOf(n.inflight) /\ u.total + u.peers[p].bytes = u.total + n.bytes
  BY <1>9 DEF Accounted, a
<1>11. OneStep(u, v, p, n.inflight, u.global)
  BY <1>1, <1>8, <1>9, <1>10, OnePeerStep
<1> QED BY <1>9, <1>11 DEF a, v

(* mark_confirmed ends the tracking of S at every peer at once. *)
LEMMA ConfirmedStep ==
    ASSUME NEW u, TxStateOK(u), Accounted(u), NEW s \in Seq(Txs)
    PROVE  /\ TxStateOK(MarkConfirmed(u, s)) /\ Accounted(MarkConfirmed(u, s))
           /\ Registered(MarkConfirmed(u, s)) = Registered(u)
           /\ \A q \in Registered(u) :
                 MarkConfirmed(u, s).peers[q].inflight = u.peers[q].inflight \ ToSet(s)
           /\ MarkConfirmed(u, s).global = u.global \ ToSet(s)
<1> DEFINE R == Registered(u)
           S == ToSet(s)
           done == [q \in R |-> SizeOf(S \cap u.peers[q].inflight)]
           b(q) == Max({0, u.peers[q].bytes - done[q]})
           n(q) == Part(u.peers[q].unack \ S, u.peers[q].inflight \ S, b(q))
           P == [q \in R |-> n(q)]
           k == InsertKnown(u.known, s)
           g == u.global \ S
           t == Max({0, u.total - SumFunction(done)})
           v == MarkConfirmed(u, s)
<1>1. /\ u.known \in Seq(Txs) /\ Len(u.known) <= KnownCapacity
      /\ u.global \in SUBSET Txs /\ u.total \in Nat
      /\ R \in SUBSET Peers /\ IsFiniteSet(R)
      /\ u.peers \in [R -> PeerStates]
      /\ \A q \in R : /\ u.peers[q].unack \in SUBSET Txs /\ u.peers[q].inflight \in SUBSET Txs
                      /\ u.peers[q].bytes \in Nat
  BY TxStateParts
<1>2. v = State(k, g, t, P)
  BY DEF MarkConfirmed, State, Part
<1>3. k \in Seq(Txs) /\ Len(k) <= KnownCapacity
  BY <1>1, InsertKnownType
<1> HIDE DEF v, k, S
<1>4. ASSUME NEW q \in R
      PROVE  /\ done[q] \in Nat /\ b(q) \in Nat
             /\ u.peers[q].bytes = done[q] + b(q)
             /\ n(q) \in PeerStates /\ n(q).inflight = u.peers[q].inflight \ S
             /\ n(q).bytes = b(q) /\ n(q).bytes = SizeOf(n(q).inflight)
  <2> DEFINE I == u.peers[q].inflight
             J == S \cap I
             us == u.peers[q].unack \ S
             is == I \ S
  <2>1. I \in SUBSET Txs /\ J \in SUBSET I /\ I \ J = is /\ is \in SUBSET Txs /\ us \in SUBSET Txs
    BY <1>1
  <2>2. u.peers[q].bytes = SizeOf(I) /\ u.peers[q].bytes \in Nat
    BY <1>1 DEF Accounted
  <2>3. done[q] = SizeOf(J)
    OBVIOUS
  <2> HIDE DEF I, J, done, us, is
  <2>4. SizeOf(I) = SizeOf(J) + SizeOf(I \ J) /\ SizeOf(J) \in Nat /\ SizeOf(I \ J) \in Nat
    BY <2>1, SizeSplits
  <2>5. done[q] \in Nat /\ done[q] <= u.peers[q].bytes /\ u.peers[q].bytes - done[q] = SizeOf(is)
    <3>1. SizeOf(I \ J) = SizeOf(is)
      BY <2>1
    <3> HIDE DEF n, b, P, g, t
    <3> QED BY <2>2, <2>3, <2>4, <3>1
  <2>6. b(q) = u.peers[q].bytes - done[q] /\ b(q) \in Nat
    BY <2>2, <2>5, Subtracts
  <2>7. n(q) = Part(us, is, b(q))
    BY DEF us, is, I
  <2> HIDE DEF b
  <2>8. n(q) \in PeerStates /\ n(q).inflight = is /\ n(q).bytes = b(q)
    <3> HIDE DEF n
    <3> QED BY <2>1, <2>6, <2>7, PartOK
  <2> HIDE DEF n
  <2>9. u.peers[q].bytes = done[q] + b(q)
    BY <2>2, <2>5, <2>6
  <2> QED BY <2>5, <2>6, <2>8, <2>9 DEF is, I
<1> HIDE DEF n, b
<1>5. P \in [R -> PeerStates] /\ DOMAIN P = R /\ \A q \in R : P[q] = n(q)
  BY <1>4
<1> HIDE DEF P
<1>6. DOMAIN done = R
  OBVIOUS
<1> HIDE DEF done
<1> DEFINE f == PeersBytes(u)
           h == [q \in R |-> b(q)]
<1>7. DOMAIN f = R /\ \A q \in R : f[q] = u.peers[q].bytes
  BY DEF PeersBytes
<1>8. \A q \in R : h[q] = b(q)
  OBVIOUS
<1> HIDE DEF f, h, R
<1>9. \A q \in R : done[q] \in Nat /\ h[q] \in Nat /\ f[q] = done[q] + h[q]
  BY <1>4, <1>7, <1>8
<1>10. /\ SumFunctionOnSet(f, R) = SumFunctionOnSet(done, R) + SumFunctionOnSet(h, R)
       /\ SumFunctionOnSet(done, R) \in Nat /\ SumFunctionOnSet(h, R) \in Nat
  BY <1>1, <1>9, SumAdds, SumType
<1>11. u.total = SumFunctionOnSet(f, R)
  BY <1>7 DEF Accounted, SumFunction, f
<1>12. SumFunction(done) = SumFunctionOnSet(done, R)
  BY <1>6 DEF SumFunction
<1>13. t = SumFunctionOnSet(h, R) /\ t \in Nat
  <2>1. SumFunction(done) <= u.total /\ SumFunction(done) \in Nat
    BY <1>1, <1>10, <1>11, <1>12
  <2>2. t = u.total - SumFunction(done) /\ t \in Nat
    BY <1>1, <2>1, Subtracts
  <2> HIDE DEF t
  <2> QED BY <1>10, <1>11, <1>12, <2>2
<1>14. g \in SUBSET Txs
  BY <1>1
<1> HIDE DEF g, t
<1>15. TxStateOK(v)
  <2>1. DOMAIN P \in SUBSET Peers /\ P \in [DOMAIN P -> PeerStates]
    BY <1>1, <1>5
  <2> QED BY <1>2, <1>3, <1>13, <1>14, <2>1, StateOK
<1>16. Registered(v) = R /\ v.peers = P /\ v.global = g /\ v.total = t
  BY <1>2, <1>5, StateFields
<1>17. \A q \in R : P[q].bytes = SizeOf(P[q].inflight) /\ P[q].bytes = b(q)
  BY <1>4, <1>5
<1>18. PeersBytes(v) = h
  BY <1>16, <1>17 DEF PeersBytes, h
<1>19. DOMAIN h = R
  BY DEF h
<1>20. Accounted(v)
  BY <1>13, <1>16, <1>17, <1>18, <1>19 DEF Accounted, SumFunction
<1>21. \A q \in R : v.peers[q].inflight = u.peers[q].inflight \ S
  BY <1>4, <1>5, <1>16
<1> QED BY <1>15, <1>16, <1>20, <1>21 DEF R, S, g, v

-----------------------------------------------------------------------------
(* The sessions. *)

(* One peer's fetches and server change. *)
LEMMA OrphansStep ==
    ASSUME NEW u, NEW a, NEW s \in [Peers -> ServerStates], Orphans(u, a, s), NEW p \in Registered(u),
           NEW v, NEW I, NEW g, OneStep(u, v, p, I, g), NEW x, x.pc # "off",
           p \notin a /\ I # {} => x.pc = "txs" /\ I \subseteq ToSet(x.take),
           g \subseteq (u.global \ u.peers[p].inflight) \cup I
    PROVE  Orphans(v, a, [s EXCEPT ![p] = x])
<1> DEFINE z == [s EXCEPT ![p] = x]
           R == Registered(u)
<1>1. /\ p \in Peers /\ a \subseteq Peers /\ R \subseteq Peers
      /\ R = a \cup {q \in Peers : s[q].pc # "off"}
  BY DEF Orphans
<1>2. z[p] = x /\ \A q \in Peers \ {p} : z[q] = s[q]
  BY <1>1
<1> HIDE DEF z
<1>3. /\ Registered(v) = R /\ v.peers[p].inflight = I
      /\ \A q \in R \ {p} : v.peers[q].inflight = u.peers[q].inflight
      /\ v.global = g
  BY DEF OneStep
<1>4. Registered(v) = a \cup {q \in Peers : z[q].pc # "off"}
  BY <1>1, <1>2, <1>3
<1>5. ASSUME NEW q \in R \ a, v.peers[q].inflight # {}
      PROVE  z[q].pc = "txs" /\ v.peers[q].inflight \subseteq ToSet(z[q].take)
  <2>1. CASE q = p
    BY <2>1, <1>2, <1>3, <1>5
  <2>2. CASE q # p
    <3>1. q \in Peers /\ z[q] = s[q] /\ v.peers[q].inflight = u.peers[q].inflight
      BY <2>2, <1>1, <1>2, <1>3
    <3> QED BY <3>1, <1>5 DEF Orphans
  <2> QED BY <2>1, <2>2
<1>6. ASSUME NEW t \in g PROVE \E q \in R : t \in v.peers[q].inflight
  <2>1. CASE t \in I
    BY <2>1, <1>3
  <2>2. CASE t \in u.global /\ t \notin u.peers[p].inflight
    <3>1. PICK q \in R : t \in u.peers[q].inflight
      BY <2>2 DEF Orphans
    <3>2. q # p
      BY <2>2, <3>1
    <3> QED BY <3>1, <3>2, <1>3
  <2> QED BY <2>1, <2>2
<1>7. v.global \subseteq UNION {v.peers[q].inflight : q \in Registered(v)}
  BY <1>3, <1>6
<1>8. Orphans(v, a, z)
  BY <1>1, <1>3, <1>4, <1>5, <1>7 DEF Orphans
<1> QED BY <1>8 DEF z

(* The server changes and the shared state does not. *)
LEMMA OrphansKept ==
    ASSUME NEW u, NEW a, NEW s \in [Peers -> ServerStates], TxStateOK(u), Accounted(u),
           Orphans(u, a, s), NEW p \in Registered(u), NEW x, x.pc # "off",
           p \notin a => u.peers[p].inflight = {}
    PROVE  Orphans(u, a, [s EXCEPT ![p] = x])
<1> DEFINE I == u.peers[p].inflight
           g == u.global
<1>1. OneStep(u, u, p, I, g)
  BY DEF OneStep
<1>2. g \subseteq (u.global \ I) \cup I /\ (p \notin a => I = {})
  OBVIOUS
<1> QED BY <1>1, <1>2, OrphansStep

(* One peer's part of the state changes. *)
LEMMA PeerStep ==
    ASSUME NEW u, NEW a, NEW s, NEW c, NEW w, Good(u, a, s, c, w), NEW p \in Peers,
           NEW v, TxStateOK(v), Accounted(v), NEW x \in ServerStates, NEW y \in ClientStates, NEW m,
           SessionOK(x, y, m), PoolOK(y), NEW b, Orphans(v, b, [s EXCEPT ![p] = x])
    PROVE  Good(v, b, [s EXCEPT ![p] = x], [c EXCEPT ![p] = y], [w EXCEPT ![p] = m])
<1> DEFINE z == [s EXCEPT ![p] = x]
           d == [c EXCEPT ![p] = y]
           n == [w EXCEPT ![p] = m]
<1>1. /\ s \in [Peers -> ServerStates] /\ c \in [Peers -> ClientStates]
      /\ w = [q \in Peers |-> w[q]]
      /\ \A q \in Peers : SessionOK(s[q], c[q], w[q]) /\ PoolOK(c[q])
  BY DEF Good
<1>2. z \in [Peers -> ServerStates] /\ z[p] = x /\ \A q \in Peers \ {p} : z[q] = s[q]
  BY <1>1
<1>3. d \in [Peers -> ClientStates] /\ d[p] = y /\ \A q \in Peers \ {p} : d[q] = c[q]
  BY <1>1
<1>4. DOMAIN w = Peers
  BY <1>1
<1>5. n = [q \in Peers |-> n[q]] /\ n[p] = m /\ \A q \in Peers \ {p} : n[q] = w[q]
  BY <1>4
<1>6. Orphans(v, b, z)
  OBVIOUS
<1> HIDE DEF z, d, n
<1>7. ASSUME NEW q \in Peers PROVE SessionOK(z[q], d[q], n[q]) /\ PoolOK(d[q])
  <2>1. CASE q = p
    BY <2>1, <1>2, <1>3, <1>5
  <2>2. CASE q # p
    BY <2>2, <1>1, <1>2, <1>3, <1>5
  <2> QED BY <2>1, <2>2
<1>8. Good(v, b, z, d, n)
  BY <1>2, <1>3, <1>5, <1>6, <1>7 DEF Good
<1> QED BY <1>8 DEF z, d, n

(* What the invariant says of one peer. *)
LEMMA OneSession ==
    ASSUME NEW u, NEW a, NEW s, NEW c, NEW w, Good(u, a, s, c, w), NEW p \in Peers
    PROVE  /\ s[p] \in ServerStates /\ c[p] \in ClientStates
           /\ SessionOK(s[p], c[p], w[p]) /\ PoolOK(c[p])
           /\ [s EXCEPT ![p] = s[p]] = s /\ [c EXCEPT ![p] = c[p]] = c
           /\ [w EXCEPT ![p] = w[p]] = w
           /\ p \in Registered(u) <=> p \in a \/ s[p].pc # "off"
           /\ TxStateOK(u) /\ Accounted(u) /\ Orphans(u, a, s) /\ s \in [Peers -> ServerStates]
<1>1. /\ s \in [Peers -> ServerStates] /\ c \in [Peers -> ClientStates]
      /\ w = [q \in Peers |-> w[q]]
      /\ SessionOK(s[p], c[p], w[p]) /\ PoolOK(c[p])
      /\ TxStateOK(u) /\ Accounted(u) /\ Orphans(u, a, s)
  BY DEF Good
<1>2. [s EXCEPT ![p] = s[p]] = s
  BY <1>1
<1>3. [c EXCEPT ![p] = c[p]] = c
  BY <1>1
<1>4. [w EXCEPT ![p] = w[p]] = w
  BY <1>1
<1>5. p \in Registered(u) <=> p \in a \/ s[p].pc # "off"
  BY <1>1 DEF Orphans
<1> QED BY <1>1, <1>2, <1>3, <1>4, <1>5

(* The server of a session that is not open. *)
LEMMA OffTyped ==
    /\ Off \in ServerStates /\ Off.pc = "off" /\ Off.ack = 0 /\ Off.deferred = 0 /\ Off.adv = <<>>
    /\ Off.fetch = <<>> /\ Off.take = <<>> /\ Off.bodies = <<>>
BY TxSubmissionAssumption DEF Off, ServerStates

(* A session that opens registers its peer. *)
LEMMA OpenStep ==
    ASSUME Good(ts, aborted, srv, cli, wire), NEW p \in Peers, Open(p)
    PROVE  Good(ts', aborted', srv', cli', wire')
<1> DEFINE s == srv[p]
           c == cli[p]
           x == [Off EXCEPT !.pc = "ask"]
           y == Fresh(c)
           v == RegisterPeer(ts, p)
<1>1. /\ s.pc = "off" /\ ts' = v /\ aborted' = aborted /\ srv' = [srv EXCEPT ![p] = x]
      /\ cli' = [cli EXCEPT ![p] = y] /\ wire' = [wire EXCEPT ![p] = <<>>]
  BY DEF Open
<1>2. /\ c \in ClientStates /\ PoolOK(c) /\ (p \in Registered(ts) <=> p \in aborted)
      /\ TxStateOK(ts) /\ Accounted(ts) /\ Orphans(ts, aborted, srv) /\ srv \in [Peers -> ServerStates]
  BY <1>1, OneSession
<1>3. /\ TxStateOK(v) /\ Accounted(v) /\ Registered(v) = Registered(ts) \cup {p}
      /\ \A q \in Registered(ts) : v.peers[q] = ts.peers[q]
      /\ p \notin aborted => v.peers[p].inflight = {}
      /\ v.global = ts.global
  BY <1>2, RegisterStep
<1>4. x \in ServerStates /\ x.pc = "ask" /\ x.ack = 0 /\ x.deferred = 0
  BY OffTyped DEF ServerStates
<1>5. y \in ClientStates /\ y.st = "idle" /\ y.out = <<>> /\ y.pool = c.pool
  <2> DEFINE l == -1
             o == <<>>
             q == {}
  <2>1. l \in Int /\ o \in Seq(Txs) /\ q \in SUBSET Txs
    OBVIOUS
  <2>2. y = [c EXCEPT !.st = "idle", !.last = l, !.out = o, !.requestable = q]
    BY DEF Fresh
  <2> HIDE DEF l, o, q, y
  <2>3. y \in ClientStates /\ y.st = "idle" /\ y.out = o /\ y.pool = c.pool
    BY <1>2, <2>1, <2>2 DEF ClientStates
  <2> QED BY <2>3 DEF o
<1> HIDE DEF v, x, y
<1>6. SessionOK(x, y, <<>>) /\ PoolOK(y)
  <2>1. AtAsk(x, y, <<>>)
    BY <1>4, <1>5 DEF AtAsk, Settled
  <2> QED BY <2>1, <1>2, <1>4, <1>5 DEF SessionOK, PoolOK
<1>7. Orphans(v, aborted, [srv EXCEPT ![p] = x])
  <2> DEFINE z == [srv EXCEPT ![p] = x]
  <2>1. z[p] = x /\ \A q \in Peers \ {p} : z[q] = srv[q]
    BY <1>2
  <2> HIDE DEF z
  <2>2. Registered(v) = aborted \cup {q \in Peers : z[q].pc # "off"} /\ aborted \subseteq Peers
    BY <2>1, <1>2, <1>3, <1>4 DEF Orphans
  <2>3. \A q \in Registered(v) \ aborted : v.peers[q].inflight # {} =>
            z[q].pc = "txs" /\ v.peers[q].inflight \subseteq ToSet(z[q].take)
    BY <2>1, <2>2, <1>2, <1>3 DEF Orphans
  <2>4. v.global \subseteq UNION {v.peers[q].inflight : q \in Registered(v)}
    BY <1>2, <1>3 DEF Orphans
  <2>5. Orphans(v, aborted, z)
    BY <2>2, <2>3, <2>4 DEF Orphans
  <2> QED BY <2>5 DEF z
<1>8. Good(v, aborted, [srv EXCEPT ![p] = x], [cli EXCEPT ![p] = y], [wire EXCEPT ![p] = <<>>])
  BY <1>3, <1>4, <1>5, <1>6, <1>7, PeerStep
<1> QED BY <1>1, <1>8

(* A session that ends, however it does, settles what its peer had in      *)
(* flight.                                                                 *)
LEMMA LeaveStep ==
    ASSUME Good(ts, aborted, srv, cli, wire), NEW p \in Peers, srv[p].pc # "off", Leave(p)
    PROVE  Good(ts', aborted', srv', cli', wire')
<1> DEFINE c == cli[p]
           y == [c EXCEPT !.st = "off"]
           v == UnregisterPeer(ts, p)
           d == aborted \ {p}
<1>1. /\ ts' = v /\ aborted' = d /\ srv' = [srv EXCEPT ![p] = Off]
      /\ cli' = [cli EXCEPT ![p] = y] /\ wire' = [wire EXCEPT ![p] = <<>>]
  BY DEF Leave, SessionOver
<1>2. /\ c \in ClientStates /\ PoolOK(c) /\ p \in Registered(ts)
      /\ TxStateOK(ts) /\ Accounted(ts) /\ Orphans(ts, aborted, srv) /\ srv \in [Peers -> ServerStates]
  BY OneSession
<1>3. /\ TxStateOK(v) /\ Accounted(v) /\ Registered(v) = Registered(ts) \ {p}
      /\ \A q \in Registered(ts) \ {p} : v.peers[q] = ts.peers[q]
      /\ v.global = ts.global \ ts.peers[p].inflight
  BY <1>2, UnregisterStep
<1>4. Off \in ServerStates /\ Off.pc = "off"
  BY OffTyped
<1>5. y \in ClientStates /\ y.st = "off" /\ y.pool = c.pool
  BY <1>2 DEF ClientStates
<1> HIDE DEF v, y
<1>6. SessionOK(Off, y, <<>>) /\ PoolOK(y)
  BY <1>2, <1>4, <1>5 DEF SessionOK, PoolOK, AtOff
<1>7. Orphans(v, d, [srv EXCEPT ![p] = Off])
  <2> DEFINE z == [srv EXCEPT ![p] = Off]
  <2>1. z[p] = Off /\ \A q \in Peers \ {p} : z[q] = srv[q]
    BY <1>2
  <2> HIDE DEF z
  <2>2. Registered(v) = d \cup {q \in Peers : z[q].pc # "off"} /\ d \subseteq Peers
    BY <2>1, <1>2, <1>3, <1>4 DEF Orphans
  <2>3. \A q \in Registered(v) \ d : v.peers[q].inflight # {} =>
            z[q].pc = "txs" /\ v.peers[q].inflight \subseteq ToSet(z[q].take)
    BY <2>1, <2>2, <1>2, <1>3 DEF Orphans
  <2>4. v.global \subseteq UNION {v.peers[q].inflight : q \in Registered(v)}
    <3> SUFFICES ASSUME NEW t \in v.global
                 PROVE  \E q \in Registered(v) : t \in v.peers[q].inflight
      OBVIOUS
    <3>1. t \in ts.global /\ t \notin ts.peers[p].inflight
      BY <1>3
    <3>2. PICK q \in Registered(ts) : t \in ts.peers[q].inflight
      BY <3>1, <1>2 DEF Orphans
    <3>3. q \in Registered(ts) \ {p}
      BY <3>1, <3>2
    <3> QED BY <3>2, <3>3, <1>3
  <2>5. Orphans(v, d, z)
    BY <2>2, <2>3, <2>4 DEF Orphans
  <2> QED BY <2>5 DEF z
<1> HIDE DEF d
<1>8. Good(v, d, [srv EXCEPT ![p] = Off], [cli EXCEPT ![p] = y], [wire EXCEPT ![p] = <<>>])
  BY <1>3, <1>4, <1>5, <1>6, <1>7, PeerStep
<1> QED BY <1>1, <1>8

(* A session that is aborted leaves its peer registered. *)
LEMMA AbortStep ==
    ASSUME Good(ts, aborted, srv, cli, wire), NEW p \in Peers, Abort(p)
    PROVE  Good(ts', aborted', srv', cli', wire')
<1> DEFINE c == cli[p]
           y == [c EXCEPT !.st = "off"]
           d == aborted \cup {p}
<1>1. /\ srv[p].pc # "off" /\ ts' = ts /\ aborted' = d /\ srv' = [srv EXCEPT ![p] = Off]
      /\ cli' = [cli EXCEPT ![p] = y] /\ wire' = [wire EXCEPT ![p] = <<>>]
  BY DEF Abort, SessionOver
<1>2. /\ c \in ClientStates /\ PoolOK(c) /\ p \in Registered(ts)
      /\ TxStateOK(ts) /\ Accounted(ts) /\ Orphans(ts, aborted, srv) /\ srv \in [Peers -> ServerStates]
  BY <1>1, OneSession
<1>3. Off \in ServerStates /\ Off.pc = "off"
  BY OffTyped
<1>4. y \in ClientStates /\ y.st = "off" /\ y.pool = c.pool
  BY <1>2 DEF ClientStates
<1> HIDE DEF y
<1>5. SessionOK(Off, y, <<>>) /\ PoolOK(y)
  BY <1>2, <1>3, <1>4 DEF SessionOK, PoolOK, AtOff
<1>6. Orphans(ts, d, [srv EXCEPT ![p] = Off])
  <2> DEFINE z == [srv EXCEPT ![p] = Off]
  <2>1. z[p] = Off /\ \A q \in Peers \ {p} : z[q] = srv[q]
    BY <1>2
  <2> HIDE DEF z
  <2>2. Registered(ts) = d \cup {q \in Peers : z[q].pc # "off"} /\ d \subseteq Peers
    BY <2>1, <1>2, <1>3 DEF Orphans
  <2>3. \A q \in Registered(ts) \ d : ts.peers[q].inflight # {} =>
            z[q].pc = "txs" /\ ts.peers[q].inflight \subseteq ToSet(z[q].take)
    BY <2>1, <2>2, <1>2 DEF Orphans
  <2>4. ts.global \subseteq UNION {ts.peers[q].inflight : q \in Registered(ts)}
    BY <1>2 DEF Orphans
  <2>5. Orphans(ts, d, z)
    BY <2>2, <2>3, <2>4 DEF Orphans
  <2> QED BY <2>5 DEF z
<1> HIDE DEF d
<1>7. Good(ts, d, [srv EXCEPT ![p] = Off], [cli EXCEPT ![p] = y], [wire EXCEPT ![p] = <<>>])
  BY <1>2, <1>3, <1>4, <1>5, <1>6, PeerStep
<1> QED BY <1>1, <1>7

(* clamp_request_count asks for something, and for at most a batch. *)
LEMMA ClampBounds ==
    ASSUME NEW a \in Nat, NEW k \in Nat
    PROVE  ClampRequestCount(a, k) \in 1 .. BatchSize
<1> DEFINE e == Max({0, a - k})
           h == Max({0, MaxUnacked - e})
           n == Min({BatchSize, h})
<1>1. BatchSize \in Nat \ {0} /\ MaxUnacked \in Nat
  BY TxSubmissionAssumption
<1>2. e \in Nat
  <2>1. a - k \in Int
    OBVIOUS
  <2> QED BY <2>1, MaxTwo
<1> HIDE DEF e
<1>3. h \in Nat
  <2>1. MaxUnacked - e \in Int
    BY <1>1, <1>2
  <2> QED BY <2>1, MaxTwo
<1> HIDE DEF h
<1>4. n \in Nat /\ n <= BatchSize
  BY <1>1, <1>3, MinTwo
<1> HIDE DEF n
<1>5. Max({1, n}) = IF 1 >= n THEN 1 ELSE n
  BY <1>4, MaxTwo
<1>6. Max({1, n}) \in 1 .. BatchSize
  BY <1>1, <1>4, <1>5
<1> QED BY <1>6 DEF ClampRequestCount, n, h, e

(* The server asks for ids. *)
LEMMA AskStep ==
    ASSUME Good(ts, aborted, srv, cli, wire), NEW p \in Peers, Ask(p)
    PROVE  Good(ts', aborted', srv', cli', wire')
<1> DEFINE s == srv[p]
           c == cli[p]
           x == [s EXCEPT !.pc = "ids"]
           n == ClampRequestCount(Cardinality(ts.peers[p].unack), s.ack)
           m == [type |-> "RequestTxIds", ack |-> s.ack, req |-> n]
<1>1. /\ s.pc = "ask" /\ ts' = ts /\ aborted' = aborted /\ srv' = [srv EXCEPT ![p] = x]
      /\ cli' = cli /\ wire' = [wire EXCEPT ![p] = m]
  BY DEF Ask
<1>2. /\ s \in ServerStates /\ c \in ClientStates /\ SessionOK(s, c, wire[p]) /\ PoolOK(c)
      /\ p \in Registered(ts) /\ [cli EXCEPT ![p] = c] = cli
      /\ TxStateOK(ts) /\ Accounted(ts) /\ Orphans(ts, aborted, srv) /\ srv \in [Peers -> ServerStates]
  BY <1>1, OneSession
<1>3. /\ x \in ServerStates /\ x.pc = "ids" /\ x.ack = s.ack /\ x.deferred = s.deferred
  BY <1>2 DEF ServerStates
<1>4. n \in 1 .. BatchSize
  <2>1. ts.peers[p].unack \in SUBSET Txs
    BY <1>2, TxStateParts
  <2>2. Cardinality(ts.peers[p].unack) \in Nat
    BY <2>1, SizeType, FS_CardinalityType
  <2>3. s.ack \in Nat
    BY <1>2 DEF ServerStates
  <2> QED BY <2>2, <2>3, ClampBounds
<1>5. AtAsk(s, c, wire[p])
  BY <1>1, <1>2 DEF SessionOK
<1> HIDE DEF n, x
<1>6. m \in [type : {"RequestTxIds"}, ack : {x.ack}, req : 1 .. BatchSize]
  BY <1>3, <1>4
<1> HIDE DEF m
<1>7. SessionOK(x, c, m)
  <2>1. AtIds(x, c, m)
    BY <1>3, <1>5, <1>6 DEF AtIds, AtAsk, Asking, Settled
  <2> QED BY <2>1, <1>3 DEF SessionOK
<1>8. p \notin aborted => ts.peers[p].inflight = {}
  BY <1>1, <1>2 DEF Orphans
<1>9. Orphans(ts, aborted, [srv EXCEPT ![p] = x])
  BY <1>2, <1>3, <1>8, OrphansKept
<1>10. Good(ts, aborted, [srv EXCEPT ![p] = x], [cli EXCEPT ![p] = c], [wire EXCEPT ![p] = m])
  BY <1>2, <1>3, <1>7, <1>9, PeerStep
<1> QED BY <1>1, <1>2, <1>10

-----------------------------------------------------------------------------
(* Parts of sequences: what is retained, and prefixes. *)

(* A selection is no longer than what it is taken from, repeats nothing    *)
(* that was not repeated, and holds nothing new.                           *)
Picked(r, s) ==
    /\ Len(r) <= Len(s)
    /\ ToSet(r) \subseteq ToSet(s)
    /\ IsInjective(s) => IsInjective(r)

(* There is no increasing map into fewer numbers. *)
LEMMA Increasing ==
    ASSUME NEW n \in Nat, NEW m \in Nat, NEW h \in [1 .. n -> 1 .. m],
           \A j, k \in 1 .. n : j < k => h[j] < h[k]
    PROVE  n <= m
<1> DEFINE U == {k \in Nat : k \in 1 .. n => k <= h[k]}
<1>1. 0 \in U
  OBVIOUS
<1>2. ASSUME NEW k \in Nat, k \in U PROVE k + 1 \in U
  <2> SUFFICES ASSUME k + 1 \in 1 .. n PROVE k + 1 <= h[k + 1]
    OBVIOUS
  <2>1. CASE k = 0
    <3>1. h[k + 1] \in 1 .. m
      OBVIOUS
    <3> QED BY <2>1, <3>1
  <2>2. CASE k # 0
    <3>1. k \in 1 .. n /\ k <= h[k]
      BY <1>2, <2>2
    <3>2. h[k] < h[k + 1] /\ h[k] \in 1 .. m /\ h[k + 1] \in 1 .. m
      BY <3>1
    <3> QED BY <3>1, <3>2
  <2> QED BY <2>1, <2>2
<1>3. n \in U
  <2> HIDE DEF U
  <2> QED BY <1>1, <1>2, NatInductionOnSet
<1>4. CASE n = 0
  BY <1>4
<1>5. CASE n # 0
  <2>1. n \in 1 .. n /\ n <= h[n] /\ h[n] \in 1 .. m
    BY <1>3, <1>5
  <2> QED BY <2>1
<1> QED BY <1>4, <1>5

(* What is retained of a sequence is picked from it. *)
LEMMA RetainPicks ==
    ASSUME NEW X, NEW s \in Seq(X), NEW T
    PROVE  /\ Retain(s, T) \in Seq(X) /\ Picked(Retain(s, T), s)
           /\ \E h : Selects(h, Retain(s, T), s, Len(s), T)
<1> DEFINE r == Retain(s, T)
<1>1. r \in Seq(X) /\ Selection(r, s, Len(s), T)
  BY RetainSelects
<1> HIDE DEF r
<1>2. PICK h : Selects(h, r, s, Len(s), T)
  BY <1>1 DEF Selection
<1>3. /\ h \in [1 .. Len(r) -> 1 .. Len(s)]
      /\ \A j, k \in 1 .. Len(r) : j < k => h[j] < h[k]
      /\ \A k \in 1 .. Len(r) : r[k] = s[h[k]]
  BY <1>2 DEF Selects
<1>4. Len(r) <= Len(s)
  <2>1. Len(r) \in Nat /\ Len(s) \in Nat
    BY <1>1
  <2> QED BY <2>1, <1>3, Increasing
<1>5. ToSet(r) \subseteq ToSet(s)
  <2>1. ToSet(r) = {r[i] : i \in 1 .. Len(r)} /\ ToSet(s) = {s[i] : i \in 1 .. Len(s)}
    BY <1>1 DEF ToSet
  <2> QED BY <2>1, <1>3
<1>6. ASSUME IsInjective(s) PROVE IsInjective(r)
  <2>1. DOMAIN r = 1 .. Len(r) /\ DOMAIN s = 1 .. Len(s)
    BY <1>1
  <2> SUFFICES ASSUME NEW i \in 1 .. Len(r), NEW j \in 1 .. Len(r), r[i] = r[j] PROVE i = j
    BY <2>1 DEF IsInjective
  <2>2. h[i] = h[j]
    BY <1>3, <1>6, <2>1 DEF IsInjective
  <2>3. h[i] \in 1 .. Len(s) /\ h[j] \in 1 .. Len(s) /\ ~(h[i] < h[j]) /\ ~(h[j] < h[i])
    BY <1>3, <2>2
  <2>4. ~(i < j) /\ ~(j < i)
    BY <1>3, <2>3
  <2> QED BY <2>4
<1>7. Picked(r, s) /\ \E g : Selects(g, r, s, Len(s), T)
  BY <1>2, <1>4, <1>5, <1>6 DEF Picked
<1> QED BY <1>1, <1>7 DEF r

(* A prefix is picked from its sequence. *)
LEMMA PrefixPicks ==
    ASSUME NEW X, NEW s \in Seq(X), NEW n \in 0 .. Len(s)
    PROVE  /\ SubSeq(s, 1, n) \in Seq(X) /\ Len(SubSeq(s, 1, n)) = n
           /\ Picked(SubSeq(s, 1, n), s)
           /\ \A i \in 1 .. n : SubSeq(s, 1, n)[i] = s[i]
<1> DEFINE r == SubSeq(s, 1, n)
<1>1. /\ r \in Seq(X) /\ Len(r) = n /\ \A i \in 1 .. n : r[i] = s[i]
  OBVIOUS
<1>2. Len(s) \in Nat
  OBVIOUS
<1> HIDE DEF r
<1>3. ToSet(r) \subseteq ToSet(s)
  <2>1. ToSet(r) = {r[i] : i \in 1 .. Len(r)} /\ ToSet(s) = {s[i] : i \in 1 .. Len(s)}
    BY <1>1 DEF ToSet
  <2> QED BY <2>1, <1>1, <1>2
<1>4. ASSUME IsInjective(s) PROVE IsInjective(r)
  <2>1. DOMAIN r = 1 .. n /\ DOMAIN s = 1 .. Len(s)
    BY <1>1
  <2> QED BY <1>1, <1>2, <1>4, <2>1 DEF IsInjective
<1>5. Picked(r, s)
  BY <1>1, <1>2, <1>3, <1>4 DEF Picked
<1> QED BY <1>1, <1>5 DEF r

-----------------------------------------------------------------------------
(* The server's steps. *)

LEMMA RecvTxIdsStep ==
    ASSUME Good(ts, aborted, srv, cli, wire), NEW p \in Peers, RecvTxIds(p)
    PROVE  Good(ts', aborted', srv', cli', wire')
<1> DEFINE s == srv[p]
           c == cli[p]
           m == wire[p]
           x == [s EXCEPT !.pc = "filter", !.adv = m.txids, !.ack = 0]
<1>1. /\ s.pc = "ids" /\ m.type = "ReplyTxIds" /\ ts' = ts /\ aborted' = aborted /\ srv' = [srv EXCEPT ![p] = x]
      /\ cli' = cli /\ wire' = [wire EXCEPT ![p] = <<>>]
  BY DEF RecvTxIds
<1>2. /\ s \in ServerStates /\ c \in ClientStates /\ SessionOK(s, c, m) /\ PoolOK(c)
      /\ p \in Registered(ts) /\ [cli EXCEPT ![p] = c] = cli
      /\ TxStateOK(ts) /\ Accounted(ts) /\ Orphans(ts, aborted, srv) /\ srv \in [Peers -> ServerStates]
  BY <1>1, OneSession
<1>3. AtIds(s, c, m)
  BY <1>1, <1>2 DEF SessionOK
<1>4. m.txids = c.out /\ c.st = "idle" /\ Offered(c)
  BY <1>1, <1>3 DEF AtIds, Asking, Answering
<1>5. c.out \in Seq(Txs) /\ 0 \in 0 .. BatchSize
  BY <1>2, TxSubmissionAssumption DEF ClientStates
<1>6. x \in ServerStates /\ x.pc = "filter" /\ x.adv = c.out
  <2> DEFINE z == 0
  <2>1. x = [s EXCEPT !.pc = "filter", !.adv = c.out, !.ack = z]
    BY <1>4
  <2>2. z \in 0 .. BatchSize
    BY <1>5
  <2> HIDE DEF x, z, s, c
  <2> QED BY <1>2, <1>5, <2>1, <2>2 DEF ServerStates
<1> HIDE DEF x
<1>7. SessionOK(x, c, <<>>)
  <2>1. AtFilter(x, c, <<>>)
    BY <1>4, <1>6 DEF AtFilter
  <2> QED BY <2>1, <1>6 DEF SessionOK
<1>8. p \notin aborted => ts.peers[p].inflight = {}
  BY <1>1, <1>2 DEF Orphans
<1>9. Orphans(ts, aborted, [srv EXCEPT ![p] = x])
  BY <1>2, <1>6, <1>8, OrphansKept
<1>10. Good(ts, aborted, [srv EXCEPT ![p] = x], [cli EXCEPT ![p] = c], [wire EXCEPT ![p] = <<>>])
  BY <1>2, <1>6, <1>7, <1>9, PeerStep
<1> QED BY <1>1, <1>2, <1>10

(* The ids that are known or in flight elsewhere are dropped. *)
LEMMA FilterActionStep ==
    ASSUME Good(ts, aborted, srv, cli, wire), NEW p \in Peers, Filter(p)
    PROVE  Good(ts', aborted', srv', cli', wire')
<1> DEFINE s == srv[p]
           c == cli[p]
           m == wire[p]
           v == FilterAdvertised(ts, p, s.adv)
           r == ToFetch(ts, s.adv)
           x == IF r = <<>> THEN [Off EXCEPT !.pc = "ask", !.ack = Len(s.adv)]
                ELSE [s EXCEPT !.pc = "budget", !.fetch = r]
<1>1. /\ s.pc = "filter" /\ ts' = v /\ aborted' = aborted /\ srv' = [srv EXCEPT ![p] = x]
      /\ cli' = cli /\ wire' = wire
  BY DEF Filter
<1>2. /\ s \in ServerStates /\ c \in ClientStates /\ SessionOK(s, c, m) /\ PoolOK(c)
      /\ p \in Registered(ts) /\ [cli EXCEPT ![p] = c] = cli /\ [wire EXCEPT ![p] = m] = wire
      /\ TxStateOK(ts) /\ Accounted(ts) /\ Orphans(ts, aborted, srv) /\ srv \in [Peers -> ServerStates]
  BY <1>1, OneSession
<1>3. AtFilter(s, c, m)
  BY <1>1, <1>2 DEF SessionOK
<1>4. c.st = "idle" /\ m = <<>> /\ s.adv = c.out /\ Offered(c)
  BY <1>3 DEF AtFilter
<1>5. s.adv \in Seq(Txs) /\ Len(s.adv) \in 0 .. BatchSize
  <2>1. s.adv \in Seq(Txs) /\ Len(s.adv) <= BatchSize
    BY <1>2, <1>4 DEF ServerStates, Offered
  <2> QED BY <2>1, TxSubmissionAssumption
<1>6. r \in Seq(Txs) /\ Picked(r, s.adv)
  BY <1>5, RetainPicks DEF ToFetch
<1>7. OneStep(ts, v, p, ts.peers[p].inflight, ts.global)
  BY <1>2, <1>5, FilterStep
<1> HIDE DEF v, r, s, c, m
<1>8. ASSUME r = <<>> PROVE x \in ServerStates /\ x.pc # "off" /\ SessionOK(x, c, m)
  <2>1. x = [Off EXCEPT !.pc = "ask", !.ack = Len(s.adv)]
    BY <1>8
  <2> HIDE DEF x
  <2> DEFINE k == Len(s.adv)
  <2>2. k \in 0 .. BatchSize
    BY <1>5
  <2>3. x = [Off EXCEPT !.pc = "ask", !.ack = k]
    BY <2>1
  <2> HIDE DEF k
  <2>4. x \in ServerStates /\ x.pc = "ask" /\ x.ack = k
    BY <2>2, <2>3, OffTyped DEF ServerStates
  <2>5. AtAsk(x, c, m)
    BY <2>4, <1>4 DEF AtAsk, Settled, k
  <2> QED BY <2>4, <2>5 DEF SessionOK
<1>9. ASSUME r # <<>> PROVE x \in ServerStates /\ x.pc # "off" /\ SessionOK(x, c, m)
  <2>1. x = [s EXCEPT !.pc = "budget", !.fetch = r]
    BY <1>9
  <2> HIDE DEF x
  <2>2. x \in ServerStates /\ x.pc = "budget" /\ x.fetch = r /\ x.adv = s.adv
    BY <2>1, <1>2, <1>6 DEF ServerStates
  <2>3. Within(r, c) /\ Len(r) <= Len(s.adv)
    BY <1>4, <1>6 DEF Within, Picked, Offered
  <2>4. AtBudget(x, c, m)
    BY <2>2, <2>3, <1>4, <1>9 DEF AtBudget, AtFilter
  <2> QED BY <2>2, <2>4 DEF SessionOK
<1> HIDE DEF x
<1>10. x \in ServerStates /\ x.pc # "off" /\ SessionOK(x, c, m)
  BY <1>8, <1>9
<1>11. p \notin aborted => ts.peers[p].inflight = {}
  BY <1>1, <1>2 DEF Orphans, s
<1>12. Orphans(v, aborted, [srv EXCEPT ![p] = x])
  <2> DEFINE I == ts.peers[p].inflight
             g == ts.global
  <2>1. /\ OneStep(ts, v, p, I, g) /\ (p \notin aborted => I = {})
        /\ g \subseteq (ts.global \ ts.peers[p].inflight) \cup I
    BY <1>7, <1>11
  <2>2. p \notin aborted /\ I # {} => x.pc = "txs" /\ I \subseteq ToSet(x.take)
    BY <2>1
  <2> HIDE DEF I, g
  <2>3. Orphans(ts, aborted, srv) /\ srv \in [Peers -> ServerStates] /\ p \in Registered(ts) /\ x.pc # "off"
    BY <1>2, <1>10
  <2> QED BY <2>1, <2>2, <2>3, OrphansStep
<1>13. TxStateOK(v) /\ Accounted(v)
  BY <1>7 DEF OneStep
<1>14. Good(v, aborted, [srv EXCEPT ![p] = x], [cli EXCEPT ![p] = c], [wire EXCEPT ![p] = m])
  BY <1>2, <1>10, <1>12, <1>13, PeerStep
<1> QED BY <1>1, <1>2, <1>14

(* clamp_to_count_budget: a prefix, and never none. *)
LEMMA ClampPicks ==
    ASSUME NEW s \in Seq(Txs), s # <<>>, NEW k \in Nat
    PROVE  /\ ClampToCount(s, k) \in Seq(Txs) /\ ClampToCount(s, k) # <<>>
           /\ Picked(ClampToCount(s, k), s)
<1> DEFINE a == Max({1, k})
           n == Min({a, Len(s)})
<1>1. Len(s) \in Nat /\ Len(s) >= 1
  OBVIOUS
<1>2. a \in Nat /\ a >= 1
  BY MaxTwo
<1> HIDE DEF a
<1>3. n \in 0 .. Len(s) /\ n >= 1
  BY <1>1, <1>2, MinTwo
<1> HIDE DEF n
<1>4. SubSeq(s, 1, n) \in Seq(Txs) /\ Len(SubSeq(s, 1, n)) = n /\ Picked(SubSeq(s, 1, n), s)
  BY <1>3, PrefixPicks
<1>5. SubSeq(s, 1, n) # <<>>
  BY <1>3, <1>4
<1> QED BY <1>4, <1>5 DEF ClampToCount, n, a

(* What a candidate leaves of a budget. *)
Spend(x, t) == Max({0, x - Size[t]})

LEMMA SpendIs ==
    ASSUME NEW x \in Nat, NEW t \in Txs
    PROVE  /\ Spend(x, t) = IF x >= Size[t] THEN x - Size[t] ELSE 0
           /\ Spend(x, t) \in Nat /\ Size[t] \in Nat
<1> DEFINE z == Size[t]
<1>1. z \in Nat
  BY TxStateAssumption
<1> HIDE DEF z
<1>2. x - z \in Int
  BY <1>1
<1>3. Max({0, x - z}) = IF 0 >= x - z THEN 0 ELSE x - z
  BY <1>2, MaxTwo
<1>4. Spend(x, t) = IF 0 >= x - z THEN 0 ELSE x - z
  BY <1>3 DEF Spend, z
<1>5. Spend(x, t) = (IF x >= z THEN x - z ELSE 0) /\ Spend(x, t) \in Nat
  BY <1>1, <1>4
<1> QED BY <1>1, <1>5 DEF z

(* What select_within_byte_budget has left after each candidate. *)
Leaves(left, s, b) ==
    left = [n \in 0 .. Len(s) |-> IF n = 0 THEN b ELSE Spend(left[n - 1], s[n])]

LEMMA LeftExists ==
    ASSUME NEW s \in Seq(Txs), NEW b \in Nat
    PROVE  \E left : Leaves(left, s, b)
<1> DEFINE N == Len(s)
           F == [n \in 1 .. N |-> [x \in Nat |-> Spend(x, s[n])]]
<1>1. N \in Nat /\ \A n \in 1 .. N : s[n] \in Txs
  OBVIOUS
<1>2. \A n \in 1 .. N : \A x \in Nat : Spend(x, s[n]) \in Nat
  BY <1>1, SpendIs
<1>3. F \in [1 .. N -> [Nat -> Nat]]
  BY <1>2
<1> HIDE DEF N
<1>4. PICK g \in [0 .. N -> Nat] : Solves(g, N, b, F)
  <2> HIDE DEF F
  <2> QED BY <1>1, <1>3, RecursionExists DEF Solvable
<1>5. \A n \in 1 .. N : g[n] = Spend(g[n - 1], s[n])
  <2> SUFFICES ASSUME NEW n \in 1 .. N PROVE g[n] = Spend(g[n - 1], s[n])
    OBVIOUS
  <2>1. g[n] = F[n][g[n - 1]]
    <3> HIDE DEF F
    <3> QED BY <1>4 DEF Solves
  <2>2. g[n - 1] \in Nat
    <3>1. n - 1 \in 0 .. N
      BY <1>1
    <3> QED BY <3>1, <1>4
  <2>3. F[n] = [x \in Nat |-> Spend(x, s[n])]
    OBVIOUS
  <2> HIDE DEF F
  <2> QED BY <2>1, <2>2, <2>3
<1>6. g[0] = b
  BY <1>4 DEF Solves
<1> HIDE DEF F
<1>7. \A n \in 0 .. N : g[n] = IF n = 0 THEN b ELSE Spend(g[n - 1], s[n])
  BY <1>1, <1>5, <1>6
<1>8. g = [n \in 0 .. N |-> g[n]]
  BY <1>4
<1>9. g = [n \in 0 .. N |-> IF n = 0 THEN b ELSE Spend(g[n - 1], s[n])]
  BY <1>7, <1>8, Zenon
<1> QED BY <1>9, Zenon DEF Leaves, N

(* It is a number, and never less than 0. *)
LEMMA LeftMeans ==
    ASSUME NEW s \in Seq(Txs), NEW b \in Nat, NEW left, Leaves(left, s, b)
    PROVE  /\ left \in [0 .. Len(s) -> Nat] /\ left[0] = b
           /\ \A n \in 1 .. Len(s) : left[n] = IF left[n - 1] >= Size[s[n]]
                                               THEN left[n - 1] - Size[s[n]] ELSE 0
<1> DEFINE N == Len(s)
<1>1. N \in Nat /\ \A n \in 1 .. N : s[n] \in Txs
  OBVIOUS
<1>2. left = [n \in 0 .. N |-> IF n = 0 THEN b ELSE Spend(left[n - 1], s[n])]
  BY DEF Leaves
<1> HIDE DEF N
<1>3. \A n \in 0 .. N : left[n] = IF n = 0 THEN b ELSE Spend(left[n - 1], s[n])
  BY <1>2, Zenon
<1>4. left[0] = b
  BY <1>1, <1>3
<1> DEFINE U == {n \in Nat : n <= N => left[n] \in Nat}
<1>5. 0 \in U
  BY <1>4
<1>6. ASSUME NEW n \in Nat, n \in U PROVE n + 1 \in U
  <2> SUFFICES ASSUME n + 1 <= N PROVE left[n + 1] \in Nat
    OBVIOUS
  <2>1. left[n] \in Nat /\ n + 1 \in 1 .. N /\ n + 1 \in 0 .. N /\ n + 1 # 0 /\ (n + 1) - 1 = n
    BY <1>1, <1>6
  <2>2. left[n + 1] = Spend(left[n], s[n + 1])
    BY <1>3, <2>1
  <2>3. s[n + 1] \in Txs
    BY <1>1, <2>1
  <2> QED BY <2>1, <2>2, <2>3, SpendIs
<1>7. Nat \subseteq U
  <2> HIDE DEF U
  <2> QED BY <1>5, <1>6, NatInductionOnSet
<1>8. ASSUME NEW n \in 0 .. N PROVE left[n] \in Nat
  <2>1. n \in Nat /\ n <= N
    BY <1>1
  <2> QED BY <1>7, <2>1
<1>9. ASSUME NEW n \in 1 .. N
      PROVE  left[n] = IF left[n - 1] >= Size[s[n]] THEN left[n - 1] - Size[s[n]] ELSE 0
  <2>1. n \in 0 .. N /\ n # 0 /\ n - 1 \in 0 .. N
    BY <1>1
  <2>2. left[n] = Spend(left[n - 1], s[n]) /\ left[n - 1] \in Nat /\ s[n] \in Txs
    BY <1>1, <1>3, <1>8, <2>1
  <2> QED BY <2>2, SpendIs
<1>10. left = [n \in 0 .. N |-> left[n]]
  BY <1>2, <1>3, Zenon
<1>11. left \in [0 .. N -> Nat]
  BY <1>8, <1>10
<1> QED BY <1>4, <1>9, <1>11 DEF N

(* The candidates chosen so far fit with what is left, or the first did    *)
(* not fit and the others have no size.                                    *)
Chosen(s, left, b, n) ==
    \/ SizeOf(ToSet(SubSeq(s, 1, n))) + left[n] <= b
    \/ left[n] = 0 /\ \A k \in 2 .. n : Size[s[k]] = 0

(* select_within_byte_budget admits, one after the other, what fits into   *)
(* what is left.                                                           *)
LEMMA ChosenFit ==
    ASSUME NEW s \in Seq(Txs), NEW b \in Nat, NEW left \in [0 .. Len(s) -> Nat], left[0] = b,
           \A n \in 1 .. Len(s) : left[n] = IF left[n - 1] >= Size[s[n]]
                                            THEN left[n - 1] - Size[s[n]] ELSE 0,
           NEW k \in 1 .. Len(s), \A j \in 2 .. k : Size[s[j]] <= left[j - 1]
    PROVE  Chosen(s, left, b, k)
<1> DEFINE First(n) == ToSet(SubSeq(s, 1, n))
           U == {n \in Nat : n + 1 <= k => Chosen(s, left, b, n + 1)}
<1>0. Len(s) \in Nat /\ \A n \in 1 .. Len(s) : s[n] \in Txs /\ Size[s[n]] \in Nat
  BY TxStateAssumption
<1>1. ASSUME NEW n \in 0 .. Len(s) PROVE First(n) = {s[i] : i \in 1 .. n} /\ First(n) \in SUBSET Txs
  <2>1. /\ SubSeq(s, 1, n) \in Seq(Txs) /\ Len(SubSeq(s, 1, n)) = n
        /\ \A i \in 1 .. n : SubSeq(s, 1, n)[i] = s[i]
    BY PrefixPicks
  <2> DEFINE r == SubSeq(s, 1, n)
  <2> HIDE DEF r
  <2>2. r \in Seq(Txs) /\ Len(r) = n /\ \A i \in 1 .. n : r[i] = s[i]
    BY <2>1 DEF r
  <2>3. DOMAIN r = 1 .. n
    BY <2>2
  <2>4. ToSet(r) = {r[i] : i \in 1 .. n}
    BY <2>3, Zenon DEF ToSet
  <2>5. {r[i] : i \in 1 .. n} = {s[i] : i \in 1 .. n}
    <3> HIDE DEF First, U
    <3> QED BY <2>2
  <2>6. ToSet(r) = {s[i] : i \in 1 .. n}
    BY <2>4, <2>5
  <2>7. \A i \in 1 .. n : s[i] \in Txs
    BY <1>0
  <2> QED BY <2>6, <2>7 DEF r
<1> HIDE DEF First
<1>2. 0 \in U
  <2>1. First(1) = {s[1]} /\ First(1) \in SUBSET Txs /\ 1 \in 1 .. Len(s)
    <3>1. 1 \in 0 .. Len(s) /\ 1 \in 1 .. Len(s)
      BY <1>0
    <3>2. First(1) = {s[i] : i \in 1 .. 1} /\ First(1) \in SUBSET Txs
      BY <3>1, <1>1
    <3>3. 1 .. 1 = {1}
      OBVIOUS
    <3> QED BY <3>1, <3>2, <3>3
  <2>2. SizeOf(First(1)) = Size[s[1]] /\ Size[s[1]] \in Nat
    <3>1. SizeOf(First(1)) = Size[s[1]] + SizeOf(First(1) \ {s[1]})
      BY <2>1, SizeOfMore
    <3>2. First(1) \ {s[1]} = {}
      BY <2>1
    <3>3. SizeOf({}) = 0
      BY SumEmpty DEF SizeOf
    <3>4. Size[s[1]] \in Nat
      BY <2>1, <1>0
    <3>5. SizeOf(First(1) \ {s[1]}) = 0
      BY <3>2, <3>3
    <3> HIDE DEF U
    <3> QED BY <3>1, <3>4, <3>5
  <2>3. left[1] = IF b >= Size[s[1]] THEN b - Size[s[1]] ELSE 0
    <3>1. 1 - 1 = 0
      OBVIOUS
    <3> QED BY <2>1, <3>1
  <2>4. SizeOf(First(1)) + left[1] <= b \/ left[1] = 0
    BY <2>2, <2>3
  <2>5. 2 .. 1 = {}
    OBVIOUS
  <2>6. Chosen(s, left, b, 1)
    BY <2>4, <2>5 DEF Chosen, First
  <2>7. 0 + 1 = 1
    OBVIOUS
  <2> QED BY <2>6, <2>7
<1>3. ASSUME NEW m \in Nat, m \in U PROVE m + 1 \in U
  <2> DEFINE n == m + 1
             z == Size[s[n + 1]]
             A == First(n)
             B == First(n + 1)
  <2> SUFFICES ASSUME n + 1 <= k PROVE Chosen(s, left, b, n + 1)
    OBVIOUS
  <2>1. /\ n \in Nat /\ n \in 1 .. Len(s) /\ n \in 0 .. Len(s) /\ n + 1 \in 1 .. Len(s) /\ n + 1 \in 0 .. Len(s)
        /\ n + 1 \in 2 .. k /\ (n + 1) - 1 = n
    BY <1>0
  <2>2. Chosen(s, left, b, n)
    BY <1>3, <1>0
  <2> HIDE DEF n
  <2>3. z <= left[n] /\ z \in Nat /\ left[n] \in Nat
    BY <1>0, <2>1
  <2>4. left[n + 1] = left[n] - z
    <3>1. left[n + 1] = IF left[n] >= z THEN left[n] - z ELSE 0
      BY <2>1
    <3> QED BY <2>3, <3>1
  <2>5. SizeOf(B) <= SizeOf(A) + z /\ SizeOf(A) \in Nat /\ SizeOf(B) \in Nat
    <3>1. A = {s[i] : i \in 1 .. n} /\ A \in SUBSET Txs
      BY <2>1, <1>1
    <3>2. B = {s[i] : i \in 1 .. (n + 1)} /\ B \in SUBSET Txs
      BY <2>1, <1>1
    <3>3. B = A \cup {s[n + 1]}
      <4>1. 1 .. (n + 1) = (1 .. n) \cup {n + 1}
        BY <2>1
      <4> QED BY <3>1, <3>2, <4>1
    <3> HIDE DEF A, B
    <3>4. SizeOf(B) = z + SizeOf(B \ {s[n + 1]}) /\ SizeOf(B) \in Nat /\ SizeOf(B \ {s[n + 1]}) \in Nat
      <4>1. s[n + 1] \in B
        BY <3>3
      <4> QED BY <3>2, <4>1, SizeOfMore
    <3>5. B \ {s[n + 1]} \in SUBSET A
      BY <3>3
    <3>6. /\ SizeOf(A) = SizeOf(B \ {s[n + 1]}) + SizeOf(A \ (B \ {s[n + 1]}))
          /\ SizeOf(A) \in Nat /\ SizeOf(A \ (B \ {s[n + 1]})) \in Nat
      BY <3>1, <3>5, SizeSplits
    <3> DEFINE e == SizeOf(B \ {s[n + 1]})
               f == SizeOf(A \ (B \ {s[n + 1]}))
    <3>7. SizeOf(B) = z + e /\ SizeOf(A) = e + f /\ e \in Nat /\ f \in Nat
      BY <3>4, <3>6
    <3> HIDE DEF e, f, z
    <3> QED BY <3>4, <3>6, <3>7, <2>3
  <2>6. CASE SizeOf(A) + left[n] <= b
    <3>1. SizeOf(B) + left[n + 1] <= b
      <4> DEFINE y == left[n]
                 w == left[n + 1]
                 sa == SizeOf(A)
                 sb == SizeOf(B)
      <4>1. /\ z <= y /\ z \in Nat /\ y \in Nat /\ w = y - z /\ sb <= sa + z
            /\ sa \in Nat /\ sb \in Nat /\ sa + y <= b /\ b \in Nat
        <5> HIDE DEF A, B, z
        <5> QED BY <2>3, <2>4, <2>5, <2>6
      <4> HIDE DEF A, B, z, y, w, sa, sb
      <4>2. sb + w <= b
        BY <4>1
      <4> QED BY <4>2 DEF w, sb
    <3> QED BY <3>1 DEF Chosen, B, First
  <2>7. CASE left[n] = 0 /\ \A j \in 2 .. n : Size[s[j]] = 0
    <3>1. z = 0 /\ left[n + 1] = 0
      <4> HIDE DEF z
      <4> QED BY <2>3, <2>4, <2>7
    <3>2. \A j \in 2 .. (n + 1) : j = n + 1 \/ j \in 2 .. n
      BY <2>1
    <3>3. \A j \in 2 .. (n + 1) : Size[s[j]] = 0
      BY <2>7, <3>1, <3>2
    <3> QED BY <3>1, <3>3 DEF Chosen
  <2> QED BY <2>2, <2>6, <2>7 DEF Chosen, A, First
<1>4. Nat \subseteq U
  <2> HIDE DEF U
  <2> QED BY <1>2, <1>3, NatInductionOnSet
<1>5. k - 1 \in U /\ (k - 1) + 1 = k /\ k <= k
  <2>1. k - 1 \in Nat /\ (k - 1) + 1 = k /\ k <= k
    BY <1>0
  <2> HIDE DEF U
  <2> QED BY <1>4, <2>1
<1> QED BY <1>5

(* select_within_byte_budget: a prefix that fits, or one transaction and   *)
(* others of no size.                                                      *)
LEMMA BytesPicks ==
    ASSUME NEW s \in Seq(Txs), s # <<>>, NEW b \in Nat, NEW r, r = SelectWithinBytes(s, b)
    PROVE  r \in Seq(Txs) /\ r # <<>> /\ Picked(r, s) /\ FitsIn(r, b)
<1> DEFINE left[n \in 0 .. Len(s)] == IF n = 0 THEN b ELSE Spend(left[n - 1], s[n])
           S == {n \in 1 .. Len(s) : \A j \in 2 .. n : Size[s[j]] <= left[j - 1]}
           k == Max(S)
<1>1. Len(s) \in Nat /\ Len(s) >= 1
  OBVIOUS
<1>2. r = SubSeq(s, 1, k)
  BY Zenon DEF SelectWithinBytes, Spend
<1>12. Leaves(left, s, b)
  <2>1. PICK g : Leaves(g, s, b)
    BY LeftExists
  <2>2. g = [n \in 0 .. Len(s) |-> IF n = 0 THEN b ELSE Spend(g[n - 1], s[n])]
    BY <2>1 DEF Leaves
  <2>3. left = [n \in 0 .. Len(s) |-> IF n = 0 THEN b ELSE Spend(left[n - 1], s[n])]
    BY <2>2, Zenon
  <2> QED BY <2>3, Zenon DEF Leaves
<1> HIDE DEF left
<1>3. /\ left \in [0 .. Len(s) -> Nat] /\ left[0] = b
      /\ \A n \in 1 .. Len(s) : left[n] = IF left[n - 1] >= Size[s[n]]
                                          THEN left[n - 1] - Size[s[n]] ELSE 0
  BY <1>12, LeftMeans
<1>4. S \in SUBSET (1 .. Len(s)) /\ 1 \in S
  BY <1>1
<1>5. k \in S
  <2> HIDE DEF S
  <2> QED BY <1>1, <1>4, MaxExists
<1>6. k \in 1 .. Len(s) /\ \A j \in 2 .. k : Size[s[j]] <= left[j - 1]
  BY <1>5
<1> HIDE DEF k, S
<1>7. Chosen(s, left, b, k)
  BY <1>3, <1>6, ChosenFit
<1>8. r \in Seq(Txs) /\ Len(r) = k /\ Picked(r, s) /\ \A i \in 1 .. k : r[i] = s[i]
  BY <1>1, <1>2, <1>6, PrefixPicks
<1>9. ToSet(r) = {r[i] : i \in 1 .. k}
  BY <1>8 DEF ToSet
<1>10. CASE SizeOf(ToSet(r)) + left[k] <= b
  <2>1. ToSet(r) \in SUBSET Txs
    BY <1>8 DEF ToSet
  <2>2. SizeOf(ToSet(r)) \in Nat
    BY <2>1, SizeType
  <2>3. left[k] \in Nat
    BY <1>3, <1>6
  <2>4. SizeOf(ToSet(r)) <= b
    BY <1>10, <2>2, <2>3
  <2> QED BY <1>1, <1>6, <1>8, <2>4 DEF FitsIn
<1>11. CASE \A j \in 2 .. k : Size[s[j]] = 0
  <2>1. r[1] \in ToSet(r)
    BY <1>1, <1>6, <1>9
  <2>2. ASSUME NEW o \in ToSet(r) \ {r[1]} PROVE Size[o] = 0
    <3>1. PICK i \in 1 .. k : o = r[i]
      BY <1>9
    <3>2. i \in 2 .. k
      BY <3>1, <2>2, <1>6
    <3> QED BY <1>8, <1>11, <3>1, <3>2
  <2> QED BY <1>1, <1>6, <1>8, <2>1, <2>2 DEF FitsIn
<1> QED BY <1>2, <1>7, <1>10, <1>11 DEF Chosen

(* Picking from what was picked. *)
LEMMA PickedTwice ==
    ASSUME NEW q \in Seq(Txs), NEW r \in Seq(Txs), NEW s \in Seq(Txs), Picked(q, r), Picked(r, s)
    PROVE  Picked(q, s)
<1>1. Len(q) \in Nat /\ Len(r) \in Nat /\ Len(s) \in Nat
  OBVIOUS
<1> QED BY <1>1 DEF Picked

(* What goes beyond the budget is deferred. *)
LEMMA BudgetStep ==
    ASSUME Good(ts, aborted, srv, cli, wire), NEW p \in Peers, Budget(p)
    PROVE  Good(ts', aborted', srv', cli', wire')
<1> DEFINE s == srv[p]
           c == cli[p]
           m == wire[p]
           mine == ts.peers[p]
           j == Max({0, MaxRequested - Cardinality(mine.inflight)})
           counted == ClampToCount(s.fetch, j)
           b1 == Max({0, PeerBytes - mine.bytes})
           b2 == Max({0, TotalBytes - ts.total})
           b == Min({b1, b2})
           take == SelectWithinBytes(counted, b)
           d == Len(s.fetch) - Len(take)
           x == [s EXCEPT !.pc = "mark", !.take = take, !.deferred = d]
<1>1. /\ s.pc = "budget" /\ ts' = ts /\ aborted' = aborted /\ srv' = [srv EXCEPT ![p] = x]
      /\ cli' = cli /\ wire' = wire
  BY DEF Budget
<1>2. /\ s \in ServerStates /\ c \in ClientStates /\ SessionOK(s, c, m) /\ PoolOK(c)
      /\ p \in Registered(ts) /\ [cli EXCEPT ![p] = c] = cli /\ [wire EXCEPT ![p] = m] = wire
      /\ TxStateOK(ts) /\ Accounted(ts) /\ Orphans(ts, aborted, srv) /\ srv \in [Peers -> ServerStates]
  BY <1>1, OneSession
<1>3. AtBudget(s, c, m)
  BY <1>1, <1>2 DEF SessionOK
<1>4. /\ s.fetch # <<>> /\ Within(s.fetch, c) /\ Len(s.fetch) <= Len(s.adv)
      /\ Len(s.adv) <= BatchSize
  BY <1>3 DEF AtBudget, AtFilter, Offered
<1>5. p \notin aborted => mine.inflight = {}
  BY <1>1, <1>2 DEF Orphans
<1>6. mine.bytes \in Nat /\ ts.total \in Nat
  BY <1>2, TxStateParts
<1>7. s.fetch \in Seq(Txs) /\ s.adv \in Seq(Txs)
  BY <1>2 DEF ServerStates
<1>8. MaxRequested \in Nat /\ PeerBytes \in Nat /\ TotalBytes \in Nat /\ BatchSize \in Nat
  BY TxSubmissionAssumption
<1>9. j \in Nat
  <2>1. mine.inflight \in SUBSET Txs
    BY <1>2, TxStateParts
  <2> DEFINE o == Cardinality(mine.inflight)
  <2>2. o \in Nat
    BY <2>1, SizeType, FS_CardinalityType
  <2> HIDE DEF o
  <2>3. MaxRequested - o \in Int
    BY <2>2, <1>8
  <2>4. j = Max({0, MaxRequested - o})
    BY DEF o
  <2> QED BY <2>3, <2>4, MaxTwo
<1> HIDE DEF j
<1>10. b1 \in Nat /\ b1 <= PeerBytes
  <2> HIDE DEF mine
  <2>1. PeerBytes - mine.bytes \in Int
    BY <1>6, <1>8
  <2>2. b1 = IF 0 >= PeerBytes - mine.bytes THEN 0 ELSE PeerBytes - mine.bytes
    BY <2>1, MaxTwo
  <2> HIDE DEF b1
  <2> QED BY <2>2, <1>6, <1>8
<1>11. b2 \in Nat
  <2>1. TotalBytes - ts.total \in Int
    BY <1>6, <1>8
  <2> QED BY <2>1, MaxTwo
<1> HIDE DEF b1, b2
<1>12. b \in Nat /\ b <= PeerBytes
  BY <1>8, <1>10, <1>11, MinTwo
<1> HIDE DEF b, mine
<1>13. counted \in Seq(Txs) /\ counted # <<>> /\ Picked(counted, s.fetch)
  BY <1>4, <1>7, <1>9, ClampPicks
<1> HIDE DEF counted
<1>14. take \in Seq(Txs) /\ take # <<>> /\ Picked(take, counted) /\ FitsIn(take, b)
  BY <1>12, <1>13, BytesPicks
<1> HIDE DEF take
<1>15. Picked(take, s.fetch)
  BY <1>7, <1>13, <1>14, PickedTwice
<1>16. Within(take, c) /\ Fits(take)
  <2>1. Within(take, c)
    BY <1>4, <1>15 DEF Within, Picked
  <2>2. SizeOf(ToSet(take)) \in Nat
    <3>1. ToSet(take) \in SUBSET Txs
      BY <1>14 DEF ToSet
    <3> QED BY <3>1, SizeType
  <2>3. Fits(take)
    <3>1. SizeOf(ToSet(take)) <= b => SizeOf(ToSet(take)) <= PeerBytes
      <4> DEFINE z == SizeOf(ToSet(take))
      <4>1. z \in Nat
        BY <2>2
      <4> HIDE DEF z
      <4>2. z <= b => z <= PeerBytes
        BY <4>1, <1>8, <1>12
      <4> QED BY <4>2 DEF z
    <3> QED BY <3>1, <1>14 DEF Fits, FitsIn
  <2> QED BY <2>1, <2>3
<1>17. d \in 0 .. BatchSize
  <2>1. Len(take) <= Len(s.fetch)
    BY <1>15 DEF Picked
  <2>2. Len(take) \in Nat /\ Len(s.fetch) \in Nat /\ Len(s.adv) \in Nat
    BY <1>7, <1>14
  <2> QED BY <2>1, <2>2, <1>4, <1>8
<1> HIDE DEF s, d
<1>18. /\ x \in ServerStates /\ x.pc = "mark" /\ x.take = take /\ x.deferred = d
       /\ x.fetch = s.fetch /\ x.adv = s.adv
  BY <1>2, <1>14, <1>17 DEF ServerStates
<1> HIDE DEF x
<1>19. AtMark(x, c, m)
  BY <1>3, <1>14, <1>16, <1>18 DEF AtMark, AtBudget, AtFilter, d
<1>20. SessionOK(x, c, m)
  BY <1>18, <1>19 DEF SessionOK
<1>21. Orphans(ts, aborted, [srv EXCEPT ![p] = x])
  BY <1>2, <1>5, <1>18, OrphansKept DEF mine
<1>22. Good(ts, aborted, [srv EXCEPT ![p] = x], [cli EXCEPT ![p] = c], [wire EXCEPT ![p] = m])
  BY <1>2, <1>18, <1>20, <1>21, PeerStep
<1> QED BY <1>1, <1>2, <1>22

(* The ids to fetch are recorded as in flight. *)
LEMMA MarkActionStep ==
    ASSUME Good(ts, aborted, srv, cli, wire), NEW p \in Peers, Mark(p)
    PROVE  Good(ts', aborted', srv', cli', wire')
<1> DEFINE s == srv[p]
           c == cli[p]
           S == ToSet(s.take)
           v == MarkInFlightSized(ts, p, S)
           k == Len(s.adv) - s.deferred
           x == [s EXCEPT !.pc = "txs", !.ack = k]
           m == [type |-> "RequestTxs", txids |-> s.take]
<1>1. /\ s.pc = "mark" /\ ts' = v /\ aborted' = aborted /\ srv' = [srv EXCEPT ![p] = x]
      /\ cli' = cli /\ wire' = [wire EXCEPT ![p] = m]
  BY DEF Mark
<1>2. /\ s \in ServerStates /\ c \in ClientStates /\ SessionOK(s, c, wire[p]) /\ PoolOK(c)
      /\ p \in Registered(ts) /\ [cli EXCEPT ![p] = c] = cli
      /\ TxStateOK(ts) /\ Accounted(ts) /\ Orphans(ts, aborted, srv) /\ srv \in [Peers -> ServerStates]
  BY <1>1, OneSession
<1>3. AtMark(s, c, wire[p])
  BY <1>1, <1>2 DEF SessionOK
<1>4. /\ s.take \in Seq(Txs) /\ s.adv \in Seq(Txs) /\ s.fetch \in Seq(Txs) /\ s.deferred \in Nat
      /\ S \in SUBSET Txs
  <2>1. s.take \in Seq(Txs) /\ s.adv \in Seq(Txs) /\ s.fetch \in Seq(Txs) /\ s.deferred \in Nat
    BY <1>2 DEF ServerStates
  <2> HIDE DEF s
  <2> QED BY <2>1 DEF ToSet
<1>5. p \notin aborted => ts.peers[p].inflight = {}
  BY <1>1, <1>2 DEF Orphans
<1>6. k \in 0 .. BatchSize
  <2>1. /\ s.deferred = Len(s.fetch) - Len(s.take) /\ Len(s.fetch) <= Len(s.adv)
        /\ Len(s.adv) <= BatchSize
    BY <1>3 DEF AtMark, AtBudget, AtFilter, Offered
  <2>2. Len(s.fetch) \in Nat /\ Len(s.take) \in Nat /\ Len(s.adv) \in Nat /\ BatchSize \in Nat
    <3>1. BatchSize \in Nat
      BY TxSubmissionAssumption
    <3>2. s.fetch \in Seq(Txs) /\ s.take \in Seq(Txs) /\ s.adv \in Seq(Txs)
      BY <1>4
    <3> HIDE DEF s
    <3> QED BY <3>1, <3>2
  <2> DEFINE a == Len(s.adv)
             f == Len(s.fetch)
             n == Len(s.take)
             d == s.deferred
  <2>3. /\ d = f - n /\ f <= a /\ a <= BatchSize /\ f \in Nat /\ n \in Nat /\ a \in Nat
        /\ BatchSize \in Nat /\ d \in Nat
    BY <2>1, <2>2, <1>4
  <2> HIDE DEF a, f, n, d
  <2>4. a - d \in 0 .. BatchSize
    BY <2>3
  <2> QED BY <2>4 DEF a, d
<1>7. OneStep(ts, v, p, ts.peers[p].inflight \cup S, ts.global \cup (S \ ts.peers[p].inflight))
  BY <1>2, <1>4, MarkStep
<1> HIDE DEF v, s, k
<1>9. /\ x \in ServerStates /\ x.pc = "txs" /\ x.take = s.take /\ x.deferred = s.deferred
      /\ x.ack = k
  BY <1>2, <1>6 DEF ServerStates
<1> HIDE DEF x
<1>10. AtTxs(x, c, m)
  <2>1. /\ c.st = "idle" /\ Fits(s.take) /\ s.take # <<>> /\ Within(s.take, c) /\ s.adv = c.out
    BY <1>3 DEF AtMark, AtBudget, AtFilter
  <2>2. Settled(x, c)
    <3> SUFFICES ASSUME x.deferred = 0 PROVE x.ack = Len(c.out)
      BY DEF Settled
    <3>1. k = Len(s.adv) - 0
      BY <1>9 DEF k
    <3>2. Len(s.adv) \in Nat
      BY <1>4
    <3> QED BY <1>9, <2>1, <3>1, <3>2
  <2> QED BY <1>9, <2>1, <2>2 DEF AtTxs
<1>11. SessionOK(x, c, m)
  BY <1>9, <1>10 DEF SessionOK
<1>12. Orphans(v, aborted, [srv EXCEPT ![p] = x])
  <2> DEFINE I == ts.peers[p].inflight \cup S
             g == ts.global \cup (S \ ts.peers[p].inflight)
  <2>1. OneStep(ts, v, p, I, g) /\ g \subseteq (ts.global \ ts.peers[p].inflight) \cup I
    BY <1>7
  <2>2. p \notin aborted /\ I # {} => x.pc = "txs" /\ I \subseteq ToSet(x.take)
    BY <1>5, <1>9
  <2> HIDE DEF I, g
  <2>3. Orphans(ts, aborted, srv) /\ srv \in [Peers -> ServerStates] /\ p \in Registered(ts) /\ x.pc # "off"
    BY <1>2, <1>9
  <2> QED BY <2>1, <2>2, <2>3, OrphansStep
<1>13. TxStateOK(v) /\ Accounted(v)
  BY <1>7 DEF OneStep
<1> HIDE DEF m
<1>14. Good(v, aborted, [srv EXCEPT ![p] = x], [cli EXCEPT ![p] = c], [wire EXCEPT ![p] = m])
  BY <1>2, <1>9, <1>11, <1>12, <1>13, PeerStep
<1> QED BY <1>1, <1>2, <1>14

(* The bodies arrive. *)
LEMMA RecvTxsStep ==
    ASSUME Good(ts, aborted, srv, cli, wire), NEW p \in Peers, RecvTxs(p)
    PROVE  Good(ts', aborted', srv', cli', wire')
<1> DEFINE s == srv[p]
           c == cli[p]
           m == wire[p]
           S == ToSet(s.take)
           x == [s EXCEPT !.pc = "consume", !.bodies = m.txs]
<1>1. /\ s.pc = "txs" /\ m.type = "ReplyTxs"
      /\ ts' = MarkReceived(ts, p, s.take) \/ ts' = MarkNotFound(ts, p, s.take)
      /\ aborted' = aborted /\ srv' = [srv EXCEPT ![p] = x] /\ cli' = cli
      /\ wire' = [wire EXCEPT ![p] = <<>>]
  BY DEF RecvTxs
<1>2. /\ s \in ServerStates /\ c \in ClientStates /\ SessionOK(s, c, m) /\ PoolOK(c)
      /\ p \in Registered(ts) /\ [cli EXCEPT ![p] = c] = cli
      /\ TxStateOK(ts) /\ Accounted(ts) /\ Orphans(ts, aborted, srv) /\ srv \in [Peers -> ServerStates]
  BY <1>1, OneSession
<1>3. AtTxs(s, c, m)
  BY <1>1, <1>2 DEF SessionOK
<1>4. c.st = "idle" /\ Settled(s, c) /\ m.txs \in Seq(Txs)
  BY <1>1, <1>3 DEF AtTxs
<1>5. s.take \in Seq(Txs) /\ S \in SUBSET Txs
  <2>1. s.take \in Seq(Txs)
    BY <1>2 DEF ServerStates
  <2> HIDE DEF s
  <2> QED BY <2>1 DEF ToSet
<1>6. OneStep(ts, ts', p, ts.peers[p].inflight \ S, ts.global \ S)
  <2>1. CASE ts' = MarkReceived(ts, p, s.take)
    BY <2>1, <1>2, <1>5, ReceivedStep
  <2>2. CASE ts' = MarkNotFound(ts, p, s.take)
    <3>1. ts' = Settle(ts, p, S)
      BY <2>2 DEF MarkNotFound
    <3> HIDE DEF S
    <3> QED BY <3>1, <1>2, <1>5, SettleStep
  <2> QED BY <2>1, <2>2, <1>1
<1>7. p \notin aborted => ts.peers[p].inflight \ S = {}
  BY <1>2 DEF Orphans
<1> DEFINE bs == m.txs
<1>8. x = [s EXCEPT !.pc = "consume", !.bodies = bs] /\ bs \in Seq(Txs)
  BY <1>4
<1> HIDE DEF s, bs
<1>9. x \in ServerStates /\ x.pc = "consume" /\ x.deferred = s.deferred /\ x.ack = s.ack
  <2> HIDE DEF x
  <2> QED BY <1>2, <1>8 DEF ServerStates
<1> HIDE DEF x
<1>10. AtConsume(x, c, <<>>)
  BY <1>4, <1>9 DEF AtConsume, Settled
<1>11. SessionOK(x, c, <<>>)
  BY <1>9, <1>10 DEF SessionOK
<1>12. Orphans(ts', aborted, [srv EXCEPT ![p] = x])
  <2> DEFINE g == ts.global \ S
             I == ts.peers[p].inflight \ S
  <2>1. OneStep(ts, ts', p, I, g) /\ (p \notin aborted => I = {})
    BY <1>6, <1>7
  <2>2. g \subseteq (ts.global \ ts.peers[p].inflight) \cup I
    OBVIOUS
  <2> HIDE DEF I, g
  <2>3. Orphans(ts, aborted, srv) /\ srv \in [Peers -> ServerStates] /\ p \in Registered(ts) /\ x.pc # "off"
    BY <1>2, <1>9
  <2>4. p \notin aborted /\ I # {} => x.pc = "txs" /\ I \subseteq ToSet(x.take)
    BY <2>1
  <2> QED BY <2>1, <2>2, <2>3, <2>4, OrphansStep
<1>13. TxStateOK(ts') /\ Accounted(ts')
  BY <1>6 DEF OneStep
<1>14. Good(ts', aborted, [srv EXCEPT ![p] = x], [cli EXCEPT ![p] = c], [wire EXCEPT ![p] = <<>>])
  BY <1>2, <1>9, <1>11, <1>12, <1>13, PeerStep
<1> QED BY <1>1, <1>2, <1>14

(* The bodies are settled and submitted. *)
LEMMA ConsumeStep ==
    ASSUME Good(ts, aborted, srv, cli, wire), NEW p \in Peers, Consume(p)
    PROVE  Good(ts', aborted', srv', cli', wire')
<1> DEFINE s == srv[p]
           c == cli[p]
           m == wire[p]
           z == [Off EXCEPT !.pc = "ask", !.ack = s.ack, !.deferred = s.deferred]
           l(r) == [s EXCEPT !.bodies = r]
<1>1. /\ s.pc = "consume" /\ ts' = ts /\ aborted' = aborted /\ cli' = cli /\ wire' = wire
      /\ \/ srv' = [srv EXCEPT ![p] = z]
         \/ s.bodies # <<>> /\ srv' = [srv EXCEPT ![p] = l(Tail(s.bodies))]
         \/ srv' = [srv EXCEPT ![p] = l(<<>>)]
  BY DEF Consume
<1>2. /\ s \in ServerStates /\ c \in ClientStates /\ SessionOK(s, c, m) /\ PoolOK(c)
      /\ p \in Registered(ts) /\ [cli EXCEPT ![p] = c] = cli /\ [wire EXCEPT ![p] = m] = wire
      /\ TxStateOK(ts) /\ Accounted(ts) /\ Orphans(ts, aborted, srv) /\ srv \in [Peers -> ServerStates]
  BY <1>1, OneSession
<1>3. AtConsume(s, c, m)
  BY <1>1, <1>2 DEF SessionOK
<1>4. c.st = "idle" /\ m = <<>> /\ Settled(s, c)
  BY <1>3 DEF AtConsume
<1>5. p \notin aborted => ts.peers[p].inflight = {}
  BY <1>1, <1>2 DEF Orphans
<1>6. ASSUME NEW x \in ServerStates, x.pc # "off", SessionOK(x, c, m), srv' = [srv EXCEPT ![p] = x]
      PROVE  Good(ts', aborted', srv', cli', wire')
  <2>1. Orphans(ts, aborted, [srv EXCEPT ![p] = x])
    BY <1>2, <1>5, <1>6, OrphansKept
  <2>2. Good(ts, aborted, [srv EXCEPT ![p] = x], [cli EXCEPT ![p] = c], [wire EXCEPT ![p] = m])
    BY <1>2, <1>6, <2>1, PeerStep
  <2> QED BY <1>1, <1>2, <1>6, <2>2
<1>7. s.bodies \in Seq(Txs) /\ s.ack \in 0 .. BatchSize /\ s.deferred \in 0 .. BatchSize
  BY <1>2 DEF ServerStates
<1>8. CASE srv' = [srv EXCEPT ![p] = z]
  <2>1. z \in ServerStates /\ z.pc = "ask" /\ z.ack = s.ack /\ z.deferred = s.deferred
    <3> HIDE DEF s
    <3> QED BY <1>7, OffTyped DEF ServerStates
  <2> HIDE DEF z, s
  <2>2. AtAsk(z, c, m)
    BY <2>1, <1>4 DEF AtAsk, Settled
  <2>3. SessionOK(z, c, m)
    BY <2>1, <2>2 DEF SessionOK
  <2> QED BY <2>1, <2>3, <1>6, <1>8
<1>9. ASSUME NEW r \in Seq(Txs), srv' = [srv EXCEPT ![p] = l(r)] PROVE Good(ts', aborted', srv', cli', wire')
  <2> DEFINE x == l(r)
  <2> HIDE DEF s
  <2>1. x \in ServerStates /\ x.pc = "consume" /\ x.ack = s.ack /\ x.deferred = s.deferred
    BY <1>1, <1>2 DEF ServerStates
  <2>2. srv' = [srv EXCEPT ![p] = x]
    BY <1>9
  <2> HIDE DEF x
  <2>3. AtConsume(x, c, m)
    BY <2>1, <1>4 DEF AtConsume, Settled
  <2>4. SessionOK(x, c, m)
    BY <2>1, <2>3 DEF SessionOK
  <2> QED BY <2>1, <2>2, <2>4, <1>6
<1>10. CASE s.bodies # <<>> /\ srv' = [srv EXCEPT ![p] = l(Tail(s.bodies))]
  <2>1. Tail(s.bodies) \in Seq(Txs)
    BY <1>7, <1>10
  <2> HIDE DEF l
  <2> QED BY <2>1, <1>9, <1>10
<1>11. CASE srv' = [srv EXCEPT ![p] = l(<<>>)]
  <2>1. <<>> \in Seq(Txs)
    OBVIOUS
  <2> HIDE DEF l
  <2> QED BY <2>1, <1>9, <1>11
<1> QED BY <1>1, <1>8, <1>10, <1>11

-----------------------------------------------------------------------------
(* The client's steps. *)

(* Where a session is when the client has a request before it. *)
LEMMA RequestMeans ==
    ASSUME NEW s \in ServerStates, NEW c, NEW w, SessionOK(s, c, w), w # <<>>
    PROVE  /\ w.type = "RequestTxIds" => s.pc = "ids" /\ Asking(s, w) /\ Settled(s, c)
           /\ w.type = "RequestTxs" =>
                 /\ s.pc = "txs" /\ w = [type |-> "RequestTxs", txids |-> s.take]
                 /\ Within(s.take, c) /\ AtTxs(s, c, w)
<1>1. s.pc \in {"off", "ask", "ids", "filter", "budget", "mark", "txs", "consume"}
  BY DEF ServerStates
<1>2. s.pc = "ids" \/ s.pc = "txs"
  BY <1>1 DEF SessionOK, AtOff, AtAsk, AtFilter, AtBudget, AtMark, AtConsume
<1>3. CASE s.pc = "ids"
  <2>1. AtIds(s, c, w)
    BY <1>3 DEF SessionOK
  <2>2. w.type # "RequestTxs"
    BY <2>1 DEF AtIds, Asking, Answering
  <2> QED BY <1>3, <2>1, <2>2 DEF AtIds, Asking, Answering
<1>4. CASE s.pc = "txs"
  <2>1. AtTxs(s, c, w)
    BY <1>4 DEF SessionOK
  <2>2. w.type # "RequestTxIds"
    BY <2>1 DEF AtTxs
  <2> QED BY <1>4, <2>1, <2>2 DEF AtTxs
<1> QED BY <1>2, <1>3, <1>4

(* The identifiers of a prefix of a selection of the pool. *)
IdsOf(txids, offer) ==
    /\ Len(offer) \in Nat /\ Len(txids) <= Len(offer)
    /\ \A i \in 1 .. Len(txids) : txids[i] = offer[i].tx

(* A client never offers an id twice in one reply. *)
LEMMA OfferTxids ==
    ASSUME NEW c, PoolOK(c), NEW T, NEW offer, NEW h, Selects(h, offer, c.pool, Len(c.pool), T),
           NEW txids \in Seq(Txs), IdsOf(txids, offer)
    PROVE  IsInjective(txids)
<1> DEFINE n == Len(txids)
<1>0. n \in Nat /\ Len(offer) \in Nat /\ n <= Len(offer) /\ \A i \in 1 .. n : txids[i] = offer[i].tx
  BY DEF IdsOf
<1>1. DOMAIN txids = 1 .. n
  OBVIOUS
<1> HIDE DEF n
<1>2. ASSUME NEW i \in 1 .. n, NEW j \in 1 .. n, txids[i] = txids[j] PROVE i = j
  <2>1. /\ h \in [1 .. Len(offer) -> 1 .. Len(c.pool)]
        /\ \A a, b \in 1 .. Len(offer) : a < b => h[a] < h[b]
        /\ \A a \in 1 .. Len(offer) : offer[a] = c.pool[h[a]]
    BY DEF Selects
  <2>2. i \in 1 .. Len(offer) /\ j \in 1 .. Len(offer)
    BY <1>0
  <2>3. h[i] \in 1 .. Len(c.pool) /\ h[j] \in 1 .. Len(c.pool)
    BY <2>1, <2>2
  <2>4. c.pool[h[i]].tx = c.pool[h[j]].tx
    BY <1>0, <1>2, <2>1, <2>2
  <2>5. h[i] = h[j]
    BY <2>3, <2>4 DEF PoolOK
  <2>6. ~(h[i] < h[j]) /\ ~(h[j] < h[i])
    BY <2>3, <2>5
  <2>7. ~(i < j) /\ ~(j < i)
    BY <2>1, <2>2, <2>6
  <2> QED BY <2>7
<1> QED BY <1>1, <1>2 DEF IsInjective

(* What the client offers: nothing twice, and no more than was asked for. *)
Entries == [tx : Txs, idx : Nat]
Reply(offer, n) == SubSeq(offer, 1, Min({n, Len(offer)}))
TxIdsOf(reply) == [i \in DOMAIN reply |-> reply[i].tx]

(* The ids a client offers. *)
LEMMA OfferFacts ==
    ASSUME NEW c \in ClientStates, PoolOK(c), NEW T, NEW n \in 1 .. BatchSize
    PROVE  /\ Reply(Retain(c.pool, T), n) \in Seq(Entries)
           /\ TxIdsOf(Reply(Retain(c.pool, T), n)) \in Seq(Txs)
           /\ IsInjective(TxIdsOf(Reply(Retain(c.pool, T), n)))
           /\ Len(TxIdsOf(Reply(Retain(c.pool, T), n))) <= BatchSize
<1> DEFINE offer == Retain(c.pool, T)
           reply == Reply(offer, n)
           txids == TxIdsOf(reply)
           k == Min({n, Len(offer)})
<1>1. c.pool \in Seq(Entries) /\ BatchSize \in Nat
  BY TxSubmissionAssumption DEF ClientStates, Entries
<1>2. offer \in Seq(Entries) /\ \E h : Selects(h, offer, c.pool, Len(c.pool), T)
  BY <1>1, RetainPicks
<1> HIDE DEF offer
<1>3. PICK h : Selects(h, offer, c.pool, Len(c.pool), T)
  BY <1>2
<1>4. k \in Nat /\ k <= Len(offer) /\ k <= n /\ Len(offer) \in Nat
  <2>1. Len(offer) \in Nat
    BY <1>2
  <2> QED BY <2>1, <1>1, MinTwo
<1>5. reply = SubSeq(offer, 1, k)
  BY DEF Reply
<1> HIDE DEF k, reply
<1>6. reply \in Seq(Entries) /\ Len(reply) = k /\ \A i \in 1 .. k : reply[i] = offer[i]
  <2>1. k \in 0 .. Len(offer)
    BY <1>4
  <2> QED BY <1>2, <2>1, <1>5, PrefixPicks
<1>7. DOMAIN reply = 1 .. k
  BY <1>6
<1>8. \A i \in 1 .. k : reply[i].tx \in Txs
  <2>1. \A i \in 1 .. k : reply[i] \in Entries
    BY <1>6
  <2> QED BY <2>1 DEF Entries
<1>9. txids = [i \in 1 .. k |-> reply[i].tx]
  BY <1>7 DEF TxIdsOf
<1> HIDE DEF txids
<1>10. txids \in Seq(Txs) /\ Len(txids) = k
  BY <1>4, <1>8, <1>9
<1>11. \A i \in 1 .. k : txids[i] = offer[i].tx
  BY <1>6, <1>9
<1>12. IsInjective(txids)
  <2>1. IdsOf(txids, offer)
    BY <1>4, <1>10, <1>11 DEF IdsOf
  <2> QED BY <1>3, <1>10, <2>1, OfferTxids
<1>13. Len(txids) <= BatchSize
  BY <1>1, <1>4, <1>10
<1> QED BY <1>6, <1>10, <1>12, <1>13 DEF txids, reply, offer

(* A step of the client: neither the shared state nor the server moves. *)
LEMMA ClientMoves ==
    ASSUME Good(ts, aborted, srv, cli, wire), NEW p \in Peers, ts' = ts, aborted' = aborted, srv' = srv,
           NEW y \in ClientStates, NEW m, SessionOK(srv[p], y, m), PoolOK(y),
           cli' = [cli EXCEPT ![p] = y], wire' = [wire EXCEPT ![p] = m]
    PROVE  Good(ts', aborted', srv', cli', wire')
<1> DEFINE x == srv[p]
<1>1. /\ x \in ServerStates /\ [srv EXCEPT ![p] = x] = srv
      /\ TxStateOK(ts) /\ Accounted(ts) /\ Orphans(ts, aborted, srv)
  BY OneSession
<1>2. Orphans(ts, aborted, [srv EXCEPT ![p] = x])
  BY <1>1
<1>3. SessionOK(x, y, m)
  OBVIOUS
<1> HIDE DEF x
<1>4. Good(ts, aborted, [srv EXCEPT ![p] = x], [cli EXCEPT ![p] = y], [wire EXCEPT ![p] = m])
  BY <1>1, <1>2, <1>3, PeerStep
<1> QED BY <1>1, <1>4

(* The client answers a request for ids. *)
LEMMA ClientTxIdsStep ==
    ASSUME Good(ts, aborted, srv, cli, wire), NEW p \in Peers, ClientTxIds(p)
    PROVE  Good(ts', aborted', srv', cli', wire')
<1> DEFINE s == srv[p]
           c == cli[p]
           w == wire[p]
           rest == SubSeq(c.out, w.ack + 1, Len(c.out))
           offer == Retain(c.pool, {e \in ToSet(c.pool) : e.idx > c.last})
           reply == SubSeq(offer, 1, Min({w.req, Len(offer)}))
           txids == [i \in DOMAIN reply |-> reply[i].tx]
           y1 == [c EXCEPT !.st = "error"]
           y2 == [c EXCEPT !.out = <<>>, !.requestable = {}]
           y3 == [c EXCEPT !.out = txids, !.requestable = ToSet(txids), !.last = reply[Len(reply)].idx]
<1>1. /\ c.st = "idle" /\ w # <<>> /\ w.type = "RequestTxIds" /\ ts' = ts /\ aborted' = aborted /\ srv' = srv
      /\ \/ /\ w.ack > Len(c.out) \/ rest # <<>>
            /\ cli' = [cli EXCEPT ![p] = y1] /\ wire' = wire
         \/ /\ cli' = [cli EXCEPT ![p] = y2] /\ wire' = [wire EXCEPT ![p] = [type |-> "Done"]]
         \/ /\ reply # <<>>
            /\ cli' = [cli EXCEPT ![p] = y3]
            /\ wire' = [wire EXCEPT ![p] = [type |-> "ReplyTxIds", txids |-> txids]]
  BY DEF ClientTxIds, ClientError
<1>2. /\ s \in ServerStates /\ c \in ClientStates /\ SessionOK(s, c, w) /\ PoolOK(c)
      /\ [wire EXCEPT ![p] = w] = wire
  BY OneSession
<1>3. s.pc = "ids" /\ Asking(s, w) /\ Settled(s, c)
  BY <1>1, <1>2, RequestMeans
<1>4. w.ack = s.ack /\ w.req \in 1 .. BatchSize
  BY <1>3 DEF Asking
<1>5. c.out \in Seq(Txs) /\ s.ack \in Nat /\ s.deferred \in Nat
  BY <1>2 DEF ClientStates, ServerStates
<1> HIDE DEF s, c, w
<1>6. CASE /\ w.ack > Len(c.out) \/ rest # <<>>
           /\ cli' = [cli EXCEPT ![p] = y1] /\ wire' = wire
  <2>1. y1 \in ClientStates /\ y1.st = "error" /\ y1.out = c.out /\ y1.pool = c.pool
    BY <1>2 DEF ClientStates
  <2> HIDE DEF y1
  <2>2. s.deferred > 0
    <3> SUFFICES ASSUME s.deferred = 0 PROVE FALSE
      BY <1>5
    <3>1. w.ack = Len(c.out) /\ Len(c.out) \in Nat
      BY <1>3, <1>4, <1>5 DEF Settled
    <3> DEFINE n == Len(c.out)
    <3>2. rest = SubSeq(c.out, n + 1, n) /\ n \in Nat
      BY <3>1
    <3>3. SubSeq(c.out, n + 1, n) = <<>>
      <4> HIDE DEF n
      <4> QED BY <3>2, <1>5
    <3> QED BY <3>1, <3>2, <3>3, <1>6
  <2>3. AtIds(s, y1, w)
    BY <2>1, <2>2, <1>3 DEF AtIds, Settled
  <2>4. SessionOK(s, y1, w) /\ PoolOK(y1)
    BY <2>1, <2>3, <1>2, <1>3 DEF SessionOK, PoolOK
  <2>5. wire' = [wire EXCEPT ![p] = w]
    BY <1>2, <1>6
  <2> QED BY <1>1, <1>6, <2>1, <2>4, <2>5, ClientMoves DEF s
<1>7. CASE cli' = [cli EXCEPT ![p] = y2] /\ wire' = [wire EXCEPT ![p] = [type |-> "Done"]]
  <2> DEFINE o == <<>>
             q == {}
             m == [type |-> "Done"]
  <2>1. o \in Seq(Txs) /\ q \in SUBSET Txs /\ y2 = [c EXCEPT !.out = o, !.requestable = q]
    OBVIOUS
  <2> HIDE DEF o, q, y2
  <2>2. y2 \in ClientStates /\ y2.st = "idle" /\ y2.pool = c.pool
    BY <1>1, <1>2, <2>1 DEF ClientStates
  <2>3. AtIds(s, y2, m)
    BY <2>2 DEF AtIds
  <2> HIDE DEF m
  <2>4. SessionOK(s, y2, m) /\ PoolOK(y2)
    BY <2>2, <2>3, <1>2, <1>3 DEF SessionOK, PoolOK
  <2>5. wire' = [wire EXCEPT ![p] = m]
    BY <1>7 DEF m
  <2> QED BY <1>1, <1>7, <2>2, <2>4, <2>5, ClientMoves DEF s
<1>8. CASE /\ reply # <<>>
           /\ cli' = [cli EXCEPT ![p] = y3]
           /\ wire' = [wire EXCEPT ![p] = [type |-> "ReplyTxIds", txids |-> txids]]
  <2> DEFINE m == [type |-> "ReplyTxIds", txids |-> txids]
             q == ToSet(txids)
             l == reply[Len(reply)].idx
  <2>1. /\ reply \in Seq(Entries)
        /\ txids \in Seq(Txs) /\ IsInjective(txids) /\ Len(txids) <= BatchSize
    <3> DEFINE T == {e \in ToSet(c.pool) : e.idx > c.last}
    <3>1. reply = Reply(Retain(c.pool, T), w.req) /\ txids = TxIdsOf(Reply(Retain(c.pool, T), w.req))
      BY Zenon DEF Reply, TxIdsOf
    <3> HIDE DEF T, reply, txids
    <3> QED BY <1>2, <1>4, <3>1, OfferFacts
  <2> HIDE DEF reply, txids
  <2>2. q \in SUBSET Txs
    BY <2>1 DEF ToSet
  <2>3. l \in Int
    <3>1. Len(reply) \in 1 .. Len(reply)
      BY <2>1, <1>8
    <3>2. reply[Len(reply)] \in Entries
      BY <2>1, <3>1
    <3> QED BY <3>2 DEF Entries
  <2>4. y3 = [c EXCEPT !.out = txids, !.requestable = q, !.last = l]
    OBVIOUS
  <2> HIDE DEF q, l, y3
  <2>5. /\ y3 \in ClientStates /\ y3.st = "idle" /\ y3.pool = c.pool /\ y3.out = txids
        /\ y3.requestable = q
    BY <1>1, <1>2, <2>1, <2>2, <2>3, <2>4 DEF ClientStates
  <2>6. Offered(y3)
    BY <2>1, <2>5 DEF Offered, q
  <2>7. AtIds(s, y3, m)
    BY <2>5, <2>6 DEF AtIds, Answering
  <2> HIDE DEF m
  <2>8. SessionOK(s, y3, m) /\ PoolOK(y3)
    BY <2>5, <2>7, <1>2, <1>3 DEF SessionOK, PoolOK
  <2>9. wire' = [wire EXCEPT ![p] = m]
    BY <1>8 DEF m
  <2> QED BY <1>1, <1>8, <2>5, <2>8, <2>9, ClientMoves DEF s
<1> QED BY <1>1, <1>6, <1>7, <1>8

(* The client answers a request for bodies. *)
LEMMA ClientTxsStep ==
    ASSUME Good(ts, aborted, srv, cli, wire), NEW p \in Peers, ClientTxs(p)
    PROVE  Good(ts', aborted', srv', cli', wire')
<1> DEFINE s == srv[p]
           c == cli[p]
           w == wire[p]
           has == {e.tx : e \in ToSet(c.pool)}
           r == Retain(w.txids, has)
           q == c.requestable \ ToSet(w.txids)
           y == [c EXCEPT !.requestable = q]
           m == [type |-> "ReplyTxs", txs |-> r]
<1>1. c.st = "idle" /\ w # <<>> /\ w.type = "RequestTxs" /\ ts' = ts /\ aborted' = aborted /\ srv' = srv
  BY DEF ClientTxs
<1>2. /\ s \in ServerStates /\ c \in ClientStates /\ SessionOK(s, c, w) /\ PoolOK(c)
  BY OneSession
<1>3. /\ s.pc = "txs" /\ w = [type |-> "RequestTxs", txids |-> s.take]
      /\ Within(s.take, c) /\ AtTxs(s, c, w)
  BY <1>1, <1>2, RequestMeans
<1>4. w.txids = s.take
  BY <1>3
<1>5. ToSet(w.txids) \subseteq c.requestable /\ IsInjective(w.txids)
  BY <1>3, <1>4 DEF Within
<1>6. cli' = [cli EXCEPT ![p] = y] /\ wire' = [wire EXCEPT ![p] = m]
  <2>1. \/ ~(ToSet(w.txids) \subseteq c.requestable /\ IsInjective(w.txids))
        \/ cli' = [cli EXCEPT ![p] = y] /\ wire' = [wire EXCEPT ![p] = m]
    BY DEF ClientTxs
  <2> QED BY <1>5, <2>1
<1>7. s.take \in Seq(Txs)
  BY <1>2 DEF ServerStates
<1>8. r \in Seq(Txs)
  BY <1>4, <1>7, RetainPicks
<1>9. q \in SUBSET Txs
  BY <1>2 DEF ClientStates
<1> HIDE DEF s, c, r, q
<1>10. y \in ClientStates /\ y.st = "idle" /\ y.out = c.out /\ y.pool = c.pool
  BY <1>1, <1>2, <1>9 DEF ClientStates
<1>11. m \in [type : {"ReplyTxs"}, txs : Seq(Txs)]
  BY <1>8
<1> HIDE DEF y, m
<1>12. AtTxs(s, y, m)
  BY <1>3, <1>10, <1>11 DEF AtTxs, Settled
<1>13. SessionOK(s, y, m) /\ PoolOK(y)
  BY <1>2, <1>3, <1>10, <1>12 DEF SessionOK, PoolOK
<1> QED BY <1>1, <1>6, <1>10, <1>13, ClientMoves DEF s

(* The peer's mempool changes under a session. *)
LEMMA PoolMoves ==
    ASSUME Good(ts, aborted, srv, cli, wire), NEW p \in Peers, ts' = ts, aborted' = aborted, srv' = srv, wire' = wire,
           NEW y \in ClientStates, cli' = [cli EXCEPT ![p] = y], PoolOK(y),
           y.st = cli[p].st, y.out = cli[p].out, y.requestable = cli[p].requestable
    PROVE  Good(ts', aborted', srv', cli', wire')
<1> DEFINE s == srv[p]
           c == cli[p]
           m == wire[p]
<1>1. SessionOK(s, c, m) /\ [wire EXCEPT ![p] = m] = wire
  BY OneSession
<1>2. y.st = c.st /\ y.out = c.out /\ y.requestable = c.requestable
  OBVIOUS
<1>3. wire' = [wire EXCEPT ![p] = m]
  BY <1>1
<1> HIDE DEF s, c, m
<1>4. /\ AtOff(s, c, m) => AtOff(s, y, m)
      /\ AtAsk(s, c, m) => AtAsk(s, y, m)
      /\ AtIds(s, c, m) => AtIds(s, y, m)
      /\ AtFilter(s, c, m) => AtFilter(s, y, m)
      /\ AtBudget(s, c, m) => AtBudget(s, y, m)
      /\ AtMark(s, c, m) => AtMark(s, y, m)
      /\ AtTxs(s, c, m) => AtTxs(s, y, m)
      /\ AtConsume(s, c, m) => AtConsume(s, y, m)
  BY <1>2, Zenon DEF AtOff, AtAsk, AtIds, AtFilter, AtBudget, AtMark, AtTxs, AtConsume, Settled, Offered,
                     Within, Answering
<1>5. SessionOK(s, y, m)
  BY <1>1, <1>4 DEF SessionOK
<1> QED BY <1>3, <1>5, ClientMoves DEF s

(* The mempool of a peer gains a transaction. *)
LEMMA PeerAddsStep ==
    ASSUME Good(ts, aborted, srv, cli, wire), NEW p \in Peers, NEW t \in Txs, PeerAdds(p, t)
    PROVE  Good(ts', aborted', srv', cli', wire')
<1> DEFINE c == cli[p]
           e == [tx |-> t, idx |-> c.next]
           r == Append(c.pool, e)
           k == c.next + 1
           y == [c EXCEPT !.pool = r, !.next = k]
<1>1. /\ \A i \in DOMAIN c.pool : c.pool[i].tx # t
      /\ ts' = ts /\ aborted' = aborted /\ srv' = srv /\ wire' = wire /\ cli' = [cli EXCEPT ![p] = y]
  BY DEF PeerAdds
<1>2. c \in ClientStates /\ PoolOK(c)
  BY OneSession
<1>3. c.pool \in Seq(Entries) /\ c.next \in Nat
  BY <1>2 DEF ClientStates, Entries
<1>4. e \in Entries /\ e.tx = t
  BY <1>3 DEF Entries
<1> HIDE DEF e, c
<1>5. /\ r \in Seq(Entries) /\ k \in Nat /\ Len(r) = Len(c.pool) + 1 /\ Len(c.pool) \in Nat
      /\ \A i \in 1 .. Len(c.pool) : r[i] = c.pool[i]
      /\ r[Len(r)] = e
  BY <1>3, <1>4
<1> HIDE DEF r, k
<1>6. /\ y \in ClientStates /\ y.pool = r /\ y.st = c.st /\ y.out = c.out
      /\ y.requestable = c.requestable
  BY <1>2, <1>5 DEF ClientStates, Entries
<1> HIDE DEF y
<1>7. PoolOK(y)
  <2> SUFFICES ASSUME NEW i \in 1 .. Len(r), NEW j \in 1 .. Len(r), r[i].tx = r[j].tx
               PROVE  i = j
    BY <1>6 DEF PoolOK
  <2>1. \A l \in 1 .. Len(c.pool) : c.pool[l].tx # t
    BY <1>1, <1>3
  <2>2. CASE i = Len(r) /\ j = Len(r)
    BY <2>2
  <2>3. CASE i = Len(r) /\ j # Len(r)
    <3>1. j \in 1 .. Len(c.pool)
      BY <2>3, <1>5
    <3> QED BY <2>1, <2>3, <3>1, <1>4, <1>5
  <2>4. CASE i # Len(r) /\ j = Len(r)
    <3>1. i \in 1 .. Len(c.pool)
      BY <2>4, <1>5
    <3> QED BY <2>1, <2>4, <3>1, <1>4, <1>5
  <2>5. CASE i # Len(r) /\ j # Len(r)
    <3>1. i \in 1 .. Len(c.pool) /\ j \in 1 .. Len(c.pool)
      BY <2>5, <1>5
    <3> QED BY <3>1, <1>2, <1>5 DEF PoolOK
  <2> QED BY <2>2, <2>3, <2>4, <2>5
<1> QED BY <1>1, <1>6, <1>7, PoolMoves DEF c

(* The mempool of a peer loses a transaction. *)
LEMMA PeerRemovesStep ==
    ASSUME Good(ts, aborted, srv, cli, wire), NEW p \in Peers, NEW t \in Txs, PeerRemoves(p, t)
    PROVE  Good(ts', aborted', srv', cli', wire')
<1> DEFINE c == cli[p]
           T == {e \in ToSet(c.pool) : e.tx # t}
           r == Retain(c.pool, T)
           y == [c EXCEPT !.pool = r]
<1>1. ts' = ts /\ aborted' = aborted /\ srv' = srv /\ wire' = wire /\ cli' = [cli EXCEPT ![p] = y]
  BY DEF PeerRemoves
<1>2. c \in ClientStates /\ PoolOK(c)
  BY OneSession
<1>3. c.pool \in Seq(Entries)
  BY <1>2 DEF ClientStates, Entries
<1>4. r \in Seq(Entries) /\ \E h : Selects(h, r, c.pool, Len(c.pool), T)
  <2> HIDE DEF T
  <2> QED BY <1>3, RetainPicks
<1> HIDE DEF r, T, c
<1>5. /\ y \in ClientStates /\ y.pool = r /\ y.st = c.st /\ y.out = c.out
      /\ y.requestable = c.requestable
  BY <1>2, <1>4 DEF ClientStates, Entries
<1> HIDE DEF y
<1>6. PoolOK(y)
  <2> SUFFICES ASSUME NEW i \in 1 .. Len(r), NEW j \in 1 .. Len(r), r[i].tx = r[j].tx
               PROVE  i = j
    BY <1>5 DEF PoolOK
  <2>1. PICK h : Selects(h, r, c.pool, Len(c.pool), T)
    BY <1>4
  <2>2. /\ h \in [1 .. Len(r) -> 1 .. Len(c.pool)]
        /\ \A a, b \in 1 .. Len(r) : a < b => h[a] < h[b]
        /\ \A a \in 1 .. Len(r) : r[a] = c.pool[h[a]]
    BY <2>1 DEF Selects
  <2>3. h[i] \in 1 .. Len(c.pool) /\ h[j] \in 1 .. Len(c.pool) /\ c.pool[h[i]].tx = c.pool[h[j]].tx
    BY <2>2
  <2>4. h[i] = h[j]
    BY <2>3, <1>2 DEF PoolOK
  <2>5. ~(h[i] < h[j]) /\ ~(h[j] < h[i])
    BY <2>3, <2>4
  <2>6. ~(i < j) /\ ~(j < i)
    BY <2>2, <2>5
  <2> QED BY <2>6
<1> QED BY <1>1, <1>5, <1>6, PoolMoves DEF c

(* A transaction is confirmed on the chain. *)
LEMMA ConfirmedActionStep ==
    ASSUME Good(ts, aborted, srv, cli, wire), NEW t \in Txs, Confirmed(t)
    PROVE  Good(ts', aborted', srv', cli', wire')
<1> DEFINE v == MarkConfirmed(ts, <<t>>)
           S == ToSet(<<t>>)
<1>1. ts' = v /\ aborted' = aborted /\ srv' = srv /\ cli' = cli /\ wire' = wire
  BY DEF Confirmed
<1>2. TxStateOK(ts) /\ Accounted(ts) /\ Orphans(ts, aborted, srv)
  BY DEF Good
<1>3. <<t>> \in Seq(Txs)
  OBVIOUS
<1>4. /\ TxStateOK(v) /\ Accounted(v) /\ Registered(v) = Registered(ts)
      /\ \A q \in Registered(ts) : v.peers[q].inflight = ts.peers[q].inflight \ S
      /\ v.global = ts.global \ S
  BY <1>2, <1>3, ConfirmedStep
<1> HIDE DEF v, S
<1>5. Registered(v) = aborted \cup {q \in Peers : srv[q].pc # "off"} /\ aborted \subseteq Peers
  BY <1>2, <1>4 DEF Orphans
<1>6. \A q \in Registered(v) \ aborted : v.peers[q].inflight # {} =>
            srv[q].pc = "txs" /\ v.peers[q].inflight \subseteq ToSet(srv[q].take)
  BY <1>2, <1>4 DEF Orphans
<1>7. v.global \subseteq UNION {v.peers[q].inflight : q \in Registered(v)}
  <2> SUFFICES ASSUME NEW a \in v.global PROVE \E q \in Registered(v) : a \in v.peers[q].inflight
    OBVIOUS
  <2>1. a \in ts.global /\ a \notin S
    BY <1>4
  <2>2. PICK q \in Registered(ts) : a \in ts.peers[q].inflight
    BY <2>1, <1>2 DEF Orphans
  <2> QED BY <2>1, <2>2, <1>4
<1>8. Orphans(v, aborted, srv)
  BY <1>5, <1>6, <1>7 DEF Orphans
<1> QED BY <1>1, <1>4, <1>8 DEF Good

-----------------------------------------------------------------------------
(* The invariant. *)

LEMMA InitGood == ASSUME Init PROVE Good(ts, aborted, srv, cli, wire) /\ Rest
<1>1. /\ ts = State(<<>>, {}, 0, <<>>) /\ aborted = {} /\ srv = [p \in Peers |-> Off]
      /\ wire = [p \in Peers |-> <<>>]
  BY DEF Init, EmptyTxState, State
<1>2. TxStateOK(ts) /\ Registered(ts) = {} /\ ts.global = {} /\ ts.total = 0
  <2>1. DOMAIN <<>> = {} /\ <<>> \in [{} -> PeerStates]
    OBVIOUS
  <2>2. <<>> \in Seq(Txs) /\ Len(<<>>) <= KnownCapacity /\ {} \in SUBSET Txs /\ 0 \in Nat
    BY TxStateAssumption
  <2> DEFINE P == <<>>
             u == State(<<>>, {}, 0, P)
  <2>3. DOMAIN P \in SUBSET Peers /\ P \in [DOMAIN P -> PeerStates] /\ DOMAIN P = {}
    BY <2>1
  <2> HIDE DEF P
  <2>4. TxStateOK(u)
    BY <2>2, <2>3, StateOK
  <2>5. Registered(u) = {} /\ u.global = {} /\ u.total = 0
    BY <2>3, StateFields
  <2> HIDE DEF u
  <2>6. ts = u
    BY <1>1 DEF u, P
  <2> QED BY <2>4, <2>5, <2>6
<1>3. Accounted(ts)
  <2>1. DOMAIN PeersBytes(ts) = {}
    BY <1>2 DEF PeersBytes
  <2>2. SumFunction(PeersBytes(ts)) = 0
    BY <2>1, SumEmpty DEF SumFunction
  <2> QED BY <1>2, <2>2 DEF Accounted
<1>4. Orphans(ts, aborted, srv)
  BY <1>1, <1>2, OffTyped DEF Orphans
<1>5. srv \in [Peers -> ServerStates]
  BY <1>1, OffTyped
<1>6. ASSUME NEW p \in Peers
      PROVE  /\ cli[p] \in ClientStates /\ PoolOK(cli[p]) /\ cli[p].st = "off"
  <2> DEFINE o == Offers[p]
             P == [i \in DOMAIN o |-> [tx |-> o[i], idx |-> i - 1]]
             l == -1
             e == <<>>
             q == {}
             n == Len(o)
             c == [st |-> "off", last |-> l, out |-> e, requestable |-> q, pool |-> P, next |-> n]
  <2>1. cli[p] = c
    BY DEF Init
  <2>2. o \in Seq(Txs) /\ IsInjective(o)
    BY TxSubmissionAssumption
  <2> HIDE DEF o
  <2>3. DOMAIN o = 1 .. n /\ n \in Nat
    BY <2>2
  <2>4. ASSUME NEW i \in 1 .. n PROVE [tx |-> o[i], idx |-> i - 1] \in Entries
    <3>1. o[i] \in Txs /\ i - 1 \in Nat
      BY <2>2, <2>3
    <3> QED BY <3>1 DEF Entries
  <2>5. P = [i \in 1 .. n |-> [tx |-> o[i], idx |-> i - 1]]
    BY <2>3
  <2> HIDE DEF n, P
  <2>6. P \in Seq(Entries) /\ Len(P) = n /\ \A i \in 1 .. n : P[i].tx = o[i]
    BY <2>3, <2>4, <2>5
  <2>7. l \in Int /\ e \in Seq(Txs) /\ q \in SUBSET Txs
    OBVIOUS
  <2> HIDE DEF l, e, q
  <2>8. c \in ClientStates /\ c.pool = P /\ c.st = "off"
    BY <2>3, <2>6, <2>7 DEF ClientStates, Entries
  <2> HIDE DEF c
  <2>9. PoolOK(c)
    BY <2>2, <2>3, <2>6, <2>8 DEF PoolOK, IsInjective
  <2> QED BY <2>1, <2>8, <2>9
<1>7. cli \in [Peers -> ClientStates]
  <2>1. cli = [p \in Peers |-> cli[p]]
    BY DEF Init
  <2> QED BY <1>6, <2>1
<1>8. ASSUME NEW p \in Peers PROVE SessionOK(srv[p], cli[p], wire[p])
  <2>1. srv[p] = Off /\ wire[p] = <<>> /\ cli[p].st = "off"
    BY <1>1, <1>6
  <2>2. AtOff(srv[p], cli[p], wire[p])
    BY <2>1 DEF AtOff
  <2> QED BY <2>1, <2>2, OffTyped DEF SessionOK
<1>9. wire = [p \in Peers |-> wire[p]]
  BY <1>1
<1>10. Good(ts, aborted, srv, cli, wire)
  BY <1>2, <1>3, <1>4, <1>5, <1>6, <1>7, <1>8, <1>9 DEF Good
<1>11. Rest
  <2>1. MaxOpens \in Nat /\ MaxChanges \in Nat
    BY TxSubmissionAssumption
  <2> QED BY <2>1 DEF Init, Rest
<1> QED BY <1>10, <1>11

(* Every step keeps the sessions and the accounts. *)
LEMMA NextGood ==
    ASSUME Good(ts, aborted, srv, cli, wire), [Next]_vars
    PROVE  Good(ts', aborted', srv', cli', wire')
<1>1. CASE UNCHANGED vars
  <2>1. ts' = ts /\ aborted' = aborted /\ srv' = srv /\ cli' = cli /\ wire' = wire
    BY <1>1 DEF vars
  <2> QED BY <2>1
<1>2. ASSUME NEW p \in Peers, Open(p) PROVE Good(ts', aborted', srv', cli', wire')
  BY <1>2, OpenStep
<1>3. ASSUME NEW p \in Peers, ServerStep(p) PROVE Good(ts', aborted', srv', cli', wire')
  <2>1. CASE Ask(p)
    BY <2>1, AskStep
  <2>2. CASE RecvDone(p)
    <3>1. srv[p].pc # "off" /\ Leave(p)
      BY <2>2 DEF RecvDone
    <3> QED BY <3>1, LeaveStep
  <2>3. CASE RecvTxIds(p)
    BY <2>3, RecvTxIdsStep
  <2>4. CASE Filter(p)
    BY <2>4, FilterActionStep
  <2>5. CASE Budget(p)
    BY <2>5, BudgetStep
  <2>6. CASE Mark(p)
    BY <2>6, MarkActionStep
  <2>7. CASE RecvTxs(p)
    BY <2>7, RecvTxsStep
  <2>8. CASE Consume(p)
    BY <2>8, ConsumeStep
  <2> QED BY <1>3, <2>1, <2>2, <2>3, <2>4, <2>5, <2>6, <2>7, <2>8 DEF ServerStep
<1>4. ASSUME NEW p \in Peers, TimeoutTxs(p) \/ Disconnect(p) PROVE Good(ts', aborted', srv', cli', wire')
  <2>1. srv[p].pc # "off" /\ Leave(p)
    BY <1>4 DEF TimeoutTxs, Disconnect
  <2> QED BY <2>1, LeaveStep
<1>9. ASSUME NEW p \in Peers, Abort(p) PROVE Good(ts', aborted', srv', cli', wire')
  BY <1>9, AbortStep
<1>5. ASSUME NEW p \in Peers, ClientTxIds(p) \/ ClientTxs(p) PROVE Good(ts', aborted', srv', cli', wire')
  BY <1>5, ClientTxIdsStep, ClientTxsStep
<1>6. ASSUME NEW p \in Peers, NEW t \in Txs, PeerAdds(p, t) \/ PeerRemoves(p, t)
      PROVE  Good(ts', aborted', srv', cli', wire')
  BY <1>6, PeerAddsStep, PeerRemovesStep
<1>7. ASSUME NEW t \in Txs, LocalSubmit(t) PROVE Good(ts', aborted', srv', cli', wire')
  <2>1. ts' = ts /\ aborted' = aborted /\ srv' = srv /\ cli' = cli /\ wire' = wire
    BY <1>7 DEF LocalSubmit
  <2> QED BY <2>1
<1>8. ASSUME NEW t \in Txs, Confirmed(t) PROVE Good(ts', aborted', srv', cli', wire')
  BY <1>8, ConfirmedActionStep
<1> QED BY <1>1, <1>2, <1>3, <1>4, <1>5, <1>6, <1>7, <1>8, <1>9 DEF Next

(* Every step keeps the types of what the sessions do not touch. *)
LEMMA NextRest ==
    ASSUME Good(ts, aborted, srv, cli, wire), Rest, [Next]_vars
    PROVE  Rest'
<1> DEFINE Same == pool' = pool /\ onchain' = onchain /\ opens' = opens /\ changes' = changes
<1>0. /\ pool \in SUBSET Txs /\ onchain \in SUBSET Txs
      /\ opens \in 0 .. MaxOpens /\ changes \in 0 .. MaxChanges
      /\ MaxOpens \in Nat /\ MaxChanges \in Nat
  BY TxSubmissionAssumption DEF Rest
<1>1. ASSUME Same PROVE Rest'
  BY <1>0, <1>1 DEF Rest
<1>2. CASE UNCHANGED vars
  BY <1>1, <1>2 DEF vars
<1>3. ASSUME Change PROVE changes' \in 0 .. MaxChanges
  BY <1>0, <1>3 DEF Change
<1>4. ASSUME NEW p \in Peers, Open(p) PROVE Rest'
  <2>1. opens' = opens + 1 /\ opens < MaxOpens
    BY <1>4 DEF Open
  <2>2. opens' \in 0 .. MaxOpens
    BY <1>0, <2>1
  <2> QED BY <1>0, <1>4, <2>2 DEF Open, Rest
<1>5. ASSUME NEW p \in Peers, Leave(p) PROVE Rest'
  BY <1>1, <1>5 DEF Leave, SessionOver
<1>6. ASSUME NEW p \in Peers, Consume(p) PROVE Rest'
  <2> DEFINE b == srv[p].bodies
  <2>1. /\ onchain' = onchain /\ opens' = opens /\ changes' = changes
        /\ pool' = pool \/ (b # <<>> /\ pool' = pool \cup {Head(b)})
    BY <1>6 DEF Consume
  <2>2. b \in Seq(Txs)
    <3>1. srv[p] \in ServerStates
      BY OneSession
    <3> QED BY <3>1 DEF ServerStates
  <2> HIDE DEF b
  <2>3. pool' \in SUBSET Txs
    BY <1>0, <2>1, <2>2
  <2> QED BY <1>0, <2>1, <2>3 DEF Rest
<1>7. ASSUME NEW p \in Peers, ServerStep(p) PROVE Rest'
  <2>1. CASE RecvDone(p)
    BY <2>1, <1>5 DEF RecvDone
  <2>2. CASE Ask(p) \/ RecvTxIds(p) \/ Filter(p) \/ Budget(p) \/ Mark(p) \/ RecvTxs(p)
    <3>1. Same
      BY <2>2 DEF Ask, RecvTxIds, Filter, Budget, Mark, RecvTxs
    <3> QED BY <3>1, <1>1
  <2> QED BY <1>6, <1>7, <2>1, <2>2 DEF ServerStep
<1>8. ASSUME NEW p \in Peers, TimeoutTxs(p) \/ Disconnect(p) PROVE Rest'
  BY <1>5, <1>8 DEF TimeoutTxs, Disconnect
<1>13. ASSUME NEW p \in Peers, Abort(p) PROVE Rest'
  BY <1>1, <1>13 DEF Abort, SessionOver
<1>9. ASSUME NEW p \in Peers, ClientTxIds(p) \/ ClientTxs(p) PROVE Rest'
  <2>1. Same
    BY <1>9 DEF ClientTxIds, ClientTxs
  <2> QED BY <2>1, <1>1
<1>10. ASSUME NEW p \in Peers, NEW t \in Txs, PeerAdds(p, t) \/ PeerRemoves(p, t) PROVE Rest'
  <2>1. pool' = pool /\ onchain' = onchain /\ opens' = opens /\ Change
    BY <1>10 DEF PeerAdds, PeerRemoves
  <2> QED BY <1>0, <1>3, <2>1 DEF Rest
<1>11. ASSUME NEW t \in Txs, LocalSubmit(t) PROVE Rest'
  <2>1. pool' = pool \cup {t} /\ onchain' = onchain /\ opens' = opens /\ Change
    BY <1>11 DEF LocalSubmit
  <2> QED BY <1>0, <1>3, <2>1 DEF Rest
<1>12. ASSUME NEW t \in Txs, Confirmed(t) PROVE Rest'
  <2>1. pool' = pool \ {t} /\ onchain' = onchain \cup {t} /\ opens' = opens /\ Change
    BY <1>12 DEF Confirmed
  <2> QED BY <1>0, <1>3, <2>1 DEF Rest
<1> QED BY <1>2, <1>4, <1>7, <1>8, <1>9, <1>10, <1>11, <1>12, <1>13 DEF Next

(* What the invariant means. *)
LEMMA GoodMeans ==
    ASSUME IInv
    PROVE  FetchesAccounted /\ PeerWithinBudget /\ OnlyDeferralBreaksSession
<1>1. /\ TxStateOK(ts) /\ Accounted(ts) /\ Orphans(ts, aborted, srv)
      /\ srv \in [Peers -> ServerStates] /\ cli \in [Peers -> ClientStates]
      /\ wire = [p \in Peers |-> wire[p]]
      /\ \A p \in Peers : SessionOK(srv[p], cli[p], wire[p])
  BY DEF IInv, Good
<1>2. TypeOK
  BY <1>1 DEF TypeOK, IInv, Rest, TxStateOK, Orphans
<1>3. BytesAccounted
  BY <1>1 DEF BytesAccounted, Accounted, PeersBytes
<1>4. OnlyAbortsOrphan
  BY <1>1 DEF OnlyAbortsOrphan, Orphans
<1>5. PeerWithinBudget
  <2> SUFFICES ASSUME NEW p \in Registered(ts) \ aborted
               PROVE  \/ ts.peers[p].bytes <= PeerBytes
                      \/ \E t \in ts.peers[p].inflight : ts.peers[p].bytes = Size[t]
    BY DEF PeerWithinBudget
  <2> DEFINE I == ts.peers[p].inflight
             q == srv[p].take
             S == ToSet(q)
  <2>1. /\ ts.peers[p].bytes = SizeOf(I) /\ p \in Peers /\ I \in SUBSET Txs
        /\ I # {} => srv[p].pc = "txs" /\ I \subseteq S
    BY <1>1, TxStateParts DEF Accounted, Orphans
  <2>2. PeerBytes \in Nat
    BY TxSubmissionAssumption
  <2> HIDE DEF I
  <2>3. CASE I = {}
    <3>1. SizeOf(I) = 0
      BY <2>3, SumEmpty DEF SizeOf
    <3> QED BY <2>1, <2>2, <3>1
  <2>4. CASE I # {}
    <3>1. srv[p] \in ServerStates /\ AtTxs(srv[p], cli[p], wire[p])
      BY <1>1, <2>1, <2>4 DEF SessionOK
    <3>2. q \in Seq(Txs) /\ Fits(q)
      BY <3>1 DEF ServerStates, AtTxs
    <3> HIDE DEF q
    <3>3. S \in SUBSET Txs /\ I \in SUBSET S
      BY <2>1, <2>4, <3>2 DEF ToSet
    <3>4. CASE SizeOf(S) <= PeerBytes
      <4>1. SizeOf(S) = SizeOf(I) + SizeOf(S \ I) /\ SizeOf(I) \in Nat /\ SizeOf(S \ I) \in Nat
        <5> HIDE DEF S
        <5> QED BY <3>3, SizeSplits
      <4>2. SizeOf(I) <= PeerBytes
        <5> HIDE DEF S
        <5> QED BY <4>1, <3>4, <2>2
      <4> QED BY <2>1, <4>2
    <3>5. ASSUME NEW t \in S, \A o \in S \ {t} : Size[o] = 0
          PROVE  SizeOf(I) <= PeerBytes \/ (t \in I /\ SizeOf(I) = Size[t])
      <4>1. I \ {t} \in SUBSET Txs /\ \A o \in I \ {t} : Size[o] = 0
        BY <3>3, <3>5
      <4>2. SizeOf(I \ {t}) = 0
        BY <4>1, NoSize
      <4>3. CASE t \notin I
        <5>1. I \ {t} = I
          BY <4>3
        <5> QED BY <4>2, <5>1, <2>2
      <4>4. CASE t \in I
        BY <4>2, <4>4, <2>1, SizeOfMore
      <4> QED BY <4>3, <4>4
    <3> QED BY <2>1, <3>2, <3>4, <3>5 DEF Fits, FitsIn, I
  <2> QED BY <2>3, <2>4
<1>6. OnlyDeferralBreaksSession
  <2> SUFFICES ASSUME NEW p \in Peers, cli[p].st = "error" PROVE srv[p].deferred > 0
    BY DEF OnlyDeferralBreaksSession
  <2>1. /\ srv[p].pc \in {"off", "ask", "ids", "filter", "budget", "mark", "txs", "consume"}
        /\ SessionOK(srv[p], cli[p], wire[p])
    BY <1>1 DEF ServerStates
  <2>2. srv[p].pc = "ids"
    BY <2>1 DEF SessionOK, AtOff, AtAsk, AtFilter, AtBudget, AtMark, AtTxs, AtConsume
  <2> QED BY <2>1, <2>2 DEF SessionOK, AtIds
<1> QED BY <1>2, <1>3, <1>4, <1>5, <1>6 DEF FetchesAccounted

(* IInv is an invariant of the specification. *)
LEMMA IInvAlways == Spec => []IInv
<1>1. Init => IInv
  BY InitGood DEF IInv
<1>2. IInv /\ [Next]_vars => IInv'
  BY NextGood, NextRest DEF IInv
<1> QED BY <1>1, <1>2, PTL DEF Spec

(* The shared fetch state of all server tasks (tx_state/state.rs) agrees   *)
(* with what they are fetching: the byte counters are the sizes of what is *)
(* in flight, per peer and in total, and no identifier stays in            *)
(* global_in_flight or in a peer's set without a session waiting for it,   *)
(* except for what an aborted session has left, until the next session of  *)
(* that peer that ends in order.                                           *)
THEOREM FetchesAccountedAlways == Spec => []FetchesAccounted
<1>1. IInv => FetchesAccounted
  BY GoodMeans
<1> QED BY <1>1, IInvAlways, PTL

(* select_within_byte_budget keeps every peer within its byte budget, the  *)
(* bytes of one transaction larger than the budget excepted, although the  *)
(* budget is read under another lock than the one it is spent under and    *)
(* what is left of it never falls below 0. A peer that an aborted session  *)
(* has left registered is excepted.                                        *)
THEOREM PeersKeepToBudget == Spec => []PeerWithinBudget
<1>1. IInv => PeerWithinBudget
  BY GoodMeans
<1> QED BY <1>1, IInvAlways, PTL

(* The acknowledgement counting of run_txsubmission_server and the         *)
(* client's rule for a blocking request agree, whatever the peers and the  *)
(* chain do in between: a client refuses a request only after a round in   *)
(* which the server deferred part of an offer.                             *)
THEOREM OnlyDeferralBreaks == Spec => []OnlyDeferralBreaksSession
<1>1. IInv => OnlyDeferralBreaksSession
  BY GoodMeans
<1> QED BY <1>1, IInvAlways, PTL
=============================================================================
