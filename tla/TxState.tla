------------------------------ MODULE TxState ------------------------------
(***************************************************************************)
(* crates/consensus/src/mempool/tx_state/state.rs: which transactions are  *)
(* known, which are being fetched, and from whom.  A state is a record:    *)
(*   known   the ring of known TxIds, oldest first (known and known_order) *)
(*   global  global_in_flight                                              *)
(*   total   inflight_bytes_total                                          *)
(*   peers   a function on the registered peers, to                        *)
(*           [unack, inflight, bytes]                                      *)
(* Each method is an operator from a state to a state.                     *)
(***************************************************************************)
EXTENDS Integers, Sequences, FiniteSets, FiniteSetsExt, SequencesExt, Functions, RetainSeq

CONSTANTS
    Peers,          \* remote addresses
    Txs,            \* transaction identifiers
    Size,           \* [Txs -> Nat], advertised body sizes
    KnownCapacity   \* known_capacity

ASSUME TxStateAssumption ==
    /\ IsFiniteSet(Peers) /\ IsFiniteSet(Txs)
    /\ Size \in [Txs -> Nat]
    /\ KnownCapacity \in Nat \ {0}

SizeOf(S) == SumFunctionOnSet(Size, S)

EmptyTxState == [known |-> <<>>, global |-> {}, total |-> 0, peers |-> <<>>]
NewPeer == [unack |-> {}, inflight |-> {}, bytes |-> 0]

Registered(ts) == DOMAIN ts.peers
Known(ts) == ToSet(ts.known)

RegisterPeer(ts, p) ==
    [ts EXCEPT !.peers = [q \in Registered(ts) \cup {p} |->
                              IF q \in Registered(ts) THEN @[q] ELSE NewPeer]]

(* MUTANT: the fetches of the peer are not cancelled. *)
MutUnregisterKeepsFetches(ts, p) ==
    IF p \notin Registered(ts) THEN ts
    ELSE [ts EXCEPT !.peers = [q \in Registered(ts) \ {p} |-> @[q]],
                    !.total = Max({0, @ - ts.peers[p].bytes})]

(* MUTANT: the bytes of the peer stay in the global total. *)
MutUnregisterKeepsBytes(ts, p) ==
    IF p \notin Registered(ts) THEN ts
    ELSE [ts EXCEPT !.peers = [q \in Registered(ts) \ {p} |-> @[q]],
                    !.global = @ \ ts.peers[p].inflight]

(* unregister_peer: its fetches are cancelled and its bytes released. *)
UnregisterPeer(ts, p) ==
    IF p \notin Registered(ts) THEN ts
    ELSE [ts EXCEPT !.peers = [q \in Registered(ts) \ {p} |-> @[q]],
                    !.global = @ \ ts.peers[p].inflight,
                    !.total = Max({0, @ - ts.peers[p].bytes})]

(* filter_advertised: what is neither known nor in flight anywhere; only   *)
(* that enters the peer's unacknowledged set.                              *)
ToFetch(ts, adv) == Retain(adv, Txs \ (Known(ts) \cup ts.global))

FilterAdvertised(ts, p, adv) ==
    LET r == RegisterPeer(ts, p)
    IN  [r EXCEPT !.peers[p].unack = @ \cup ToSet(ToFetch(ts, adv))]

(* mark_in_flight_sized: a TxId the peer already fetches counts once. *)
MarkInFlightSized(ts, p, S) ==
    IF p \notin Registered(ts) THEN ts
    ELSE LET mine == ts.peers[p]
             new == S \ mine.inflight
         IN  [ts EXCEPT !.peers[p] = [mine EXCEPT !.inflight = @ \cup new,
                                                  !.bytes = @ + SizeOf(new)],
                        !.global = @ \cup new,
                        !.total = @ + SizeOf(new)]

(* The part mark_received and mark_not_found share: the peer's fetches of  *)
(* S end.  The global entry goes even if another peer still fetches it.    *)
Settle(ts, p, S) ==
    IF p \notin Registered(ts) THEN ts
    ELSE LET mine == ts.peers[p]
             done == SizeOf(S \cap mine.inflight)
         IN  [ts EXCEPT !.peers[p] = [mine EXCEPT !.inflight = @ \ S,
                                                  !.bytes = Max({0, @ - done}),
                                                  !.unack = @ \ S],
                        !.global = @ \ S,
                        !.total = Max({0, @ - done})]

(* insert_known: a new one at the back, the oldest out at capacity. *)
Insert(known, t) ==
    IF t \in ToSet(known) THEN known
    ELSE LET longer == Append(known, t)
         IN  SubSeq(longer, 1 + Max({0, Len(longer) - KnownCapacity}), Len(longer))

(* insert_known for each of txids in turn. *)
InsertKnown(known, txids) ==
    LET after[n \in 0 .. Len(txids)] ==
            IF n = 0 THEN known ELSE Insert(after[n - 1], txids[n])
    IN  after[Len(txids)]

MarkReceived(ts, p, txids) ==
    LET s == Settle(ts, p, ToSet(txids))
    IN  [s EXCEPT !.known = InsertKnown(@, txids)]

MarkNotFound(ts, p, txids) == Settle(ts, p, ToSet(txids))

(* mark_confirmed: known, and every peer's tracking of it ends. *)
MarkConfirmed(ts, txids) ==
    LET S == ToSet(txids)
        done == [p \in Registered(ts) |-> SizeOf(S \cap ts.peers[p].inflight)]
    IN  [ known  |-> InsertKnown(ts.known, txids),
          global |-> ts.global \ S,
          total  |-> Max({0, ts.total - SumFunction(done)}),
          peers  |-> [p \in Registered(ts) |->
                          [ unack    |-> ts.peers[p].unack \ S,
                            inflight |-> ts.peers[p].inflight \ S,
                            bytes    |-> Max({0, ts.peers[p].bytes - done[p]}) ]] ]
=============================================================================
