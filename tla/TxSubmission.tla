---------------------------- MODULE TxSubmission ----------------------------
(***************************************************************************)
(* Transactions arriving from other nodes: one run_txsubmission_server per *)
(* peer on this side, sharing the TxState, and on the other side the       *)
(* repository's own TxSubmissionClient driven by                           *)
(* run_txsubmission_service_shared from the peer's mempool.                *)
(*                                                                         *)
(* Only one side may send at a time, so the wire of a session holds at     *)
(* most one message.  Every call of SharedTxState takes the lock anew and  *)
(* is an action of its own.                                                *)
(***************************************************************************)
EXTENDS TxState

CONSTANTS
    Offers,        \* [Peers -> Seq(Txs)]: a peer's mempool at the start
    Invalid,       \* the transactions the ledger rejects
    BatchSize,     \* TXSUBMISSION_BATCH_SIZE
    MaxUnacked,    \* MAX_UNACKNOWLEDGED_TXIDS_PER_PEER
    MaxRequested,  \* MAX_TXS_REQUESTED_PER_PEER
    PeerBytes,     \* MAX_TXS_SIZE_INFLIGHT_PER_PEER
    TotalBytes,    \* MAX_TXS_SIZE_INFLIGHT_TOTAL
    MaxOpens,      \* bound: sessions
    MaxChanges     \* bound: changes of the peers' mempools, local submissions
                   \* and confirmations, together

ASSUME TxSubmissionAssumption ==
    /\ Offers \in [Peers -> Seq(Txs)] /\ \A p \in Peers : IsInjective(Offers[p])
    /\ BatchSize \in Nat \ {0}
    /\ {MaxUnacked, MaxRequested, PeerBytes, TotalBytes, MaxOpens, MaxChanges} \subseteq Nat

VARIABLES
    ts,       \* SharedTxState
    aborted,  \* history: peers whose entry in ts an aborted session left behind
    srv,      \* [Peers -> the local variables of run_txsubmission_server]
    cli,      \* [Peers -> TxSubmissionClient, the service's cursor, the pool]
    wire,     \* [Peers -> the message under way, or <<>>]
    pool,     \* this node's mempool
    onchain,  \* confirmed transactions
    opens,    \* sessions so far
    changes

vars == <<ts, aborted, srv, cli, wire, pool, onchain, opens, changes>>

-----------------------------------------------------------------------------
Off == [pc |-> "off", ack |-> 0, adv |-> <<>>, fetch |-> <<>>, take |-> <<>>,
        deferred |-> 0, bodies |-> <<>>]

(* A new session of the client: nothing outstanding, cursor before the     *)
(* first index.                                                            *)
Fresh(c) == [c EXCEPT !.st = "idle", !.last = -1, !.out = <<>>, !.requestable = {}]

PeerStates == [unack : SUBSET Txs, inflight : SUBSET Txs, bytes : Nat]
TxStates(peers) ==
    [ known : { k \in Seq(Txs) : Len(k) <= KnownCapacity }, global : SUBSET Txs, total : Nat,
      peers : [peers -> PeerStates] ]
ServerStates ==
    [ pc : {"off", "ask", "ids", "filter", "budget", "mark", "txs", "consume"},
      ack : 0 .. BatchSize, adv : Seq(Txs), fetch : Seq(Txs), take : Seq(Txs),
      deferred : 0 .. BatchSize, bodies : Seq(Txs) ]
ClientStates ==
    [ st : {"off", "idle", "error"}, last : Int, out : Seq(Txs), requestable : SUBSET Txs,
      pool : Seq([tx : Txs, idx : Nat]), next : Nat ]

TypeOK ==
    /\ ts \in TxStates(Registered(ts)) /\ Registered(ts) \subseteq Peers
    /\ aborted \subseteq Peers
    /\ srv \in [Peers -> ServerStates]
    /\ cli \in [Peers -> ClientStates]
    /\ wire = [p \in Peers |-> wire[p]]
    /\ pool \subseteq Txs /\ onchain \subseteq Txs
    /\ opens \in 0 .. MaxOpens /\ changes \in 0 .. MaxChanges

Init ==
    /\ ts = EmptyTxState /\ aborted = {}
    /\ srv = [p \in Peers |-> Off]
    /\ cli = [p \in Peers |->
                 [st |-> "off", last |-> -1, out |-> <<>>, requestable |-> {},
                  pool |-> [i \in DOMAIN Offers[p] |-> [tx |-> Offers[p][i], idx |-> i - 1]],
                  next |-> Len(Offers[p])]]
    /\ wire = [p \in Peers |-> <<>>]
    /\ pool = {} /\ onchain = {}
    /\ opens = 0
    /\ changes = 0

-----------------------------------------------------------------------------
(* The server. *)

(* recv_init, register_peer, which keeps an entry that is still there. *)
Open(p) ==
    /\ srv[p].pc = "off"
    /\ opens < MaxOpens
    /\ opens' = opens + 1
    /\ ts' = RegisterPeer(ts, p)
    /\ srv' = [srv EXCEPT ![p] = [Off EXCEPT !.pc = "ask"]]
    /\ cli' = [cli EXCEPT ![p] = Fresh(@)]
    /\ wire' = [wire EXCEPT ![p] = <<>>]
    /\ UNCHANGED <<aborted, pool, onchain, changes>>

(* clamp_request_count *)
ClampRequestCount(unacked, ack) ==
    LET headroom == Max({0, MaxUnacked - Max({0, unacked - ack})})
    IN  Max({1, Min({BatchSize, headroom})})

(* The blocking MsgRequestTxIds. *)
Ask(p) ==
    /\ srv[p].pc = "ask"
    /\ srv' = [srv EXCEPT ![p].pc = "ids"]
    /\ wire' = [wire EXCEPT ![p] =
          [type |-> "RequestTxIds", ack |-> srv[p].ack,
           req |-> ClampRequestCount(Cardinality(ts.peers[p].unack), srv[p].ack)]]
    /\ UNCHANGED <<ts, aborted, cli, pool, onchain, opens, changes>>

SessionOver(p) ==
    /\ srv' = [srv EXCEPT ![p] = Off]
    /\ cli' = [cli EXCEPT ![p].st = "off"]
    /\ wire' = [wire EXCEPT ![p] = <<>>]
    /\ UNCHANGED <<pool, onchain, opens, changes>>

(* Every way out of the loop releases the peer's share of the state. *)
Leave(p) ==
    /\ ts' = UnregisterPeer(ts, p)
    /\ aborted' = aborted \ {p}
    /\ SessionOver(p)

RecvDone(p) ==
    /\ srv[p].pc = "ids" /\ wire[p] # <<>> /\ wire[p].type = "Done"
    /\ Leave(p)

RecvTxIds(p) ==
    /\ srv[p].pc = "ids" /\ wire[p] # <<>> /\ wire[p].type = "ReplyTxIds"
    /\ srv' = [srv EXCEPT ![p].pc = "filter", ![p].adv = wire[p].txids, ![p].ack = 0]
    /\ wire' = [wire EXCEPT ![p] = <<>>]
    /\ UNCHANGED <<ts, aborted, cli, pool, onchain, opens, changes>>

(* filter_advertised; when nothing is left to fetch all are acknowledged. *)
Filter(p) ==
    /\ srv[p].pc = "filter"
    /\ ts' = FilterAdvertised(ts, p, srv[p].adv)
    /\ LET fetch == ToFetch(ts, srv[p].adv)
       IN  srv' = [srv EXCEPT ![p] =
                      IF fetch = <<>>
                      THEN [Off EXCEPT !.pc = "ask", !.ack = Len(srv[p].adv)]
                      ELSE [@ EXCEPT !.pc = "budget", !.fetch = fetch]]
    /\ UNCHANGED <<aborted, cli, wire, pool, onchain, opens, changes>>

(* clamp_to_count_budget *)
ClampToCount(s, remaining) == SubSeq(s, 1, Min({Max({1, remaining}), Len(s)}))

(* MUTANT: the candidate that no longer fits is admitted as well. *)
MutSelectBytes(s, remaining) ==
    LET left[n \in 0 .. Len(s)] ==
            IF n = 0 THEN remaining ELSE Max({0, left[n - 1] - Size[s[n]]})
        fits == { n \in 1 .. Len(s) : \A k \in 2 .. n : Size[s[k - 1]] <= left[k - 2] }
    IN  SubSeq(s, 1, Max(fits))

(* select_within_byte_budget: the longest prefix of which each candidate   *)
(* fits into what the ones before it leave, which is never less than 0;    *)
(* the first is admitted in any case.                                      *)
SelectWithinBytes(s, remaining) ==
    LET left[n \in 0 .. Len(s)] ==
            IF n = 0 THEN remaining ELSE Max({0, left[n - 1] - Size[s[n]]})
        fits == { n \in 1 .. Len(s) : \A k \in 2 .. n : Size[s[k]] <= left[k - 1] }
    IN  SubSeq(s, 1, Max(fits))

(* The budgets are read one lock at a time before the choice is recorded;  *)
(* the peer's own figures only this task raises, so the read of the global *)
(* total is the one that matters.                                          *)
Budget(p) ==
    /\ srv[p].pc = "budget"
    /\ LET mine == ts.peers[p]
           counted == ClampToCount(srv[p].fetch,
                          Max({0, MaxRequested - Cardinality(mine.inflight)}))
           bytes == Min({Max({0, PeerBytes - mine.bytes}), Max({0, TotalBytes - ts.total})})
           take == SelectWithinBytes(counted, bytes)
       IN  srv' = [srv EXCEPT ![p].pc = "mark", ![p].take = take,
                              ![p].deferred = Len(srv[p].fetch) - Len(take)]
    /\ UNCHANGED <<ts, aborted, cli, wire, pool, onchain, opens, changes>>

(* MUTANT: only what is requested is acknowledged, not what was known. *)
MutAckRequested(p) ==
    /\ srv[p].pc = "mark"
    /\ ts' = MarkInFlightSized(ts, p, ToSet(srv[p].take))
    /\ srv' = [srv EXCEPT ![p].pc = "txs", ![p].ack = Len(srv[p].take)]
    /\ wire' = [wire EXCEPT ![p] = [type |-> "RequestTxs", txids |-> srv[p].take]]
    /\ UNCHANGED <<aborted, cli, pool, onchain, opens, changes>>

(* mark_in_flight_sized; what is deferred is not acknowledged; then        *)
(* MsgRequestTxs.                                                          *)
Mark(p) ==
    /\ srv[p].pc = "mark"
    /\ ts' = MarkInFlightSized(ts, p, ToSet(srv[p].take))
    /\ srv' = [srv EXCEPT ![p].pc = "txs", ![p].ack = Len(srv[p].adv) - srv[p].deferred]
    /\ wire' = [wire EXCEPT ![p] = [type |-> "RequestTxs", txids |-> srv[p].take]]
    /\ UNCHANGED <<aborted, cli, pool, onchain, opens, changes>>

(* The bodies: all of them, or the whole request counts as not found. *)
RecvTxs(p) ==
    /\ srv[p].pc = "txs" /\ wire[p] # <<>> /\ wire[p].type = "ReplyTxs"
    /\ ts' = IF Len(wire[p].txs) = Len(srv[p].take)
             THEN MarkReceived(ts, p, srv[p].take)
             ELSE MarkNotFound(ts, p, srv[p].take)
    /\ srv' = [srv EXCEPT ![p].pc = "consume", ![p].bodies = wire[p].txs]
    /\ wire' = [wire EXCEPT ![p] = <<>>]
    /\ UNCHANGED <<aborted, cli, pool, onchain, opens, changes>>

(* consume_txs, one transaction at a time: what the ledger rejects is      *)
(* skipped, an error of the queue (a duplicate here) ends the batch.       *)
Consume(p) ==
    /\ srv[p].pc = "consume"
    /\ LET bodies == srv[p].bodies
           Rest(s) == srv' = [srv EXCEPT ![p].bodies = s]
       IN  \/ /\ bodies = <<>>
              /\ srv' = [srv EXCEPT ![p] = [Off EXCEPT !.pc = "ask", !.ack = srv[p].ack,
                                                        !.deferred = srv[p].deferred]]
              /\ UNCHANGED pool
           \/ /\ bodies # <<>> /\ Head(bodies) \in Invalid \cup onchain
              /\ Rest(Tail(bodies))
              /\ UNCHANGED pool
           \/ /\ bodies # <<>> /\ Head(bodies) \notin Invalid \cup onchain
              /\ Head(bodies) \in pool
              /\ Rest(<<>>)
              /\ UNCHANGED pool
           \/ /\ bodies # <<>> /\ Head(bodies) \notin Invalid \cup onchain \cup pool
              /\ Rest(Tail(bodies))
              /\ pool' = pool \cup {Head(bodies)}
    /\ UNCHANGED <<ts, aborted, cli, wire, onchain, opens, changes>>

(* The ST_TXS timeout, and any other error at an await: the transport, the *)
(* client closing the session, a body of the wrong size.                   *)
TimeoutTxs(p) == srv[p].pc = "txs" /\ Leave(p)
Disconnect(p) == srv[p].pc \in {"ids", "txs"} /\ Leave(p)

(* KeepAlive has ended: the session aborts the task, which is dropped at   *)
(* the await it has reached. Nobody calls unregister_peer.                 *)
Abort(p) ==
    /\ srv[p].pc \in {"ids", "txs"}
    /\ aborted' = aborted \cup {p}
    /\ UNCHANGED ts
    /\ SessionOver(p)

-----------------------------------------------------------------------------
(* The client on the peer's side. *)

ClientError(p) == cli' = [cli EXCEPT ![p].st = "error"] /\ UNCHANGED wire

(* recv_request of MsgRequestTxIds: acknowledgements, the rule that a      *)
(* blocking request leaves nothing outstanding; then the service offers    *)
(* what its mempool has after the cursor, or ends the protocol.            *)
ClientTxIds(p) ==
    /\ cli[p].st = "idle" /\ wire[p] # <<>> /\ wire[p].type = "RequestTxIds"
    /\ LET c == cli[p]
           rest == SubSeq(c.out, wire[p].ack + 1, Len(c.out))
           offer == Retain(c.pool, { e \in ToSet(c.pool) : e.idx > c.last })
           reply == SubSeq(offer, 1, Min({wire[p].req, Len(offer)}))
           txids == [i \in DOMAIN reply |-> reply[i].tx]
       IN  \/ /\ wire[p].ack > Len(c.out) \/ rest # <<>>
              /\ ClientError(p)
           \/ /\ wire[p].ack <= Len(c.out) /\ rest = <<>> /\ reply = <<>>
              /\ cli' = [cli EXCEPT ![p].out = <<>>, ![p].requestable = {}]
              /\ wire' = [wire EXCEPT ![p] = [type |-> "Done"]]
           \/ /\ wire[p].ack <= Len(c.out) /\ rest = <<>> /\ reply # <<>>
              /\ cli' = [cli EXCEPT ![p].out = txids, ![p].requestable = ToSet(txids),
                                    ![p].last = reply[Len(reply)].idx]
              /\ wire' = [wire EXCEPT ![p] = [type |-> "ReplyTxIds", txids |-> txids]]
    /\ UNCHANGED <<ts, aborted, srv, pool, onchain, opens, changes>>

(* recv_request of MsgRequestTxs; the service looks each one up in a fresh *)
(* snapshot and skips what has left its mempool.                           *)
ClientTxs(p) ==
    /\ cli[p].st = "idle" /\ wire[p] # <<>> /\ wire[p].type = "RequestTxs"
    /\ LET asked == wire[p].txids
           has == { e.tx : e \in ToSet(cli[p].pool) }
       IN  \/ /\ ~(ToSet(asked) \subseteq cli[p].requestable /\ IsInjective(asked))
              /\ ClientError(p)
           \/ /\ ToSet(asked) \subseteq cli[p].requestable /\ IsInjective(asked)
              /\ cli' = [cli EXCEPT ![p].requestable = @ \ ToSet(asked)]
              /\ wire' = [wire EXCEPT ![p] =
                    [type |-> "ReplyTxs", txs |-> Retain(asked, has)]]
    /\ UNCHANGED <<ts, aborted, srv, pool, onchain, opens, changes>>

-----------------------------------------------------------------------------
(* The rest of the node and of the network. *)

Change == changes < MaxChanges /\ changes' = changes + 1

PeerAdds(p, t) ==
    /\ Change
    /\ \A i \in DOMAIN cli[p].pool : cli[p].pool[i].tx # t
    /\ cli' = [cli EXCEPT ![p].pool = Append(@, [tx |-> t, idx |-> cli[p].next]),
                          ![p].next = @ + 1]
    /\ UNCHANGED <<ts, aborted, srv, wire, pool, onchain, opens>>

PeerRemoves(p, t) ==
    /\ Change
    /\ \E i \in DOMAIN cli[p].pool : cli[p].pool[i].tx = t
    /\ cli' = [cli EXCEPT ![p].pool = Retain(@, { e \in ToSet(@) : e.tx # t })]
    /\ UNCHANGED <<ts, aborted, srv, wire, pool, onchain, opens>>

(* A local client's submission; the TxState is not told. *)
LocalSubmit(t) ==
    /\ Change
    /\ t \notin pool \cup onchain \cup Invalid
    /\ pool' = pool \cup {t}
    /\ UNCHANGED <<ts, aborted, srv, cli, wire, onchain, opens>>

(* The sync service confirms a transaction: remove_confirmed and           *)
(* mark_confirmed.                                                         *)
Confirmed(t) ==
    /\ Change
    /\ t \notin onchain \cup Invalid
    /\ pool' = pool \ {t}
    /\ onchain' = onchain \cup {t}
    /\ ts' = MarkConfirmed(ts, <<t>>)
    /\ UNCHANGED <<aborted, srv, cli, wire, opens>>

-----------------------------------------------------------------------------
ServerStep(p) == \/ Ask(p) \/ RecvDone(p) \/ RecvTxIds(p) \/ Filter(p) \/ Budget(p)
                 \/ Mark(p) \/ RecvTxs(p) \/ Consume(p)

Next ==
    \/ \E p \in Peers : \/ Open(p) \/ ServerStep(p) \/ TimeoutTxs(p) \/ Disconnect(p) \/ Abort(p)
                        \/ ClientTxIds(p) \/ ClientTxs(p)
                        \/ \E t \in Txs : PeerAdds(p, t) \/ PeerRemoves(p, t)
    \/ \E t \in Txs : LocalSubmit(t) \/ Confirmed(t)

(* The server's task is scheduled and its timer fires; nothing is assumed  *)
(* of the peer or of the network.                                          *)
Fairness == \A p \in Peers : WF_vars(ServerStep(p)) /\ WF_vars(TimeoutTxs(p))

Spec == Init /\ [][Next]_vars /\ Fairness

-----------------------------------------------------------------------------
(* Safety and liveness.                                                    *)

(* The byte counters are the sizes of what is in flight, per peer and in   *)
(* total, after every order of deliveries, shortages, confirmations, lost  *)
(* and aborted sessions (tx_state/state.rs).                               *)
BytesAccounted ==
    /\ \A p \in Registered(ts) : ts.peers[p].bytes = SizeOf(ts.peers[p].inflight)
    /\ ts.total = SumFunction([p \in Registered(ts) |-> ts.peers[p].bytes])

(* A TxId blocked for every peer is one that some session is waiting for,  *)
(* or that an aborted session has left: nothing else stays in              *)
(* global_in_flight, or in a peer's in_flight set, after the session that  *)
(* fetched it has moved on or ended. The next session of the peer that     *)
(* ends in order gives back what an aborted one has left.                  *)
OnlyAbortsOrphan ==
    /\ Registered(ts) = aborted \cup { p \in Peers : srv[p].pc # "off" }
    /\ \A p \in Registered(ts) \ aborted :
          ts.peers[p].inflight # {} => /\ srv[p].pc = "txs"
                                       /\ ts.peers[p].inflight \subseteq ToSet(srv[p].take)
    /\ ts.global \subseteq UNION { ts.peers[p].inflight : p \in Registered(ts) }

(* The shared state, kept by the server tasks of all peers, describes what *)
(* they are really fetching: bytes, sets and sessions agree.               *)
FetchesAccounted == TypeOK /\ BytesAccounted /\ OnlyAbortsOrphan

(* No peer has more bytes in flight than its budget, unless all of them    *)
(* are of one transaction larger than the budget                           *)
(* (select_within_byte_budget), or an aborted session has left some.       *)
PeerWithinBudget ==
    \A p \in Registered(ts) \ aborted :
        \/ ts.peers[p].bytes <= PeerBytes
        \/ \E t \in ts.peers[p].inflight : ts.peers[p].bytes = Size[t]

(* The client never meets a request it must refuse, except after a round   *)
(* in which the server deferred part of what was offered.                  *)
OnlyDeferralBreaksSession ==
    \A p \in Peers : cli[p].st = "error" => srv[p].deferred > 0

(* A fetch ends: delivered, not delivered, confirmed, timed out or         *)
(* cancelled, unless the session that made it was aborted.                 *)
FetchEnds ==
    \A t \in Txs :
        t \in ts.global ~> \/ t \notin ts.global
                          \/ \E p \in aborted : t \in ts.peers[p].inflight

-----------------------------------------------------------------------------
(* What the comment on the error path says: a session that ends unregisters *)
(* its peer, since otherwise "repeated reconnects would leak `PeerTxState`  *)
(* entries and inflate `inflight_bytes_total`" (ntn-server/src/lib.rs).     *)
SessionsAreReleased == \A p \in Registered(ts) : srv[p].pc # "off"

(* What the server's comments say of deferred transactions: not            *)
(* acknowledged, they stay queued at the peer, and the session goes on.    *)
SessionSurvivesDeferral == \A p \in Peers : cli[p].st # "error"

(* What tx_state/state.rs says of `known`: it is in the mempool or was     *)
(* confirmed (or was found invalid, or is about to be processed).          *)
KnownIsHeld ==
    \A t \in Known(ts) \ Invalid :
        t \in pool \cup onchain \cup UNION { ToSet(srv[p].bodies) : p \in Peers }
=============================================================================
