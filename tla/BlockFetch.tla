----------------------------- MODULE BlockFetch -----------------------------
(***************************************************************************)
(* Multi-peer BlockFetch: the per-peer fetch workers and their pool        *)
(* (crates/node/sync/src/blockfetch_worker.rs), the sync service that      *)
(* plans and dispatches ranges through it (fetch_multi_era_range_raw_-     *)
(* decoded of crates/node/sync/src/lib.rs, reconnecting_sync.rs of         *)
(* crates/node/runtime) and the governor that registers and removes        *)
(* workers (peer_management.rs).                                           *)
(*                                                                         *)
(* The pool is behind a read-write lock.  The service holds it for reading *)
(* while it dispatches a plan, but not between planning and dispatching.   *)
(* The peers are external: each follows a chain of its own, answers a      *)
(* range exactly when both of its ends are on that chain, may keep silent  *)
(* until the time limit of the protocol ends the request, and may take as  *)
(* long as it likes over a batch: the limit is one between two blocks, and *)
(* neither the number of blocks nor the whole of the batch has any.        *)
(***************************************************************************)
EXTENDS FetchPlan, Functions, TLC

CONSTANTS
    BatchSize,      \* VerifiedSyncServiceConfig::batch_size
    MaxPromotions,  \* bound: warm sessions the governor opens
    MaxTimeouts,    \* bound: requests a peer does not answer in time
    MaxLosses,      \* bound: connections lost
    MaxForks        \* bound: peers that switch to another chain

ASSUME BlockFetchAssumption ==
    /\ BatchSize \in Nat \ {0, 1}
    /\ {MaxPromotions, MaxTimeouts, MaxLosses, MaxForks} \subseteq Nat

NoPeer == 0

(* What the dispatcher holds for an assignment: no answer yet, a failed    *)
(* request, or blocks.                                                     *)
Pending   == [state |-> "pending", blocks |-> <<>>]
Error     == [state |-> "error", blocks |-> <<>>]
Batch(bs) == [state |-> "blocks", blocks |-> bs]
NoBlocks  == Batch(<<>>)

QueueDepth == 1     \* DEFAULT_WORKER_QUEUE_DEPTH, besides the request in hand

VARIABLES
    phase,      \* what the sync service does next
    sess,       \* peer of the sync session
    from,       \* from_point
    stored,     \* the last block applied to the stores
    range,      \* <<lower, upper>> of the batch being fetched
    plan,       \* its assignments
    sent,       \* how many of them have been sent
    replies,    \* the answers, by assignment
    frags,      \* candidate fragments
    delivered,  \* what the last fetch returned, with the pointer it was for
    workers,    \* registered workers: [owner, client, jobs] by peer
    warm,       \* peers with a session of the governor's
    closing,    \* peer whose worker the governor is about to remove
    tip,        \* the peers' chains
    promotions, timeouts, losses, forks, demotions

fetch  == <<range, plan, sent, replies>>
bounds == <<promotions, timeouts, losses, forks, demotions>>
vars   == <<phase, sess, from, stored, fetch, frags, delivered, workers, warm,
            closing, tip, bounds>>

Registered == DOMAIN workers

Jobs == [chunk : Nat, lower : Blocks, upper : Blocks]

(* The values the variables take; a worker has at most one request in hand *)
(* and QueueDepth more in its channel.                                     *)
TypeOK ==
    /\ phase \in {"offline", "idle", "planned", "sending", "awaiting", "failed"}
    /\ sess \in Peers \cup {NoPeer} /\ closing \in Peers \cup {NoPeer}
    /\ from \in Points /\ stored \in Points
    /\ sent \in 0 .. Len(plan) /\ DOMAIN replies = DOMAIN plan
    /\ Registered \subseteq Peers
    /\ \A p \in Registered :
        /\ workers[p].owner \in {"sync", "governor"}
        /\ workers[p].client \in {"StIdle", "StStreaming", "stuck", "closed"}
        /\ workers[p].jobs \in Seq(Jobs)
        /\ Len(workers[p].jobs) <= QueueDepth + 1
    /\ frags \in [Peers -> Seq(Blocks)]
    /\ warm \subseteq Peers
    /\ tip \in [Peers -> Points]

(* dispatch_plan runs under the read lock. *)
ReadLocked == phase \in {"sending", "awaiting"}

(* register replaces the worker a peer may have; unregister drops it. *)
Register(p, owner) ==
    (p :> [owner |-> owner, client |-> "StIdle", jobs |-> <<>>]) @@ workers

Unregister(p) == Restrict(workers, Registered \ {p})

NoFetch == /\ range' = <<>> /\ plan' = <<>> /\ sent' = 0 /\ replies' = <<>>

(* The node starts with any chain in its stores. *)
Init ==
    /\ phase = "offline" /\ sess = NoPeer
    /\ stored \in Points /\ from = stored
    /\ range = <<>> /\ plan = <<>> /\ sent = 0 /\ replies = <<>>
    /\ frags = [p \in Peers |-> <<>>]
    /\ delivered = [from |-> Origin, blocks |-> <<>>]
    /\ workers = <<>>
    /\ warm = {} /\ closing = NoPeer
    /\ tip = [p \in Peers |-> Origin]
    /\ promotions = 0 /\ timeouts = 0 /\ losses = 0 /\ forks = 0 /\ demotions = 0

-----------------------------------------------------------------------------
(* The peers (external). *)

PeerExtends(p) ==
    /\ \E b \in Blocks : Parent[b] = tip[p] /\ tip' = [tip EXCEPT ![p] = b]
    /\ UNCHANGED <<phase, sess, from, stored, fetch, frags, delivered, workers,
                   warm, closing, bounds>>

(* A chain of the same length may win the tie-break. *)
PeerForks(p) ==
    /\ forks < MaxForks
    /\ \E b \in Blocks :
        /\ Height(b) >= Height(tip[p]) /\ ~OnChain(tip[p], b)
        /\ tip' = [tip EXCEPT ![p] = b]
    /\ forks' = forks + 1
    /\ UNCHANGED <<phase, sess, from, stored, fetch, frags, delivered, workers,
                   warm, closing, promotions, timeouts, losses, demotions>>

(* What the peer answers to MsgRequestRange; no blocks is MsgNoBlocks. *)
RangeOn(t, lower, upper) ==
    IF OnChain(lower, t) /\ OnChain(upper, t) /\ Height(lower) <= Height(upper)
    THEN SubSeq(PathTo[t], Height(lower), Height(upper))
    ELSE <<>>

-----------------------------------------------------------------------------
(* The worker tasks. *)

(* The answer goes to the dispatcher unless it has given the request up. *)
Answer(p, r) ==
    /\ LET job == Head(workers[p].jobs)
       IN  replies' = IF job.chunk = 0 THEN replies ELSE [replies EXCEPT ![job.chunk] = r]
    /\ UNCHANGED <<phase, sess, from, stored, range, plan, sent, frags, delivered,
                   warm, closing, tip, promotions, losses, forks, demotions>>

Streaming(p) == p \in Registered /\ workers[p].client = "StStreaming"

(* The batch has begun and its next block came in time (recv_block); the   *)
(* collecting loop asks for another one.                                   *)
BlockInTime(p) ==
    /\ p \in Registered /\ workers[p].jobs # <<>> /\ workers[p].client = "StIdle"
    /\ workers' = [workers EXCEPT ![p].client = "StStreaming"]
    /\ UNCHANGED <<phase, sess, from, stored, fetch, frags, delivered, warm, closing,
                   tip, bounds>>

(* A request that was sent and neither answered nor failed. *)
InHand(p) ==
    /\ p \in Registered /\ workers[p].jobs # <<>>
    /\ workers[p].client \in {"StIdle", "StStreaming"}

(* MsgBatchDone, or MsgNoBlocks. *)
WorkerFetches(p) ==
    /\ InHand(p)
    /\ LET job == Head(workers[p].jobs)
       IN  Answer(p, Batch(RangeOn(tip[p], job.lower, job.upper)))
    /\ workers' = [workers EXCEPT ![p].client = "StIdle", ![p].jobs = Tail(@)]
    /\ UNCHANGED timeouts

(* The time limit passes: the request fails, and the client stays in       *)
(* StBusy or StStreaming, where it can send no further request.            *)
WorkerTimesOut(p) ==
    /\ InHand(p)
    /\ timeouts < MaxTimeouts
    /\ timeouts' = timeouts + 1
    /\ Answer(p, Error)
    /\ workers' = [workers EXCEPT ![p].client = "stuck", ![p].jobs = Tail(@)]

(* MUTANT: the loss of the connection leaves a request unanswered. *)
MutWorkerFails(p) ==
    /\ p \in Registered /\ workers[p].jobs # <<>> /\ workers[p].client = "stuck"
    /\ Answer(p, Error)
    /\ workers' = [workers EXCEPT ![p].jobs = Tail(@)]
    /\ UNCHANGED timeouts

(* A request to a client that is stuck or whose connection is gone fails   *)
(* at once.                                                                *)
WorkerFails(p) ==
    /\ p \in Registered /\ workers[p].jobs # <<>> /\ workers[p].client \in {"stuck", "closed"}
    /\ Answer(p, Error)
    /\ workers' = [workers EXCEPT ![p].jobs = Tail(@)]
    /\ UNCHANGED timeouts

ConnectionLost(p) ==
    /\ p \in Registered /\ workers[p].client # "closed"
    /\ losses < MaxLosses
    /\ losses' = losses + 1
    /\ workers' = [workers EXCEPT ![p].client = "closed"]
    /\ UNCHANGED <<phase, sess, from, stored, fetch, frags, delivered, warm,
                   closing, tip, promotions, timeouts, forks, demotions>>

-----------------------------------------------------------------------------
(* The sync service. *)

(* A session: register_direct_bootstrap_fetch_worker moves its BlockFetch  *)
(* client into a worker, replacing the one the peer may have.  The read    *)
(* pointer and the stores go back to the intersection.                     *)
Connect(p) ==
    /\ phase = "offline"
    /\ sess' = p
    /\ workers' = Register(p, "sync")
    /\ from' = CommonAncestor(stored, tip[p])
    /\ stored' = CommonAncestor(stored, tip[p])
    /\ phase' = "idle"
    /\ UNCHANGED <<fetch, frags, delivered, warm, closing, tip, bounds>>

(* abort_session_and_unregister_fetch_worker removes whatever worker the   *)
(* peer has now; requests still with other workers are given up.           *)
Abandon(w) == [w EXCEPT !.jobs = [i \in DOMAIN w.jobs |-> [w.jobs[i] EXCEPT !.chunk = 0]]]

EndSession ==
    /\ workers' = [p \in Registered \ {sess} |-> Abandon(workers[p])]
    /\ sess' = NoPeer
    /\ NoFetch
    /\ phase' = "offline"
    /\ UNCHANGED <<from, stored, frags, delivered, warm, closing, tip>>

(* KeepAlive or ChainSync fails, or the service hands over to a hot peer. *)
SessionLost ==
    /\ phase = "idle"
    /\ losses < MaxLosses
    /\ losses' = losses + 1
    /\ EndSession
    /\ UNCHANGED <<promotions, timeouts, forks, demotions>>

(* MsgRollBackward.  The peer's candidate fragment is left as it is:       *)
(* publish_rollback has no caller.                                         *)
RollBackward ==
    /\ phase = "idle"
    /\ ~OnChain(from, tip[sess])
    /\ from' = CommonAncestor(from, tip[sess])
    /\ stored' = CommonAncestor(stored, tip[sess])
    /\ UNCHANGED <<phase, sess, fetch, frags, delivered, workers, warm, closing,
                   tip, bounds>>

(* SyncError::Recovery: the session is ended too, but handle_reconnect_-   *)
(* batch_error answers Fail, and the service returns.                      *)
Fail ==
    /\ phase' = "failed"
    /\ workers' = [p \in Registered \ {sess} |-> Abandon(workers[p])]
    /\ UNCHANGED <<sess, from, stored, fetch, frags, delivered, warm, closing,
                   tip, bounds>>

(* A batch of headers is received and published, and the range planned on  *)
(* a snapshot of the pool (blockfetch_range_for_pending_forwards: from     *)
(* Origin the range starts at the first header).  The session's own client *)
(* is in a worker, so without workers there is nothing to fetch with.  A   *)
(* writer that waits for the lock goes first.                              *)
Announce ==
    /\ phase = "idle"
    /\ closing = NoPeer
    /\ OnChain(from, tip[sess])
    /\ Height(tip[sess]) - Height(from) >= BatchSize
    /\ LET headers == SubSeq(PathTo[tip[sess]], Height(from) + 1, Height(from) + BatchSize)
           lower   == IF from = Origin THEN Head(headers) ELSE from
       IN  /\ frags' = [frags EXCEPT ![sess] = PushAll(@, headers)]
           /\ range' = <<lower, Last(headers)>>
           /\ IF Registered = {}
              THEN phase' = "failed" /\ plan' = <<>> /\ replies' = <<>>
              ELSE /\ phase' = "planned"
                   /\ plan' = Partition(lower, Last(headers), InOrder(Registered), frags')
                   /\ replies' = [i \in DOMAIN plan' |-> Pending]
    /\ sent' = 0
    /\ UNCHANGED <<sess, from, stored, delivered, workers, warm, closing, tip, bounds>>

(* dispatch_plan takes the read lock; several chunks from Origin are       *)
(* refused.                                                                *)
StartDispatch ==
    /\ phase = "planned"
    /\ closing = NoPeer
    /\ Len(plan) = 1 \/ from # Origin
    /\ phase' = "sending"
    /\ UNCHANGED <<sess, from, stored, fetch, frags, delivered, workers, warm,
                   closing, tip, bounds>>

RefuseFromOrigin ==
    /\ phase = "planned"
    /\ closing = NoPeer
    /\ Len(plan) > 1 /\ from = Origin
    /\ Fail

(* One send of phase 1; it waits while the worker's channel is full. *)
SendChunk ==
    /\ phase = "sending"
    /\ LET chunk == plan[sent + 1]
       IN  /\ chunk.peer \in Registered
           /\ Len(workers[chunk.peer].jobs) <= QueueDepth
           /\ workers' = [workers EXCEPT ![chunk.peer].jobs =
                  Append(@, [chunk |-> sent + 1, lower |-> chunk.lower, upper |-> chunk.upper])]
    /\ sent' = sent + 1
    /\ phase' = IF sent' = Len(plan) THEN "awaiting" ELSE "sending"
    /\ UNCHANGED <<sess, from, stored, range, plan, replies, frags, delivered,
                   warm, closing, tip, bounds>>

(* The planned worker is gone. *)
SendFails ==
    /\ phase = "sending"
    /\ plan[sent + 1].peer \notin Registered
    /\ Fail

(* MUTANT: a failed request is an error of the node's own. *)
MutAwaitError ==
    /\ phase = "awaiting"
    /\ \E i \in DOMAIN plan : replies[i].state = "error"
    /\ Fail

(* Phase 2 takes the answers in the order of the plan; the first error     *)
(* ends the batch and, being SyncError::BlockFetch, the session.           *)
AwaitError ==
    /\ phase = "awaiting"
    /\ \E i \in DOMAIN plan :
        /\ replies[i].state = "error"
        /\ \A j \in 1 .. i - 1 : replies[j].state = "blocks"
    /\ EndSession
    /\ UNCHANGED bounds

Answered == phase = "awaiting" /\ \A i \in DOMAIN plan : replies[i].state = "blocks"

Fetched ==
    LET chunks == [i \in DOMAIN plan |-> replies[i].blocks]
    IN  DedupLowerBoundary(Assemble(plan, chunks, from), from, range[1])

(* roll_forward of ChainState accepts the blocks. *)
Continues(blocks, last) ==
    \A i \in 1 .. Len(blocks) :
        Parent[blocks[i]] = IF i = 1 THEN last ELSE blocks[i - 1]

(* The blocks are applied and the read pointer moves to the upper end of   *)
(* the range.                                                              *)
FetchSucceeds ==
    /\ Answered
    /\ Fetched # <<>> /\ Continues(Fetched, stored)
    /\ delivered' = [from |-> from, blocks |-> Fetched]
    /\ stored' = Last(Fetched)
    /\ from' = range[2]
    /\ NoFetch
    /\ phase' = "idle"
    /\ UNCHANGED <<sess, frags, workers, warm, closing, tip, bounds>>

(* Nothing was fetched, and no direct client is left to ask. *)
FetchEmpty == Answered /\ Fetched = <<>> /\ Fail

(* The blocks do not continue the chain: the service returns. *)
ApplyFails ==
    /\ Answered
    /\ Fetched # <<>> /\ ~Continues(Fetched, stored)
    /\ delivered' = [from |-> from, blocks |-> Fetched]
    /\ phase' = "failed"
    /\ UNCHANGED <<sess, from, stored, fetch, frags, workers, warm, closing, tip, bounds>>

-----------------------------------------------------------------------------
(* The governor. *)

(* promote_to_warm and migrate_session_to_worker.  The peer of the sync    *)
(* session is hot in the registry, and so no candidate.                    *)
PromoteToWarm(p) ==
    /\ closing = NoPeer /\ ~ReadLocked
    /\ p \notin warm /\ p # sess
    /\ promotions < MaxPromotions
    /\ promotions' = promotions + 1
    /\ warm' = warm \cup {p}
    /\ workers' = Register(p, "governor")
    /\ UNCHANGED <<phase, sess, from, stored, fetch, frags, delivered, closing,
                   tip, timeouts, losses, forks, demotions>>

(* demote_to_cold: the session is aborted, then the worker removed, which  *)
(* waits for the write lock.                                               *)
DemoteToCold(p) ==
    /\ closing = NoPeer
    /\ p \in warm
    /\ warm' = warm \ {p}
    /\ closing' = p
    /\ demotions' = demotions + 1
    /\ workers' = IF p \in Registered /\ workers[p].owner = "governor"
                  THEN [workers EXCEPT ![p].client = "closed"] ELSE workers
    /\ UNCHANGED <<phase, sess, from, stored, fetch, frags, delivered, tip,
                   promotions, timeouts, losses, forks>>

UnregisterWorker ==
    /\ closing # NoPeer /\ ~ReadLocked
    /\ workers' = Unregister(closing)
    /\ closing' = NoPeer
    /\ UNCHANGED <<phase, sess, from, stored, fetch, frags, delivered, warm, tip, bounds>>

-----------------------------------------------------------------------------
Session == (\E p \in Peers : Connect(p)) \/ SessionLost \/ RollBackward \/ Announce

Dispatch ==
    \/ StartDispatch \/ RefuseFromOrigin
    \/ SendChunk \/ SendFails
    \/ AwaitError \/ FetchSucceeds \/ FetchEmpty \/ ApplyFails

Worker(p) == WorkerFetches(p) \/ WorkerTimesOut(p) \/ WorkerFails(p)

Governor == \E p \in Peers : PromoteToWarm(p) \/ DemoteToCold(p)

Next ==
    \/ Session \/ Dispatch
    \/ Governor \/ UnregisterWorker
    \/ \E p \in Peers : \/ Worker(p) \/ BlockInTime(p) \/ ConnectionLost(p)
                        \/ PeerExtends(p) \/ PeerForks(p)

(* The tasks of a dispatch and of the workers are scheduled.  A request    *)
(* ends by an answer or by its time limit (BF_BUSY, BF_STREAMING) unless   *)
(* the peer keeps the batch going, of which nothing is assumed.  The lock  *)
(* is fair, so a waiting writer gets it.                                   *)
Spec ==
    /\ Init /\ [][Next]_vars
    /\ WF_vars(Dispatch) /\ WF_vars(UnregisterWorker)
    /\ \A p \in Peers : WF_vars(~Streaming(p) /\ Worker(p))

-----------------------------------------------------------------------------
(* Whatever the division into chunks and the order of the answers, the     *)
(* blocks of one fetch ascend, start past the read pointer and are         *)
(* returned once (dispatch_plan: blocks in chain order; dedup_range_-      *)
(* lower_boundary).                                                        *)
DeliveredInOrder ==
    LET bs == delivered.blocks
    IN  \A i \in 1 .. Len(bs) :
            Slot[bs[i]] > IF i = 1 THEN SlotOf(delivered.from) ELSE Slot[bs[i - 1]]

(* The read pointer is ahead of the stored chain only when some chunk came *)
(* back empty (fetch_multi_era_range_raw_decoded accepts any non-empty     *)
(* result, and sync_batch_verified_with_tentative moves from_point to the  *)
(* upper end of the range regardless).                                     *)
PointerAtLastBlock ==
    [][ phase = "awaiting" /\ phase' = "idle" /\ stored' # from'
        => stored # from \/ \E i \in DOMAIN plan : replies[i] = NoBlocks ]_vars

(* Timeouts, lost connections and reconnects never end the sync service:   *)
(* without forks it ends only when the governor has removed a worker, a    *)
(* peer has answered MsgNoBlocks, or the first range is split.             *)
EndsOnlyOnLossOrNoBlocks ==
    phase = "failed" =>
        \/ demotions > 0
        \/ stored # from
        \/ \E i \in DOMAIN plan : replies[i] = NoBlocks
        \/ from = Origin /\ Len(plan) > 1

(* A dispatch, which holds the pool's read lock across the whole fetch,    *)
(* ends.                                                                   *)
DispatchEnds == ReadLocked ~> ~ReadLocked

(* The governor, which needs the pool's write lock to unregister the       *)
(* worker of a peer it demotes, gets it in the end.                        *)
GovernorGoesOn == closing # NoPeer ~> closing = NoPeer

(* Nobody holds the lock of the pool, or waits for it, for good, whatever  *)
(* requests fail, time out or are given up, unless a peer keeps one batch  *)
(* going for ever: that peer alone can hold the whole pool up.             *)
PoolLockIsFreed ==
    (\A p \in Peers : []<>~Streaming(p)) => DispatchEnds /\ GovernorGoesOn

(* Removing a peer's worker loses at most its own request: the service     *)
(* goes on when every peer has the blocks that were asked for.             *)
PeerLossIsSurvived ==
    phase = "failed" =>
        \/ from = Origin \/ stored # from
        \/ \E p \in Peers : ~OnChain(range[2], tip[p])
=============================================================================
