# A TLA+ model of the Yggdrasil Cardano node

Yggdrasil is a Cardano node in Rust: it follows upstream peers with the
ChainSync and BlockFetch mini-protocols, verifies blocks, keeps a chain
database on disk, recovers from it after a kill, serves downstream peers, keeps
a mempool and forges blocks. This directory models the parts in which steps of
several actors meet shared state, kills of the process meet durable state, or
peers meet both: the stores and the sync service, the servers, the mempool and
transaction submission, the connections, multi-peer fetching, the multiplexer
and the forge loop. It holds the inventory of the system, the modules, what TLC and
TLAPS establish about them,
and the plan for the rest. Paths below are relative to `src/crates/`.

## 1. Inventory

| component | state | operations | where it is hard |
|---|---|---|---|
| volatile store (`storage/src/file_volatile.rs`) | a file per block, a delete plan (`wal.pending.json`), the chain in memory | add, prune, rollback, garbage-collect, open | a kill between two file operations; order rebuilt from slots at open |
| immutable store (`storage/src/file_immutable.rs`) | a file per block, the chain in memory | append, suffix after a point, trim, open | points it does not hold: below, inside and above its slots |
| snapshots and sidecars (`storage/src/file_ledger.rs`, `ocert_sidecar.rs`) | a file per slot | save, newest at or before, truncate, retain | two histories written at different times; files of abandoned forks |
| chain database (`storage/src/chain_db.rs`) | the three stores | tip, promote, checkpoint, recover, garbage-collect | a promotion killed half way leaves blocks in two stores |
| chain state (`consensus/src/chain_state.rs`) | the last k blocks | seed, roll forward, roll back, drain | rollbacks of exactly k; Origin |
| sync service (`node/sync/src/lib.rs`, `node/runtime/src/reconnecting_sync.rs`) | read pointer, ledger and nonce state, last checkpoint | start, connect, fetch a batch, apply it, checkpoint, reconnect | about a dozen durable steps per batch, each of which a kill may follow; forks in the middle of a batch |
| diffusion pipelining (`consensus/src/diffusion_pipelining/`) | tentative header, last trap and its issuers | set, adopt, trap | a header is public before its body is known to be valid |
| node-to-node servers (`node/ntn-server/src/lib.rs`) | a cursor per client | ChainSync, BlockFetch, KeepAlive, PeerSharing, TxSubmission | several reads under separate locks per answer; notifications |
| mempool (`consensus/src/mempool/`) | fee-ordered queue with index, claims and byte count; per-peer dedup state | submit, evict, confirm, purge, revalidate, re-admit after a rollback; advertise, fetch, receive, unregister | five critical sections per batch of blocks; a ledger read before the lock; two peers offering one transaction |
| BlockFetch pool (`network/src/blockfetch_pool.rs`, `node/sync/src/blockfetch_worker.rs`, `chainsync_worker.rs`) | workers, candidate fragments, reorder buffer | register, partition a range, dispatch, reassemble, unregister | plan and dispatch under different locks; a worker lost, silent or empty-handed |
| mini-protocols (`network/src/*_client.rs`, `*_server.rs`) | protocol state and agency | one per message | pipelining, time limits |
| connection manager, inbound governor (`network/src/connection_manager.rs`, `inbound_governor.rs`, driven by `node/ntn-server`, `node/runtime/src/governor_loop.rs`) | a state machine per connection in each of two maps | reserve, include, promote, demote, time out, reuse, prune, release | simultaneous open, late reports and time-outs, entries keyed by address only |
| outbound governor (`network/src/governor.rs`) | cold, warm and hot peers | promote, demote, churn | targets against failures and back-off |
| multiplexer (`network/src/mux.rs`) | queues and byte counters per protocol | send, segment, receive, reassemble, close | counters and wake-ups updated apart from the queues; blocked halves; fairness |
| consensus rules (`consensus/src/`) | nonces, OpCert counters | select a chain, evolve, check | epoch boundaries; arithmetic |
| block producer (`node/block-producer`, `node/runtime/src/block_producer_loop.rs`) | KES key, last slot tried | per slot: check, read the tip, forge, store, judge adoption | races the sync service for the stores; the wall clock may be set back |
| ledger, Plutus, cryptography, configuration, tools | data | sequential functions | data, not control |

How they interact. The sync service owns the read pointer and writes the chain
database under a write lock; after each batch it calls `notify_waiters`. A
server task per downstream peer reads the same database under read locks, one
lock per call, together with the tentative header that the sync service sets
before it fetches a body. At the start of the process the ledger state is
recovered from the newest snapshot and a replay of both stores, and the nonce
from the newest sidecar and the same replay.

The mempool is one queue behind a lock. Submitters (local clients, the consumer
of TxSubmission) recover a ledger from the chain database, release it, and then
take the mempool lock; the sync service returns rolled-back transactions and
evicts after each batch, one lock at a time; the governor's tick purges. The
TxSubmission servers share one `TxState` that decides who fetches what.

The accept loop, one task per inbound session with its responder tasks, and the
governor loop all act on the connection manager and the inbound governor, each
behind a lock of its own. The governor also registers and removes fetch workers
under the write lock of the pool, which the sync service holds for reading while
it dispatches. The forge loop reads the tip, forges and stores in three critical
sections of the chain database that the sync service writes.

What makes each modelled component correct:

- volatile store: every operation is all-or-nothing under kills, and reopening
  neither loses, revives nor reorders a block;
- chain database and recovery: no block leaves both stores except by a rollback,
  and recovery always rebuilds the ledger of the tip;
- sync service: between batches ledger, nonce, window, stores and read pointer
  are of one chain; nothing that is abandoned becomes immutable; the service
  ends only when it is killed, can always be started again and catches up;
- servers: what is streamed is a chain; a range is what was asked for; a waiting
  client is told when the chain grows; a peer cannot have traps announced at will;
- mempool: index, claims and byte count agree with the entries; no two entries
  spend one input; nothing the chain has spent stays once a batch is dealt with;
  what a rollback returns can be submitted again; eviction pays;
- transaction submission: every fetch and byte marked as in flight belongs to a
  session that is fetching it, or was left by one that was aborted, and is otherwise
  given back in the end; a session is never broken by the server's own bookkeeping;
- connections: no reservation outlives its dial or accept; what counts as in use
  has a session behind it or is about to be taken down; finished connections are forgotten; a connection the
  node uses is not released under it; terminating ends;
- multi-peer fetch: blocks come out linked and in order whatever the order of
  the answers; the read pointer moves to the last block delivered; the lock of
  the pool is freed;
- multiplexer: the bytes of a protocol come out as they went in, once, whatever
  the segmentation; no wake-up is lost; nobody is starved; one half's end ends
  the other;
- forge loop: one block per slot, signed with the key of its period; what it
  stores does not keep the sync service from following its chain, and a block
  reported as adopted extends the chain.

`PROJECT.json` lists the hazards at the lines where they bite.

## 2. Modules

| module | models | extends |
|---|---|---|
| `VolatileStore` | abstract: the `VolatileStore` trait, as `InMemoryVolatile` implements it | |
| `FileVolatile` | `file_volatile.rs`, one action per file operation, with kills and recovery | |
| `ChainTree` | blocks, points, chains | `RetainSeq` |
| `ChainState` | `chain_state.rs`: pure operators on a window | `ChainTree` |
| `ChainDb` | reads of the stores, the file-per-slot stores, recovery | `ChainTree` |
| `SyncPipeline` | the sync service, one action per durable step | `ChainDb`, `ChainState` |
| `Pipelining` | the pipelining criterion | `ChainTree` |
| `ChainSyncServer` | one downstream client served while the sync service works | `ChainDb`, `ChainState`, `Pipelining`, `RetainSeq` |
| `MempoolQueue` | `mempool/queue/inner.rs`: pure operators on the queue | `RetainSeq` |
| `Mempool` | submitters, sync service and governor on one mempool | `MempoolQueue` |
| `TxState` | `mempool/tx_state/state.rs`: pure operators | `RetainSeq` |
| `TxSubmission` | a server per peer and the client at the other end | `TxState` |
| `ConnectionManager` | `connection_manager.rs`: pure operators on the map of entries | |
| `InboundGovernor` | `inbound_governor.rs`: pure operators on its map | |
| `Connections` | accept loop, sessions and governor loop on both | `ConnectionManager`, `InboundGovernor` |
| `FetchPlan` | splitting a range, candidate fragments, reorder buffer | `ChainTree` |
| `BlockFetch` | sync service, workers, governor and peers around the pool | `FetchPlan` |
| `Mux` | one end of a multiplexed connection | |
| `ForgeLoop` | the block producer beside the sync service | `ChainState`, `ChainDb` |
| `RetainSeq` | `Vec::retain` and `filter`, as a recursive function | |
| `MC*` | instances for the runs: block trees, transactions, streams, peers | |
| `InductionLemmas` | lemmas about naturals, finite sets, sums, `Retain`, paths in a tree | `RetainSeq` |
| `FileVolatileProofs` | theorems about `FileVolatile` | `InductionLemmas` |
| `ChainSyncServerProofs` | theorems about `ChainSyncServer` | `InductionLemmas` |
| `SyncPipelineProofs` | theorems about `SyncPipeline`, `ChainDb` and `ChainState` | `InductionLemmas` |
| `MempoolProofs` | theorems about `Mempool` and `MempoolQueue` | `InductionLemmas` |
| `TxSubmissionProofs` | theorems about `TxSubmission` and `TxState` | `InductionLemmas` |
| `ConnectionsProofs` | theorems about `Connections` and the two engines | `InductionLemmas` |
| `MuxProofs` | theorems about `Mux` | `InductionLemmas` |

Each module that models a failing operation writes it as a guard and a result,
or as the set of its outcomes (one, or none for an error). Definitions marked
MUTANT are deliberate errors used to confirm that a property can fail; no
specification uses them.

**FileVolatile.** `chain` is the in-memory vector; `files`, `wal` and `removing`
are the directory, the delete plan and the unlinks still to come. `prune_up_to`,
`rollback_to` and `garbage_collect` each become `BeginDelete` (the plan is
written), one `RemoveFile` per block and `ClearDeleteWal`; `add_block` has one
durable step, the atomic write of the file. `Crash` may come after any of them;
`OpenReplayWal`, `RemoveFile`, `ClearDeleteWal` and `OpenScan` are
`open_inner`. `SlotOrders` keeps the nondeterminism of sorting a `HashMap`'s
values by slot.

**SyncPipeline.** `phase` is the program counter between durable operations. The
volatile store is the atomic one, justified by run `volatile_store`. A batch is
a sequence of forward blocks and possibly a rollback at its end, as
`sync_batch_verified_with_tentative` builds it. All of it goes to the volatile
store (`AddVolatile`, `RollbackVolatile`); then the window judges it
(`TrackForward`, `TrackBackward`) and what it drains is promoted
(`AppendImmutable`, `PruneVolatile`); then
`update_ledger_checkpoint_after_progress` truncates histories, moves or recovers
the ledger, and saves; the sidecar is last. An error that the code propagates
with `?` ends the process (`Exit`). `Restart` reopens the stores, recovers, and
refuses to start ("dead") when it cannot. `Connect` is the seed of the window,
the realignment of the read pointer and `MsgFindIntersect`.

**ChainSyncServer.** Every provider call takes its own read lock and is a step.
The batch of the sync service is one step, since it holds the write lock, and
the notification is another one after it. `SyncPipeline` splits the batch and
has no reader; `ChainSyncServer` has a reader and takes the batch whole.

**MempoolQueue, Mempool.** The queue keeps the redundant fields of the code
(`entries`, `claimed`, `ids`, `bytes`, `next`), because their agreement is what
several removals could break. A submission is two actions: recover the ledger,
then insert with the checks in the order of the code and fee eviction.
A batch changes the chain in one step; after it the sync service re-admits what
was rolled back, removes what was confirmed, what conflicts, what expired, and
revalidates at an epoch boundary, each under its own lock and with submissions
in between.

**TxState, TxSubmission.** `ts` is the shared state; `srv[p]` holds the local
variables of `run_txsubmission_server`, `cli[p]` the repository's own client with
its acknowledgement window. Only the side with agency sends, so a session's wire
holds at most one message. Each call on `SharedTxState` is an action, so another
server's calls fall between the filter of the advertised ids, the look at the
budget, the marking and the release. Every exit of the server's loop calls
`unregister_peer` (`Leave`); the session task that aborts the server once KeepAlive
has ended does not (`Abort`), and `aborted` remembers the peers whose entry was left.

**ConnectionManager, InboundGovernor, Connections.** The two engines are pure in
the code, too, and are operators on maps here, one per operation, with the
actions they ask of the runtime as part of the result. `Connections` adds the
tasks: accept (check the limit, include, hand over), a session (responders that
start, report and end; its cleanup), the governor (dial, establish, reuse,
demote, forget, retire) and the two periodic ticks. Giving a peer up is two steps:
`demote_to_cold` takes it from the peer manager and waits for the lock of the fetch
pool (`LetGo`, for ForgetPeer and for failed keep-alives and tip queries); then the
entry is taken down, in whatever state the accept loop has left it, and the registry
updated, or not for a hot bootstrap peer (`RetireEntry`). The entries are keyed by
address, so a late session acts on the entry of whatever came after it.

**FetchPlan, BlockFetch.** The service plans a range from the registered peers
and their fragments (`Announce`), takes the read lock (`StartDispatch`) and sends
a chunk to each worker (`SendChunk`), waits for all of them, and drains the
reorder buffer (`FetchSucceeds`). Workers answer,
fail, or run into the time limit, after which their protocol state refuses every
later request. The limit is one between two blocks, and no number of blocks ends a
batch, so a peer may keep a request going (`BlockInTime`). `closing` is the peer
whose worker the governor is about to remove,
waiting for the write lock.

**Mux.** One end, at the grain of single atomic accesses and awaits: `send` as
check of the limit, queueing and counting, in this order; the writer's round over
the slots with weights, segments and shutdown; the reader's header with the check of
the limit and the counting, its payload, which waits without a time limit and without
a look at the cancellation, and the delivery; the receivers' reassembly and release.
Messages delimit themselves, except that `cbor_item_length` takes the end of the
buffer for the break of an indefinite-length string: `Cuts` says where the strings of
a stream can be cut so, and `ItemLength` then finds an item that is not whole. Counters are
unsigned and count modulo `Modulus`, since the writer may subtract before a sender has
added.

**ForgeLoop.** The clock, the slot check, the tip context, KES evolution, storing
and the adoption check are separate steps. The sync service beside it is that of
`SyncPipeline` with a batch, of forward blocks or of one rollback, in one step:
stores, window, promotion, ledger, nonce and the histories of snapshots and sidecars.
After a rollback ledger and nonce are recovered from the stores with the operators of
`ChainDb`, own blocks included, and an error of any of this ends the service
(`service` says whether a sidecar was missing or something else failed).

## 3. What is abstracted

- A block is a model value with parent, slot and issuer; a ledger or nonce state
  is the sequence of blocks that went into it. Blocks hold no transaction valid
  on one fork only, so the one check of `apply_block_validated` that can fail is
  slot monotonicity.
- In `SyncPipeline` no two blocks have the same slot. The case of equal slots is
  studied in `FileVolatile`.
- A file is written atomically (`atomic_write_file` renames); the fallbacks for
  undecodable files are left out, and so are failing file operations. Each
  truncation or retention of snapshots or sidecars is one step.
- Requests are serial (`request_count` = 1); the pipelined client is planned.
- `max_snapshots` = 0 (checkpoints disabled), OpCert counters, epoch boundaries,
  stake snapshots and back-off times are left out. The mempool updates of a
  batch are in `Mempool`.
- `MsgFindIntersect` carries one candidate, as this node's own client sends it.
- In `ChainSyncServer` a rollback is a batch of its own, to a block of the
  window; a rollback to Origin adds no new kind of step. A kill is modelled where
  it matters to readers, in the middle of a promotion. Blocks forged locally are
  in `ForgeLoop`.
- The upstream peer is external: it moves to longer chains only, and abandons at
  most `MaxRollback` blocks at a time.
- `Mempool`: the validity of a transaction is its inputs, its time to live and the
  minimum fee of the epoch; a batch is a rollback, a block of at most
  `MaxBlockTxs` transactions, or both.
- `TxSubmission`: a transaction's advertised size is its size; the consumer
  answers valid or not.
- `ConnectionManager`: the code numbers entries and only compares the numbers, so
  an entry has its rank. Deadlines are not times: a tick may find an armed one
  passed or not. The inbound governor stamps an idle connection with time 0
  (`inbound_governor.rs:271`), so there the timeout has in fact always passed.
- `Connections`: the two locks one report of a responder takes are one step, and
  so are pruning and closing when an outbound connection is established. A
  session's last step waits for its responders.
- `BlockFetch`: the knob is above 1 (the pool is used), a batch has at least two
  headers, the session's own ChainSync is reduced to the headers it announces. A
  peer follows a chain of its own and changes it at most `MaxForks` times.
- `Mux`: the peer sends only SDUs with a known protocol and a payload; an
  indefinite-length string, if any, is the last item of its message, where a cut
  makes the whole message look complete.
- `ForgeLoop`: one session without restarts, and without the mempool; whether the
  pool leads a slot is a free choice. A batch is forward blocks or a rollback, not
  both (`sync_fork` has both).

## 4. Runs

Passing runs:

| run | instance | shows |
|---|---|---|
| `volatile_store` | a chain of four and a fork of two; kills unbounded | `FileVolatile` implements `VolatileStore` (`AtomicUnderCrashes`, a refinement); memory matches disk; the reopened chain is linked |
| `sync_crash` | seven blocks, k = 2, batches of 2, two snapshots retained, two kills, one lost connection | no block lost, recovery reaches the tip from every state, nonce and ledger agree, the node can always restart and keeps following the peer |
| `sync_fork` | the same chain, k = 3, and a fork of four from the third block, two snapshots and sidecars retained, one lost connection, no kills | ledger, window, stores and read pointer agree after every batch; the immutable chain is never abandoned; the service follows |
| `serve` | five blocks, a fork of two, two issuers, k = 2, batches of up to 2, two failing fetches, one kill | the immutable chain is served in order; ranges are exact while the stores are disjoint; one trap per issuer and block number |
| `mempool` | four transactions (two compete, one spends another's output, one displaces others), three bytes, slots 0 to 2 with an epoch boundary, two batches | `Bookkeeping`, `NoSpentInput`, `RollbackCanReturn`, `EvictionPays` |
| `tx_submission` | two peers with overlapping offers in different orders, three transactions, one of them invalid, ring of two, budgets that defer, three sessions in all, any of which may be aborted | `FetchesAccounted`, `PeerWithinBudget`, `OnlyDeferralBreaksSession`, `FetchEnds` |
| `connections` | two interchangeable peers, limit of one inbound, two sessions, one dial | `NoStuckHandshake`, `InUseIsBacked`, `GovernorForgets`, `LocalUseKept` |
| `connections_live` | one peer, two dials, one session with two responders | `TerminatingEnds`, `SessionEnds` |
| `block_fetch` | four blocks and a fork, two peers, one promotion, one time-out, one loss, one change of fork | `DeliveredInOrder`, `EndsOnlyOnLossOrNoBlocks`, `PointerAtLastBlock`, and, if no peer keeps a batch going for ever, `PoolLockIsFreed` |
| `mux` | two protocols, messages of one to three bytes, segments of two, channels of one, counters modulo 16 | `StreamsIntact`, `NoLostWakeup`, `BoundedOvertaking`, `OverflowIsReal`, `TeardownSpreads` |
| `forge_loop` | every chain over five slots, k = 2, KES periods of two slots and two evolutions, the clock set back once | `SignsOncePerSlot`, `StoredChainIsFollowed` |

Every property has a comment at its definition that says it in words. Some are
conjunctions of named parts that are only interesting together: `Bookkeeping`,
`FetchesAccounted`, `PoolLockIsFreed`, `StreamsIntact`, `SignsOncePerSlot`; the
type invariant is one of the parts where a run does not name it. The type
invariants of `Connections` and `SyncPipeline` are proved (section 6); those of
`ChainSyncServer` and `BlockFetch` hold in the instances above (add
`INVARIANT TypeOK`).

Bounds. k = 2 with batches of 2 makes blocks stable in the middle of a batch, at
its end, and not at all, and chains of five to seven blocks let two promotions
follow each other. Two kills let the second one meet what the recovery from
the first left behind (recovery itself writes nothing); `FileVolatile` needs no
bound, since its state is finite. The fork is made of blocks with slots between
those of the main chain, so that an order by slot would mix them. Two traps are
what the criterion is about. `EarlyCrash` = FALSE in `sync_crash` excludes a kill
before the first sidecar exists, and `MaxRollback` = 2 is below k in `sync_fork`:
what happens beyond is under "Known divergences". Two sidecars are the least that
carry the service through the rollbacks of `sync_fork`; with one it ends
(`ServiceSurvives` with `MaxSnapshots` = 1). `ImmutableServedInOrder` and
`RangeIsExact` exclude overlapping stores where they depend on it: after a kill
in the middle of a promotion, `get_block_range` returns the overlap twice. One kill
is also the limit of what is true: see "Killed twice" below.

The mempool holds two or three of the four transactions, so that conflict,
capacity, eviction of one and of two, and expiry at the boundary all occur; two
batches let a rollback undo a confirmation. In `tx_submission` the ring forgets
an id that a peer still offers, and the budget admits one, two or, for the
oversized first candidate, more than it has; a third session meets what the abort of
the first left, with both peers at work. In `connections` the limit of one
makes every second arrival prune or be refused; a second session of the same
peer meets the cleanup of the first; the liveness run gives up the second peer
for a second dial and a second responder. In `block_fetch` the batch of three
splits unevenly and, as slots are consecutive, chunk boundaries fall on and
between announced headers. The `mux` counters wrap at 16, far above the limit
of 2, so that a subtraction before the addition shows as a huge value, as it does
with 64 bits. Over five slots `forge_loop` reaches stray blocks of the pool between
those of the peer, ledgers recovered from them, and services that ended over them.

Deadlock is checked in `volatile_store`, `serve`, `connections` and
`connections_live`. `CHECK_DEADLOCK FALSE` is set elsewhere: the block tree, the
streams or a named bound ends, and nothing is left to do.

The run that expects a violation, with its finding in `PROJECT.json`:

| run | property | stated in | what TLC shows |
|---|---|---|---|
| `serve_next` | `NextIsStrictlyAfter` | `ntn-server/src/lib.rs:1562` "Find the first block strictly after `cursor` in the combined chain." | for a cursor in the volatile store `find_next_block` returns the first volatile block instead of the next |

### Known divergences

Each of these configurations checks one property that a comment, a document or a
test states, and TLC refutes it with what the code does. (Those marked * are the
configurations of the passing runs, with the change named: put the property in the
place of theirs.) They are kept to show
where the passing runs stop, and to be turned into passing runs when the code or
its comment changes.

| configuration | property | stated in | what TLC shows |
|---|---|---|---|
| `FileVolatileEbb` | `OpenedChainIsLinked` | `storage/src/file_volatile.rs:245` "Sort by slot to recover insertion order." | blocks of one slot (a Byron epoch-boundary block and its successor) may be reopened in the wrong order |
| `SyncFork`*, `MaxRollback` = 3 | `ServiceSurvives` | `consensus/src/chain_state.rs:26-27` "The Ouroboros security parameter `k`, defining the maximum rollback depth." | a rollback of exactly k blocks ends the service: `drain_stable` keeps k entries, so the target has left the window |
| `SyncFork`* | `NonceFollowsLedger` | `node/sync/src/lib.rs:1540-1542`, counters and nonces are restored "to the rollback point before replaying the selected chain suffix" | forwards and a rollback in one batch: the nonce is restored and then evolved with the blocks that were rolled back |
| `SyncCrash`*, `EarlyCrash` = TRUE | `NeverDead` | `docs/MANUAL_TEST_RUNBOOK.md:382` "12 cycles complete with monotonic tip progression at each settle window" | a kill between the first stored block and the first sidecar: no later start succeeds |
| `SyncFork`*, `MaxCrashes` = 1 | `NeverDead` | `node/runtime/src/sync_session.rs:131-132` "the next batch starts a fresh sync from genesis" | a node restarted on a tip that its peer has abandoned offers only this tip, goes back to Origin, fails, and cannot start again |
| `ServeWake` | `WaitingServerIsWoken` | `node/runtime/src/peer_session.rs:291-293` "fires `notify_waiters()` after each successful batch application so inbound ChainSync servers can push updates without busy-looping" | a batch applied between the server's look at the chain and `notified()` wakes nobody |
| `MempoolChild` | `DependenciesFirst` | `mempool/queue/inner.rs`, "later entries whose inputs depend on earlier mempool entries remain valid" | a child that pays more precedes its parent |
| `TxSubmission`* | `SessionSurvivesDeferral` | `node/ntn-server/src/lib.rs:1073-1077` "NOT acknowledged on the wire so the peer keeps them queued for re-advertisement" | the next request is a blocking one that leaves the deferred id outstanding, which the repository's own client refuses: the session ends |
| `TxSubmissionKnown` | `KnownIsHeld` | `mempool/tx_state/state.rs`, "`known` — bounded FIFO of TxIds that are in the mempool or recently confirmed in a block" | a duplicate ends the consumer's batch, and the transactions after it, already marked as known, are dropped |
| `ConnectionsIdle` | `OutboundIdleEnds` | `connection_manager.rs:509` "OutboundUni → OutboundIdle(Uni) → Terminate" | a released unidirectional connection stays idle: no call moves it on |
| `BlockFetch`* | `PeerLossIsSurvived` | `docs/ARCHITECTURE.md:96` "surviving workers stay alive for subsequent iterations; only the offending request's response is lost." | a worker lost during a request ends the sync service |
| `TxSubmissionAbort` | `SessionsAreReleased` | `node/ntn-server/src/lib.rs:998-1001` "without this cleanup, repeated reconnects would leak `PeerTxState` entries and inflate `inflight_bytes_total`" | the session aborts the server when KeepAlive ends, and nobody unregisters the peer (`:2183`) |
| `MuxSegments` | `WeightIsSegments` | `network/src/mux.rs:13-15` "Each protocol gets `weight` segments per round before the scheduler advances" | the weight counts payloads: a protocol of weight 1 writes two segments while another one waits |
| `MuxStrings` | `MessagesAreWhole` | `network/src/mux.rs:1075-1076` "Returns `Some(n)` if bytes `0..n` form one complete, well-formed CBOR value, or `None` if the buffer does not contain enough data" | an indefinite-length string that the buffer cuts after its header or a chunk counts as complete (`:1241`) |
| `ForgeAdopted` | `AdoptedExtendsChain` | `node/runtime/src/block_producer_loop.rs:418-419` "check whether our block became the new tip of the chain", `:476-478` "block was valid but not adopted (another leader's block was preferred by chain selection)" | a block stored on a tip that has moved is reported as adopted |

**A batch without end.** `BlockFetch`* with `DispatchEnds` alone: a peer that sends
blocks in time and never `MsgBatchDone` keeps the dispatch, and with it the read lock
of the pool, the governor and the sync service waiting. `PoolLockIsFreed` therefore
assumes that no peer does so for ever.

**A stray block.** The other side of `ForgeAdopted`: the block that was stored on a
tip that had moved stays in the volatile store between blocks of the followed chain.
A rollback recovers the ledger from the store as it is, so it may contain the stray
block, or its slots do not ascend and the service ends. `StoredChainIsFollowed` says
that nothing else does: as long as the two stores hold one chain, ledger, nonce and
read pointer follow it and nothing has failed.

**Killed twice.** With `K` = 4, `BatchSize` = 4 and `MaxKills` = 2 in `Serve.cfg` TLC
refutes `RangeIsExact`. The first kill, in the middle of a promotion, leaves blocks
in both stores. The next start seeds the window from the volatile store
(`seed_from_entries`), so it may hold blocks that are already immutable; a rollback
and a second kill take it further back, until a rollback passes below the immutable
tip. From then on the two stores are not one chain.

**Killed, then rolled back.** With `MaxCrashes` = 1 in `SyncFork.cfg` TLC refutes
`LedgerAtReadPointer`. A kill before the prune of a promotion leaves more than k
blocks in the volatile store; the next start seeds the window with the last k of
them, and a rollback takes some away without bringing back those before. The
window is then shorter than it could be, and refuses a later rollback to a block
that is within k of the tip and in the store. The ledger part of the property is
not refuted in these instances.

### Hazards without a property

`PROJECT.json` lists the hazards that properties cover, and those the runs state
in part. Met while reading, and not covered:

- stores: `rollback_to` deletes without a plan when the plan cannot be written
  (`file_volatile.rs:469`); failing file operations are not modelled;
- servers: a trap that was announced is taken back only when nothing else is to
  be served (`ntn-server/src/lib.rs:737`), and a client whose cursor was rolled
  back is never sent `MsgRollBackward` (`:1494`); `serve_next` shadows both;
- sync: a failed fetch records a trap even for a lost connection
  (`sync/src/lib.rs:5117`); pipelined answers after a rollback are dropped
  (`:4987`); the loop waits for a full batch at the tip without keep-alives
  (`:4993`);
- mempool: a transaction that enters between the snapshot for the rollback cache
  and `remove_confirmed` is lost on a rollback (`reconnecting.rs:120`); the cache
  is pruned by rollbacks only (`:127`); an adopted own block removes its
  transactions without caching them (`block_producer_loop.rs:446`);
- transaction submission: two servers may together exceed the total budget
  (`ntn-server/src/lib.rs:1085`);
- connections: the accept loop drops the action that closes pruned peers
  (`ntn-server/src/lib.rs:1789`); pruning prefers terminated entries, which frees
  no slot (`connection_manager.rs:1249`); pruning a released outbound connection
  leaves an idle inbound entry without a session (`cm_actions.rs:318`);
- fetch: a plan is made from one look at the pool and dispatched under another lock, so
  a worker may be gone by then (`sync/src/lib.rs:5234`), which ends the service
  (`PeerLossIsSurvived`); `split_range` with three or more chunks (`blockfetch_pool.rs:408`), which
  needs three peers; `publish_rollback` has no caller (`chainsync_worker.rs:427`),
  so fragments keep abandoned headers (they do in the model);
- multiplexer: bytes queued for a dropped handle stay counted (`mux.rs:493`);
- forge loop: `last_checked_slot` is not persisted (`block_producer_loop.rs:129`).

## 5. Fairness

`SyncPipeline!FairSpec`: weak fairness of the steps of the service, of
connecting, of restarting, and of the two answers a connected peer owes. The
loop never stops by itself and each step of it is a plain call; reconnecting is
retried for ever with back-off; an operator (or a supervisor) restarts a process
that ended; ChainSync obliges a server with something to say to say it. Nothing
obliges the peer to adopt blocks, the process to be killed, or a connection to be
lost. `FollowsPeer` asks for the tip within a batch, because the serial loop waits
for `batch_size` headers before it fetches.

`ChainSyncServer!FairSpec`: weak fairness of the server task and of the sync
service's own steps, which tokio schedules. Clients, upstream peers and failures
are free. `ServeWake.cfg` fails under it: the server is never enabled again until
another batch arrives.

`TxSubmission!Spec`: weak fairness of each server task and of its time limit for
`MsgReplyTxs`. Clients owe nothing: one that never answers is timed out. `FetchEnds`
excepts what an aborted session has left, which only a later session of the same
peer gives back.

`Connections!LiveSpec`: weak fairness of the accept loop and of each session, and of
the end of its KeepAlive responder once the connection is closed (its read fails). Of
the governor loop only the status update is fair: its other steps wait for the lock of
the fetch pool, which a slow peer may hold, and `TerminatingEnds`
and `SessionEnds` do not need them. Strong fairness of the inbound tick: the accept loop's
`select` is biased, and takes a tick that is due before it accepts another
connection, so a stream of connection attempts cannot hold the tick back. Peers
and dials are free.

`BlockFetch!Spec`: weak fairness of the dispatch, of each worker that is not in the
middle of a batch (the protocol's time limit of 60 seconds ends a request that the
peer does not answer) and of the governor's removal of a worker (tokio's lock is fair
to writers). Nothing ends a batch that a peer keeps going, so nothing is assumed of
it; `PoolLockIsFreed` carries the assumption itself.

`Mux!FairSpec`: weak fairness of the writer and of the reader. The writer's steps
do not include a failing write, and the reader's include the limit of 30 seconds
on the read of a header but not the arrival of a payload. The drivers and the peer are
free, and `TeardownSpreads` holds without their help; it names the three places where
a task does not look at the cancellation.

## 6. Proofs

Each theorem holds for every value of the constants that meets the named
assumptions: any finite tree of blocks, any set of peers, transactions or
protocols, any limit. `tlapm` checks all of them to the last leaf.

**FileVolatileProofs** (`BlocksAssumption`: finitely many blocks, slots are
natural numbers; equal slots are allowed).

- `TypeCorrect`, `ChainOnDisk` (`ChainMatchesDisk`): while the store serves, the
  block files that the pending plan does not name are exactly the blocks of the
  chain, each once, with kills between any two file operations. This is not
  inductive: a step that removes the plan while a file it names is left would
  bring a deleted block back. `IInv` adds `PlanIsCarriedOut`: what the plan names
  and is still on disk is still to be unlinked, and nothing else is.
- `OpensLinked` (`OpenedChainIsLinked`) and `CrashesAreAtomic`
  (`AtomicUnderCrashes`, the refinement of `VolatileStore`), both under
  `SlotsGrow`: a block has a later slot than its parent. A Byron epoch-boundary
  block breaks that, and `FileVolatileEbb` shows the consequence. `ViewInv` says
  that there is one chain, linked and sorted by slot, that the spared files hold,
  and that it is the chain in memory while the store is up; it is also the
  witness of the refinement mapping, since a sorted chain is the only order in
  which `open` can return its blocks. The refinement is proved action by action:
  `BeginDelete` is the abstract prune or rollback, the unlinks, a kill and the
  recovery are stutters.

**ConnectionsProofs** (`CMAssumption`, `ConnectionsAssumption`: finitely many
peers and responders).

- `TypeCorrect`. The type invariant is not inductive: a responder that ends takes
  one from a shared counter. `TypeInv` adds `Counted`, each counter is the number
  of responders that run.
- `HandshakesSettle` (`NoStuckHandshake`), inductive together with the types: for
  each kind of step, an entry it leaves reserved or negotiating is the
  one of the task that is still at it.
- `GovernorForgetsAlways` (`GovernorForgets`), from `FollowedRuns`: who is followed
  has a session that runs, not merely one that is not over.
- `InUseIsBackedAlways` (`InUseIsBacked`), from `Backing`, which adds where the
  governor stands while a peer it dials has no outbound entry yet, or while it has
  let go of a peer and the entry is still there. The property is
  about unidirectional entries: a report of a late responder may revive a duplex
  entry whose session is gone (section 4, hazards).
- `LocalUseIsKept` (`LocalUseKept`), an action property, from lemmas about each
  operator of `ConnectionManager`.

**MempoolProofs** (`TxAssumption`, `BoundAssumption`; `LedgerAssumption`: a
transaction has an input, and outputs are unique).

- `BookkeepingAlways` (`Bookkeeping`), from `QueueOK` shown for each operator of
  `MempoolQueue`: insertion, each removal, and eviction of any number of entries.
- `EvictionAlwaysPays` (`EvictionPays`), an action property: the sum of fees over
  the victims that `insert` selects is below the fee of the newcomer.
- `RollbackCanAlwaysReturn` (`RollbackCanReturn`), from `ReturnInv`: between the
  batch and the removal of what it confirmed, what will be owed is already cached.
- `NoSpentInputAlways` (`NoSpentInput`), from `LedgerInv`: the chain spends
  no output twice; the ledger each submitter recovered is that of a chain it saw;
  an entry not marked stale, or rolled back and on its way back, has only inputs
  that the chain leaves it.

**TxSubmissionProofs** (`TxStateAssumption`, `TxSubmissionAssumption`: finitely
many peers and transactions; an offer names each once).

- `FetchesAccountedAlways` (`FetchesAccounted`), `PeersKeepToBudget`
  (`PeerWithinBudget`), `OnlyDeferralBreaks` (`OnlyDeferralBreaksSession`), from one
  invariant `IInv`: the fields of the shared state agree with each other
  (`TxStateOK`, `Accounted`), each fetch in flight belongs to the session that
  waits for it or was left by an aborted one (`Orphans`), and for each program
  point of a session, what the
  server holds, what the client counts as unacknowledged and the one message on
  the wire fit together (`SessionOK`). The last is what `OnlyDeferralBreaksSession`
  needs: acknowledgements of both ends agree unless an id was deferred.

**MuxProofs** (`MuxAssumption`: each protocol has one slot, messages are not empty,
limits are positive).

- `WakeupsAreKept` (`NoLostWakeup`), from `WakeInv`: in a round that has written
  nothing and has no permit stored, every slot already visited is empty or its
  sender will still notify.
- `OvertakingIsBounded` (`BoundedOvertaking`), from `TurnInv`: what overtook a
  payload was written in one visit of a slot, and a visit writes at most the hot
  weight in payloads even if the weights change in it; the bytes of the payload in
  hand are counted as its segments go out.
- `StreamsAreIntact` (`StreamsIntact`): `WrittenIsSent` for the sending half,
  `ReceiveInv` for the receiving half: read, being delivered, queued, in hand and
  returned, one after the other, are the beginning of the peer's stream, whatever
  strings are cut, and `ingress_bytes` is the length of the middle ones. That the
  returned messages are whole is shown for streams without indefinite-length strings
  (`Cuts[p] = {}`); with them it is false (`MuxStrings`).
- `OverflowsAreReal` (`OverflowIsReal`), from `PendInv`: modulo `Modulus`, the
  counter and what a sender has queued and not counted add up to what is really
  queued.

**ChainSyncServerProofs** (`ChainTreeAssumption`, `SecurityParamAssumption`,
`ChainSyncServerAssumption`: a finite tree with slots that grow, k and the batch
size at least 1).

- `OneTrapAlways` (`OneTrapPerIssuer`), from `TrapInv`: the criterion knows the
  highest trap announced and every issuer that has one there, and a tentative
  header was allowed by a criterion that has not changed since.
- `RangesAreExact` (`RangeIsExact`) and `ServedInOrder` (`ImmutableServedInOrder`,
  an action property), both for `MaxKills <= 1`. `StoreInv`: there is one chain of
  which the immutable store is the beginning, the volatile store the blocks after
  the first v and the window those after the first w, with
  v <= `Len(imm)` <= w; v = `Len(imm)` until a kill in a promotion. The middle
  inequality is what keeps a rollback, whose target is in the window, above the
  immutable tip. A second kill can break it; then the property itself fails
  (section 4), so the hypothesis cannot be dropped.

**SyncPipelineProofs** (`ChainTreeAssumption`, `SecurityParamAssumption`,
`SyncPipelineAssumption`: a finite tree with slots that grow along a chain and are
not shared by two blocks, k, batch size and retained snapshots at least 1; any
number of kills and lost connections, early kills included).

- `TypesAlways` (`TypeOK`) and `BlocksAreKept` (`NoBlockIsLost`, an action
  property), from `TypeInv`: during a promotion, the volatile blocks about to be
  pruned are in the immutable store or still in the queue. No further assumption.
- `ImmutableStaysFinal` (`ImmutableIsFinal`) and `StoresFollowReadPointer`
  (`StoresAtReadPointer`), for `MaxRollback < K`: the peer abandons fewer than k
  blocks at a time, as often as it likes. Ouroboros promises at most k, but with
  exactly k the service ends (section 4), because the window keeps k entries
  and the target is the one before them. The stores, the window and each batch are
  pieces of chains, `Seg(a, x)`: the chain of x above height a. `StoreInv` says
  phase by phase (`InAdd`, `InTrack`, `InAppend`, ...) whose pieces they are and how
  they join. The immutable chain is `Final`: k blocks deep in the peer's chain. That
  it is merely on that chain is not inductive, since the peer may switch between
  the batch and its promotion. A batch received earlier is therefore
  `Followed`: the peer may have left its end, but no block `MaxRollback` deep in it,
  and what is promoted is k deep.
- `LedgerFollowsReadPointer` (`LedgerAtReadPointer`), for `MaxRollback < K` and,
  when `MaxRollback` is not 0, a process that began without a ledger
  (`base` is empty); one that was restarted and then rolls back may violate the
  property (section 4, "Killed, then rolled back"). `SnapInv`: every snapshot on
  disk is the ledger of its point, on the stored chain; between the rollback of the
  volatile store and the truncation of the snapshots, on one that goes on from the
  rollback point. It is what makes `Recovery`, which takes the newest snapshot
  whatever its chain, return the ledger of the tip: `RecoveryIs` proves that of
  `recover_ledger_state_chaindb` when the volatile chain goes on from the immutable
  one, overlaps included, and `RecoveryFails` that it reports an error when
  the immutable chain is ahead. `WinInv` is the window's part, `LineInv` what a peer
  without forks adds. A batch of forward blocks and a rollback to Origin (`Mixed`)
  makes an exception to each: its ledger is that of the forward blocks while the
  read pointer is Origin, and the process ends when it saves the sidecar.
- `RecoveryAlwaysReachesTip` (`RecoveryReachesTip`), for `MaxRollback = 0` as in
  `sync_crash`: what is on disk between any two durable steps recovers the
  ledger of the tip, and nothing else.
- `NonceAndLedgerAgree` (`NonceFollowsLedger`), under the conditions of
  `LedgerFollowsReadPointer`, if `MaxRollback = 0` or `BatchSize = 1`. `NonceInv`
  needs that no batch rolls back after forward blocks: such a batch restores
  the nonce and then evolves it with the blocks rolled back (section 4).
  `NonceAtTip` proves that `restore_chain_dep_state_after_rollback` at the tip
  of the stores gives the state of the tip, whichever sidecar it begins with.

**InductionLemmas.** The induction theorems of the library take a predicate as a
parameter, which the provers cannot instantiate. `NatInductionOnSet` and
`FiniteInductionOnSet` take the set of values for which it holds and look at a
minimal one outside it; from them come sums over finite sets, `Retain`, and the
paths and pieces of chains in a tree. Recursive functions (`PathTo`,
`Retain`) are shown to exist before their equations are used (`RecursionExists`,
`PathExists`).

Only model-checked: all liveness (`FollowsPeer`, `FetchEnds`, `TerminatingEnds`,
`SessionEnds`, `PoolLockIsFreed`, `TeardownSpreads`), which is out of the prover's
reach; the safety properties of `BlockFetch` and `ForgeLoop`; and of `SyncPipeline`,
what the hypotheses above leave out: ledger and nonce of a restarted process that
meets forks.

## 7. Not modelled

The ledger rules, Plutus and cryptography are functions over data too large for
model checking and without interleavings; with the command-line tools and their
tables they are most of the repository's lines. Configuration, tracing, telemetry
and the tools are input and output.

In modelled components:

- stores: compaction and the read-only open of the volatile store, trimming of the
  immutable store, failing file operations;
- sync service: pipelined requests, the handoff between peers, epoch boundaries;
- servers: KeepAlive and PeerSharing, which answer from their arguments; the drain
  of the accept loop at shutdown; the node-to-client servers;
- mempool: snapshots and iteration of readers, waiting for changes, `pop_best`
  (the node does not call it);
- connections: the maturation of duplex peers, which only counts; events no caller
  sends;
- outbound governor: the decisions themselves (targets, churn, scores, ledger
  peers); what the governor loop does with a decision is in `Connections`;
- fetch: the knob at 1 or below, where the session fetches by itself as in
  `SyncPipeline`; the scheduling counters, which only instrument; the tentative
  variant of the dispatch;
- multiplexer: `MuxHandle::abort`, unknown protocols, empty SDUs, the bearers;
- block producer: leader election, block contents, OpCert counters, restarts.

## 8. Plan

Done: the path of a block from the peer to the disk and on to a downstream client,
the mempool and transaction submission, connections, multi-peer fetch, the
multiplexer, the forge loop; the theorems of section 6. Next, in this order:

1. Theorems: `SignsOncePerSlot` of `ForgeLoop`; `DeliveredInOrder` of `BlockFetch`,
   which needs a lemma about sorting by slot; the ledger of `SyncPipeline` across
   restarts with forks, which needs an invariant about the snapshots of abandoned
   chains that a kill leaves above the tip.
2. `ChainSyncClient`: pipelined requests against a server that rolls back.
3. Restarts in `ForgeLoop`, and the mempool's part of adoption.
4. Decisions of the outbound governor against failures and back-off.
5. Nonce evolution and OpCert counters across an epoch boundary, as operators
   checked against a reference definition.
6. Garbage collection and trimming in `ChainDb`; failing file operations.
7. Acquire and release of LocalStateQuery and LocalTxMonitor.

## 9. Running

    tlc -workers 2 -config FileVolatile.cfg    MCFileVolatile
    tlc -workers 2 -config SyncCrash.cfg       MCSyncPipeline
    tlc -workers 2 -config SyncFork.cfg        MCSyncPipeline
    tlc -workers 2 -config Serve.cfg           MCChainSyncServer
    tlc -workers 2 -config Mempool.cfg         MCMempool
    tlc -workers 2 -config TxSubmission.cfg    MCTxSubmission
    tlc -workers 2 -config Connections.cfg     MCConnections
    tlc -workers 2 -config ConnectionsLive.cfg MCConnections
    tlc -workers 2 -config BlockFetch.cfg      MCBlockFetch
    tlc -workers 2 -config Mux.cfg             MCMux
    tlc -workers 2 -config ForgeLoop.cfg       MCForgeLoop
    tlapm InductionLemmas.tla
    tlapm FileVolatileProofs.tla
    tlapm ChainSyncServerProofs.tla
    tlapm SyncPipelineProofs.tla
    tlapm MempoolProofs.tla
    tlapm TxSubmissionProofs.tla
    tlapm ConnectionsProofs.tla
    tlapm MuxProofs.tla

Module and configuration of each run are in `PROJECT.json`, the one that expects a
violation included; a configuration of
"Known divergences" runs with the `MC` module whose name it begins with
(`Sync*` with `MCSyncPipeline`, `Serve*` with `MCChainSyncServer`, `Forge*` with
`MCForgeLoop`).
