---------------------------- MODULE SyncPipeline ----------------------------
(***************************************************************************)
(* The verified sync service: run_reconnecting_verified_sync_service_-     *)
(* chaindb_inner of crates/node/runtime/src/reconnecting_sync.rs with the  *)
(* functions it calls for each batch (apply_verified_progress_to_chaindb,  *)
(* update_ledger_checkpoint_after_progress, persist_chain_dep_state_-      *)
(* sidecar of crates/node/sync/src/lib.rs).                                *)
(*                                                                         *)
(* One action per durable operation, so that a crash can come between any  *)
(* two.  The volatile store is the atomic one that FileVolatile is shown   *)
(* to implement.  The upstream peer is external: it follows a longest      *)
(* chain, may switch to a longer fork, and serves ChainSync as upstream    *)
(* servers do.  Requests are serial (request_count = 1).                   *)
(***************************************************************************)
EXTENDS ChainDb, ChainState

CONSTANTS
    BatchSize,      \* VerifiedSyncServiceConfig::batch_size
    MinSlotDelta,   \* LedgerCheckpointPolicy::min_slot_delta
    MaxSnapshots,   \* LedgerCheckpointPolicy::max_snapshots
    MaxRollback,    \* bound: how many of its blocks the peer abandons at once
    MaxCrashes,     \* bound: process kills
    MaxDrops,       \* bound: connections lost
    EarlyCrash      \* may the process be killed before the first sidecar?

(* What takes the place of a rollback point in a batch without rollback. *)
NoRollback == "none"

ASSUME SyncPipelineAssumption ==
    /\ BatchSize \in Nat \ {0}
    /\ MaxSnapshots \in Nat \ {0}
    /\ {MinSlotDelta, MaxRollback, MaxCrashes, MaxDrops} \subseteq Nat
    /\ EarlyCrash \in BOOLEAN
    /\ \A a, b \in Blocks : Slot[a] = Slot[b] => a = b
    /\ NoRollback \notin Points

VARIABLES
    phase,      \* what the process does next
    imm, vol, snaps, sides,          \* on disk (see ChainDb)
    window,     \* chain_state
    ledger,     \* checkpoint_tracking.ledger_state
    base,       \* checkpoint_tracking.base_ledger_state
    nonce,      \* nonce_state
    persisted,  \* checkpoint_tracking.last_persisted_point
    from,       \* from_point
    confirm,    \* the peer has yet to confirm the intersection
    batch,      \* the progress being applied: forward blocks, then rollback
    queue,      \* blocks of the batch, or of a promotion, not yet written
    peerTip,    \* tip of the peer's chain
    crashes, drops

disk   == <<imm, vol, snaps, sides>>
memory == <<window, ledger, base, nonce, persisted, from>>
env    == <<peerTip, crashes, drops>>
vars   == <<phase, disk, memory, confirm, batch, queue, env>>

Phases ==
    {"down", "dead", "offline", "idle", "add", "rollback", "track", "append",
     "prune", "trackBack", "truncate", "truncateSides", "ledger", "save",
     "retain", "sidecar", "retainSides"}

Batches == [fwd : Seq(Blocks), back : Points \cup {NoRollback}]
Files   == [point : Blocks, state : Seq(Blocks)]

(* The values the variables take.                                          *)
TypeOK ==
    /\ phase \in Phases
    /\ {imm, vol, window, ledger, base, nonce, queue} \subseteq Seq(Blocks)
    /\ snaps \subseteq Files /\ sides \subseteq Files
    /\ {persisted, from, peerTip} \subseteq Points
    /\ confirm \in BOOLEAN
    /\ batch \in Batches
    /\ crashes \in 0 .. MaxCrashes /\ drops \in 0 .. MaxDrops

NoBatch == [fwd |-> <<>>, back |-> NoRollback]

Init ==
    /\ phase = "offline"
    /\ imm = <<>> /\ vol = <<>> /\ snaps = {} /\ sides = {}
    /\ window = <<>> /\ ledger = <<>> /\ base = <<>> /\ nonce = <<>>
    /\ persisted = Origin /\ from = Origin
    /\ confirm = FALSE /\ batch = NoBatch /\ queue = <<>>
    /\ peerTip = Origin /\ crashes = 0 /\ drops = 0

(* The process ends and its memory is gone; a fatal error (`?`) makes the  *)
(* service return, which ends the process too.                             *)
Exit ==
    /\ phase' = "down"
    /\ window' = <<>> /\ ledger' = <<>> /\ base' = <<>> /\ nonce' = <<>>
    /\ persisted' = Origin /\ from' = Origin
    /\ confirm' = FALSE /\ batch' = NoBatch /\ queue' = <<>>

-----------------------------------------------------------------------------
(* The peer (external). *)

(* Which new tips the peer may adopt: longer chains that abandon at most   *)
(* MaxRollback blocks.                                                     *)
Adoptable ==
    { t \in Blocks :
        /\ Height(t) > Height(peerTip)
        /\ Height(peerTip) - Height(CommonAncestor(t, peerTip)) <= MaxRollback }

PeerAdopts ==
    /\ \E t \in Adoptable :
        /\ Parent[t] = peerTip \/ ~OnChain(peerTip, t)
        /\ peerTip' = t
    /\ UNCHANGED <<phase, disk, memory, confirm, batch, queue, crashes, drops>>

(* The next n headers of the peer's chain after the read pointer. *)
Headers(n) == SubSeq(PathTo[peerTip], Height(from) + 1, Height(from) + n)

-----------------------------------------------------------------------------
(* Sessions. *)

(* The files of a store, which are one per block, in the order of their    *)
(* slots: each comes after as many blocks as have a lower one.             *)
BySlot(files) ==
    [i \in 1 .. Cardinality(files) |->
        CHOOSE b \in files : Cardinality({c \in files : Slot[c] < Slot[b]}) = i - 1]

(* The stores are opened, which orders each chain by slot; the ledger is   *)
(* recovered and the nonce restored, both to the tip, or the start fails.  *)

Restart ==
    /\ phase = "down"
    /\ imm' = BySlot(ToSet(imm)) /\ vol' = BySlot(ToSet(vol))
    /\ LET tip     == BestTip(imm', vol')
           ledgers == Recovery(imm', vol', snaps, <<>>)
           nonces  == NonceAt(imm', vol', sides, tip)
       IN  IF ledgers = {} \/ nonces = {}
           THEN phase' = "dead" /\ UNCHANGED memory
           ELSE /\ phase' = "offline"
                /\ ledger' \in ledgers
                /\ base' = ledger'
                /\ nonce' \in nonces
                /\ persisted' = tip
                /\ from' = tip
                /\ UNCHANGED window
    /\ UNCHANGED <<snaps, sides, confirm, batch, queue, env>>

(* MUTANT: the window is not seeded. *)
MutWindowNotSeeded ==
    /\ phase = "offline"
    /\ LET tip == BestTip(imm, vol)
       IN  from' = IF OnChain(tip, peerTip) THEN tip ELSE Origin
    /\ confirm' = TRUE
    /\ phase' = "idle"
    /\ UNCHANGED <<disk, window, ledger, base, nonce, persisted, batch, queue, env>>

(* MUTANT: MsgIntersectNotFound only leads to another attempt. *)
MutNotFoundRetried ==
    /\ phase = "offline"
    /\ OnChain(BestTip(imm, vol), peerTip)
    /\ window' = SeedFromEntries(vol)
    /\ from' = BestTip(imm, vol)
    /\ confirm' = TRUE
    /\ phase' = "idle"
    /\ UNCHANGED <<disk, ledger, base, nonce, persisted, batch, queue, env>>

(* The chain window is seeded from the volatile store, from_point moved to *)
(* the tip of the stores, and offered to the peer as the only candidate of *)
(* MsgFindIntersect; a peer that does not know it means Origin.            *)
Connect ==
    /\ phase = "offline"
    /\ window' = SeedFromEntries(vol)
    /\ LET tip == BestTip(imm, vol)
       IN  from' = IF OnChain(tip, peerTip) THEN tip ELSE Origin
    /\ confirm' = TRUE
    /\ phase' = "idle"
    /\ UNCHANGED <<disk, ledger, base, nonce, persisted, batch, queue, env>>

(* Connection loss, a failed BlockFetch or a handoff to another peer. *)
Drop ==
    /\ phase = "idle"
    /\ drops < MaxDrops
    /\ drops' = drops + 1
    /\ phase' = "offline"
    /\ UNCHANGED <<disk, memory, confirm, batch, queue, peerTip, crashes>>

(* sync_batch_verified_with_tentative: headers are requested until there   *)
(* are BatchSize of them or the peer rolls back, then the blocks of the    *)
(* headers are fetched.  The first answer of a session confirms the        *)
(* intersection with a rollback to it.                                     *)
Receive(fwd, back) ==
    /\ batch' = [fwd |-> fwd, back |-> back]
    /\ queue' = fwd
    /\ phase' = IF fwd # <<>> THEN "add" ELSE "rollback"
    /\ confirm' = FALSE
    /\ UNCHANGED <<disk, memory, crashes, drops>>

ReceiveRollback ==
    /\ phase = "idle"
    /\ confirm \/ ~OnChain(from, peerTip)
    /\ Receive(<<>>, CommonAncestor(from, peerTip))
    /\ UNCHANGED peerTip

ReceiveForward ==
    /\ phase = "idle" /\ ~confirm
    /\ OnChain(from, peerTip)
    /\ Height(peerTip) - Height(from) >= BatchSize
    /\ Receive(Headers(BatchSize), NoRollback)
    /\ UNCHANGED peerTip

(* The peer switches to a fork before the batch is full. *)
ReceiveForwardThenRollback ==
    /\ phase = "idle" /\ ~confirm
    /\ OnChain(from, peerTip)
    /\ \E n \in 1 .. BatchSize - 1, t \in Adoptable :
        /\ n <= Height(peerTip) - Height(from)
        /\ ~OnChain(TipOf(Headers(n)), t)
        /\ Receive(Headers(n), CommonAncestor(TipOf(Headers(n)), t))
        /\ peerTip' = t

-----------------------------------------------------------------------------
(* apply_verified_progress_to_chaindb.  All steps go to the volatile store *)
(* first; ChainState judges them afterwards.                               *)

Proceed(next) == phase' = next /\ UNCHANGED <<confirm, batch, env>>

AddVolatile ==
    /\ phase = "add"
    /\ vol' = IF Head(queue) \in ToSet(vol) THEN vol ELSE Append(vol, Head(queue))
    /\ queue' = Tail(queue)
    /\ Proceed(IF Tail(queue) # <<>> THEN "add"
               ELSE IF batch.back = NoRollback THEN "track" ELSE "rollback")
    /\ UNCHANGED <<imm, snaps, sides, memory>>

(* VolatileStore::rollback_to: a block that is not there is ignored. *)
RollbackVolatile ==
    /\ phase = "rollback"
    /\ vol' = IF batch.back = Origin THEN <<>>
              ELSE IF batch.back \in ToSet(vol) THEN UpTo(vol, batch.back)
              ELSE vol
    /\ Proceed(IF batch.fwd = <<>> THEN "trackBack" ELSE "track")
    /\ UNCHANGED <<imm, snaps, sides, memory, queue>>

AfterForward == IF batch.back = NoRollback THEN "ledger" ELSE "trackBack"

(* track_chain_state_entries for the forward step, and the start of        *)
(* promote_volatile_prefix when entries have become stable.                *)
TrackForward ==
    /\ phase = "track"
    /\ LET grown  == window \o batch.fwd
           stable == StableEntries(grown)
       IN  IF /\ CanRollForward(window, batch.fwd)
              /\ stable # <<>> => TipOf(stable) \in ToSet(vol)
           THEN /\ window' = Drained(grown)
                /\ queue' = IF stable = <<>> THEN <<>> ELSE UpTo(vol, TipOf(stable))
                /\ Proceed(IF stable = <<>> THEN AfterForward ELSE "append")
                /\ UNCHANGED <<ledger, base, nonce, persisted, from>>
           ELSE Exit /\ UNCHANGED env
    /\ UNCHANGED disk

(* MUTANT: the volatile prefix is pruned with the first append. *)
MutPruneBeforeAppend ==
    /\ phase = "append"
    /\ imm' = IF Head(queue) \in ToSet(imm) THEN imm ELSE Append(imm, Head(queue))
    /\ vol' = IF TipOf(queue) \in ToSet(vol) THEN After(vol, TipOf(queue)) ELSE vol
    /\ queue' = Tail(queue)
    /\ Proceed(IF Len(queue) = 1 THEN AfterForward ELSE "append")
    /\ UNCHANGED <<snaps, sides, memory>>

(* MUTANT: blocks that are already immutable are appended again. *)
MutAppendAgain ==
    /\ phase = "append"
    /\ imm' = Append(imm, Head(queue))
    /\ queue' = IF Len(queue) = 1 THEN queue ELSE Tail(queue)
    /\ Proceed(IF Len(queue) = 1 THEN "prune" ELSE "append")
    /\ UNCHANGED <<vol, snaps, sides, memory>>

(* One append of promote_volatile_prefix; a block already there is         *)
(* skipped.  The last block stays in queue: prune_up_to takes its point.   *)
AppendImmutable ==
    /\ phase = "append"
    /\ imm' = IF Head(queue) \in ToSet(imm) THEN imm ELSE Append(imm, Head(queue))
    /\ queue' = IF Len(queue) = 1 THEN queue ELSE Tail(queue)
    /\ Proceed(IF Len(queue) = 1 THEN "prune" ELSE "append")
    /\ UNCHANGED <<vol, snaps, sides, memory>>

PruneVolatile ==
    /\ phase = "prune"
    /\ vol' = After(vol, Head(queue))
    /\ queue' = <<>>
    /\ Proceed(AfterForward)
    /\ UNCHANGED <<imm, snaps, sides, memory>>

(* track_chain_state_entries for the rollback; a window of at most k       *)
(* entries has none to drain.                                              *)
TrackBackward ==
    /\ phase = "trackBack"
    /\ IF CanRollBackward(window, batch.back)
       THEN /\ window' = RollBackward(window, batch.back)
            /\ Proceed("truncate")
            /\ UNCHANGED <<ledger, base, nonce, persisted, from, queue>>
       ELSE Exit /\ UNCHANGED env
    /\ UNCHANGED disk

-----------------------------------------------------------------------------
(* update_ledger_checkpoint_after_progress. *)

TruncateSnapshots ==
    /\ phase = "truncate"
    /\ snaps' = TruncateAfter(snaps, batch.back)
    /\ Proceed("truncateSides")
    /\ UNCHANGED <<imm, vol, sides, memory, queue>>

TruncateSidecars ==
    /\ phase = "truncateSides"
    /\ sides' = TruncateAfter(sides, batch.back)
    /\ Proceed("ledger")
    /\ UNCHANGED <<imm, vol, snaps, memory, queue>>

(* A batch without rollback is applied to the ledger state. *)
AdvanceLedger ==
    /\ phase = "ledger" /\ batch.back = NoRollback
    /\ IF Ascends(ledger \o batch.fwd)
       THEN /\ ledger' = ledger \o batch.fwd
            /\ Proceed("save")
            /\ UNCHANGED <<window, base, nonce, persisted, from, queue>>
       ELSE Exit /\ UNCHANGED env
    /\ UNCHANGED disk

(* MUTANTS: every rollback of a node that was not restarted takes the      *)
(* initial-sync path; none does.                                           *)
MutAlwaysInitial == base = <<>>

(* initial_sync_rollback_to_origin *)
InitialSync == batch.back = Origin /\ base = <<>>

(* After a rollback the ledger is recovered from the stores, or, on the    *)
(* initial-sync path, reset and given the forward blocks of the batch; the *)
(* nonce is restored from a sidecar.                                       *)
RecoverLedger ==
    /\ phase = "ledger" /\ batch.back # NoRollback
    /\ LET ledgers == IF InitialSync THEN {base \o batch.fwd}
                      ELSE Recovery(imm, vol, snaps, base)
           nonces  == NonceAt(imm, vol, sides, batch.back)
       IN  IF ledgers = {} \/ nonces = {}
           THEN Exit /\ UNCHANGED env
           ELSE /\ ledger' \in ledgers
                /\ nonce' \in nonces
                /\ Proceed("save")
                /\ UNCHANGED <<window, base, persisted, from, queue>>
    /\ UNCHANGED disk

(* LedgerCheckpointPolicy::should_persist; a rollback forces it.  Two      *)
(* blocks never share a slot here, which leaves out its second clause.     *)
ShouldPersist ==
    \/ batch.back # NoRollback
    \/ persisted = Origin
    \/ Slot[TipOf(ledger)] >= SlotOf(persisted) + MinSlotDelta

(* MUTANT: the rollback after forward blocks is forgotten. *)
MutRollbackForgotten ==
    /\ from' = IF batch.fwd # <<>> THEN TipOf(batch.fwd) ELSE batch.back
    /\ nonce' = nonce \o batch.fwd

(* record_verified_batch_progress: from_point becomes the point the batch  *)
(* ended at and every forward block evolves the nonce.                     *)
RecordProgress ==
    /\ from' = IF batch.back = NoRollback THEN TipOf(batch.fwd) ELSE batch.back
    /\ nonce' = nonce \o batch.fwd

BatchDone ==
    /\ phase' = "idle"
    /\ batch' = NoBatch
    /\ UNCHANGED <<confirm, queue, env>>

SaveSnapshot ==
    /\ phase = "save" /\ ledger # <<>> /\ ShouldPersist
    /\ snaps' = Save(snaps, TipOf(ledger), ledger)
    /\ Proceed("retain")
    /\ UNCHANGED <<imm, vol, sides, memory, queue>>

(* MUTANT: the nonce evolves only when a snapshot is persisted. *)
MutNonceOnlyPersisted ==
    /\ phase = "save" /\ ledger # <<>> /\ ~ShouldPersist
    /\ from' = IF batch.back = NoRollback THEN TipOf(batch.fwd) ELSE batch.back
    /\ BatchDone
    /\ UNCHANGED <<disk, window, ledger, base, nonce, persisted>>

SkipSnapshot ==
    /\ phase = "save" /\ ledger # <<>> /\ ~ShouldPersist
    /\ RecordProgress
    /\ BatchDone
    /\ UNCHANGED <<disk, window, ledger, base, persisted>>

(* A ledger at Origin clears the checkpoints. *)
ClearSnapshots ==
    /\ phase = "save" /\ ledger = <<>>
    /\ snaps' = {}
    /\ persisted' = Origin
    /\ RecordProgress
    /\ BatchDone
    /\ UNCHANGED <<imm, vol, sides, window, ledger, base>>

RetainSnapshots ==
    /\ phase = "retain"
    /\ snaps' = RetainLatest(snaps, MaxSnapshots)
    /\ persisted' = TipOf(ledger)
    /\ RecordProgress
    /\ Proceed("sidecar")
    /\ UNCHANGED <<imm, vol, sides, window, ledger, base, queue>>

(* save_chain_dep_state_snapshot refuses Origin. *)
SaveSidecar ==
    /\ phase = "sidecar"
    /\ IF from # Origin
       THEN /\ sides' = Save(sides, from, nonce)
            /\ Proceed("retainSides")
            /\ UNCHANGED <<memory, queue>>
       ELSE Exit /\ UNCHANGED <<sides, env>>
    /\ UNCHANGED <<imm, vol, snaps>>

RetainSidecars ==
    /\ phase = "retainSides"
    /\ sides' = RetainLatest(sides, MaxSnapshots)
    /\ BatchDone
    /\ UNCHANGED <<imm, vol, snaps, memory>>

Crash ==
    /\ phase \notin {"down", "dead"}
    /\ crashes < MaxCrashes
    /\ sides # {} \/ EarlyCrash
    /\ crashes' = crashes + 1
    /\ Exit
    /\ UNCHANGED <<disk, peerTip, drops>>

-----------------------------------------------------------------------------
ApplyStep ==
    \/ AddVolatile \/ RollbackVolatile
    \/ TrackForward \/ AppendImmutable \/ PruneVolatile \/ TrackBackward
    \/ TruncateSnapshots \/ TruncateSidecars
    \/ AdvanceLedger \/ RecoverLedger
    \/ SaveSnapshot \/ SkipSnapshot \/ ClearSnapshots \/ RetainSnapshots
    \/ SaveSidecar \/ RetainSidecars

Next ==
    \/ PeerAdopts
    \/ Restart \/ Connect \/ Drop \/ Crash
    \/ ReceiveRollback \/ ReceiveForward \/ ReceiveForwardThenRollback
    \/ ApplyStep

Spec == Init /\ [][Next]_vars

(* The service runs whenever it can: its loop never stops by itself, the   *)
(* operator restarts a process that ended, and a connected peer answers    *)
(* when it has something to say.  Nothing obliges the peer to find blocks, *)
(* the process to crash or the connection to drop.                         *)
Fairness ==
    /\ WF_vars(Restart)
    /\ WF_vars(Connect)
    /\ WF_vars(ReceiveRollback)
    /\ WF_vars(ReceiveForward)
    /\ WF_vars(ApplyStep)

FairSpec == Spec /\ Fairness

-----------------------------------------------------------------------------
StoredBlocks == ToSet(imm) \cup ToSet(vol)

Settled == phase = "idle" /\ ~confirm

(* Between batches the ledger state is that of the point the next headers  *)
(* will extend, and the window holds the last blocks before that point:    *)
(* all of the volatile store's, or the newest k.                           *)
LedgerAtReadPointer ==
    Settled => ledger = PathTo[from] /\ window = LastK(vol) /\ IsSuffix(window, ledger)

(* ... and that point is the tip of the stores, except that a peer which   *)
(* did not know the tip is read from Origin with the volatile store        *)
(* emptied and the immutable one kept.                                     *)
StoresAtReadPointer ==
    Settled => from = BestTip(imm, vol) \/ (from = Origin /\ vol = <<>>)

(* The immutable chain is one the peer still follows. *)
ImmutableIsFinal == IsPrefix(imm, PathTo[peerTip])

(* A block leaves both stores only by a rollback: promotion, killed at any *)
(* point, keeps every block in at least one store.                         *)
NoBlockIsLost ==
    [][StoredBlocks \subseteq StoredBlocks' \/ phase = "rollback"]_vars

(* Killed at any point, the process recovers the ledger of the whole chain *)
(* it had stored: promote_volatile_prefix says recovery can always reach   *)
(* the chain tip.                                                          *)
RecoveryReachesTip ==
    Recovery(imm, vol, snaps, <<>>) = {PathTo[BestTip(imm, vol)]}

(* The nonce state belongs to the same chain as the ledger. *)
NonceFollowsLedger == Settled => nonce = ledger

(* The service does not end by itself. *)
ServiceSurvives == phase = "down" => crashes > 0

NeverDead == phase # "dead"

(* The node keeps coming back to within a batch of the peer's tip. *)
FollowsPeer ==
    []<>( /\ OnChain(BestTip(imm, vol), peerTip)
          /\ Height(peerTip) - Height(BestTip(imm, vol)) < BatchSize )
=============================================================================
