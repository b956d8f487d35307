------------------------------- MODULE ForgeLoop -------------------------------
(* The block producer (node/runtime/src/block_producer_loop.rs with              *)
(* node/block-producer/src/lib.rs) beside the sync service: two tasks that write *)
(* the same volatile store, each under its own write lock. The sync service is   *)
(* that of SyncPipeline in one session, without restarts, and with each batch,   *)
(* either of forward blocks or of one rollback, in one step.                     *)
EXTENDS ChainState, ChainDb

CONSTANTS
    Forgeable,        \* blocks of this pool, one for each slot and parent
    BatchSize,        \* blocks of a batch, at most
    MinSlotDelta,     \* LedgerCheckpointPolicy::min_slot_delta
    MaxSnapshots,     \* LedgerCheckpointPolicy::max_snapshots
    MaxRollback,      \* blocks the peer abandons at a time
    MaxSlot,          \* bound: last slot of the clock
    MaxSetbacks,      \* bound: times the wall clock is set back
    SlotsPerKesPeriod,
    MaxKesEvolutions

ASSUME ForgeLoopAssumption ==
    /\ Forgeable \subseteq Blocks
    /\ {BatchSize, MaxSnapshots, MaxSlot, SlotsPerKesPeriod, MaxKesEvolutions}
          \subseteq Nat \ {0}
    /\ {MinSlotDelta, MaxRollback, MaxSetbacks} \subseteq Nat

VARIABLES
    clock,      \* SlotClock::current_slot, from the wall clock
    setbacks,   \* times it was set back
    peer,       \* tip of the chain the upstream peer follows
    at,         \* the read pointer of the sync service
    window,     \* its ChainState
    imm, vol,   \* the stores
    ledger,     \* checkpoint_tracking.ledger_state
    nonce,      \* nonce_state
    persisted,  \* last_persisted_point
    snaps, sides,  \* ledger snapshots and sidecars on disk
    service,    \* the sync service runs, or how it ended
    last,       \* last_checked_slot, 0 for none
    kes,        \* kes_current_period
    forge,      \* the election in progress, or the block just stored
    signed,     \* blocks signed so far
    adopted     \* blocks reported as adopted

checkpoint == <<ledger, nonce, persisted, snaps, sides>>
chainVars == <<peer, at, window, imm, vol, checkpoint, service>>
forgeVars == <<last, kes, forge, signed, adopted>>
vars == <<clock, setbacks, chainVars, forgeVars>>

Idle == [step |-> "idle"]

Init ==
    /\ clock = 1 /\ setbacks = 0
    /\ peer = Origin /\ at = Origin
    /\ window = <<>> /\ imm = <<>> /\ vol = <<>> /\ service = "runs"
    /\ ledger = <<>> /\ nonce = <<>> /\ persisted = Origin /\ snaps = {} /\ sides = {}
    /\ last = 0 /\ kes = 0 /\ forge = Idle
    /\ signed = {} /\ adopted = {}

Tip == BestTip(imm, vol)

----------------------------------------------------------------------------
(* The wall clock and the peer, both external *)

ClockAdvances ==
    /\ clock < MaxSlot
    /\ clock' = clock + 1
    /\ UNCHANGED <<setbacks, chainVars, forgeVars>>

ClockSetBack ==
    /\ setbacks < MaxSetbacks /\ clock > 1
    /\ setbacks' = setbacks + 1
    /\ clock' = clock - 1
    /\ UNCHANGED <<chainVars, forgeVars>>

(* The peer adopts a longer chain; it has a block of this pool only if this *)
(* node has signed it, and no block of the future.                          *)
PeerAdopts ==
    /\ \E b \in Blocks :
          /\ Slot[b] <= clock /\ Height(b) > Height(peer)
          /\ ToSet(PathTo[b]) \cap Forgeable \subseteq signed
          /\ Height(peer) - Height(CommonAncestor(peer, b)) <= MaxRollback
          /\ peer' = b
    /\ UNCHANGED <<clock, setbacks, at, window, imm, vol, checkpoint, service, forgeVars>>

----------------------------------------------------------------------------
(* The sync service: apply_verified_progress_to_chaindb under the write lock *)

(* MUTANT: a block that does not extend the tip of the store is passed over. *)
MutStoreExtending(store, b) ==
    IF Parent[b] = TipOf(store) \/ store = <<>> THEN Append(store, b) ELSE store

(* apply_multi_era_step_to_volatile: a block that is there already is skipped. *)
StoreBlock(store, b) == IF b \in ToSet(store) THEN store ELSE Append(store, b)

(* promote_volatile_prefix of what has left the window; a point the volatile *)
(* store does not hold is an error.                                          *)
Promotable(store, stable) == stable = <<>> \/ Last(stable) \in ToSet(store)

Promote(store, stable) ==
    IF stable = <<>> \/ ~Promotable(store, stable) THEN imm' = imm /\ vol' = store
    ELSE /\ imm' = imm \o SelectSeq(UpTo(store, Last(stable)), LAMBDA b : b \notin ToSet(imm))
         /\ vol' = After(store, Last(stable))

(* The end of update_ledger_checkpoint_after_progress: a snapshot and a sidecar *)
(* are written after a rollback, or when the ledger has come far enough; a      *)
(* ledger at Origin clears the snapshots.                                       *)
Persist(rolled, files, sidecars) ==
    IF ledger' = <<>>
    THEN snaps' = {} /\ sides' = sidecars /\ persisted' = Origin
    ELSE IF rolled \/ persisted = Origin
              \/ Slot[TipOf(ledger')] >= SlotOf(persisted) + MinSlotDelta
    THEN /\ snaps' = RetainLatest(Save(files, TipOf(ledger'), ledger'), MaxSnapshots)
         /\ sides' = RetainLatest(Save(sidecars, at', nonce'), MaxSnapshots)
         /\ persisted' = TipOf(ledger')
    ELSE snaps' = files /\ sides' = sidecars /\ UNCHANGED persisted

(* An error of the batch makes the service return. What it leaves on disk, the *)
(* snapshots truncated already included, is read by the next start only.       *)
ServiceEnds(how) == service' = how /\ UNCHANGED <<at, window, checkpoint>>

(* Forward blocks: stored, tracked, promoted, and applied to the ledger state, *)
(* which takes only ascending slots, and to the nonce.                         *)
SyncForward ==
    /\ service = "runs" /\ OnChain(at, peer) /\ at # peer
    /\ \E n \in 1 .. BatchSize :
          LET next == IF at = Origin THEN PathTo[peer] ELSE After(PathTo[peer], at)
              batch == SubSeq(next, 1, n)
              store == FoldLeft(StoreBlock, vol, batch)
              tracked == CanRollForward(window, batch)
              stable == IF tracked THEN StableEntries(window \o batch) ELSE <<>>
          IN /\ n <= Len(next)
             /\ Promote(store, stable)
             /\ IF tracked /\ Promotable(store, stable) /\ Ascends(ledger \o batch)
                THEN /\ window' = Drained(window \o batch)
                     /\ at' = Last(batch)
                     /\ ledger' = ledger \o batch
                     /\ nonce' = nonce \o batch
                     /\ Persist(FALSE, snaps, sides)
                     /\ UNCHANGED service
                ELSE ServiceEnds("failed")
    /\ UNCHANGED <<clock, setbacks, peer, forgeVars>>

(* A rollback: the stores go back, and the ledger and the nonce are recovered  *)
(* from what they hold, blocks of this pool included; at Origin they are reset *)
(* (initial_sync_rollback_to_origin). Without a sidecar at or before the point *)
(* the service ends, as it does in SyncPipeline.                               *)
SyncRollback ==
    /\ service = "runs" /\ ~OnChain(at, peer)
    /\ LET p == CommonAncestor(at, peer)
           files == TruncateAfter(snaps, p)
           sidecars == TruncateAfter(sides, p)
           ledgers == IF p = Origin THEN {<<>>} ELSE Recovery(imm, vol', files, <<>>)
           nonces == NonceAt(imm, vol', sidecars, p)
       IN /\ vol' = IF p = Origin THEN <<>> ELSE IF p \in ToSet(vol) THEN UpTo(vol, p) ELSE vol
          /\ IF CanRollBackward(window, p) /\ ledgers # {} /\ nonces # {}
             THEN /\ window' = RollBackward(window, p)
                  /\ at' = p
                  /\ ledger' \in ledgers
                  /\ nonce' \in nonces
                  /\ Persist(TRUE, files, sidecars)
                  /\ UNCHANGED service
             ELSE ServiceEnds(IF p # Origin /\ UsableSidecars(imm, vol', sidecars, p) = {}
                              THEN "noSidecar" ELSE "failed")
    /\ UNCHANGED <<clock, setbacks, peer, imm, forgeVars>>

----------------------------------------------------------------------------
(* run_block_producer_loop *)

KesPeriod(slot) == slot \div SlotsPerKesPeriod

(* check_can_forge, for a certificate that starts at period 0. *)
KesInWindow(slot) == KesPeriod(slot) < MaxKesEvolutions

(* MUTANT: only a slot before the last one is passed over. *)
MutNewSlot(slot) == slot >= last

(* A slot is looked at once, and never one before it. *)
NewSlot(slot) == slot > last

(* make_block_context: the slot must be ahead of the tip. *)
Context(slot) == { p \in {Tip} : slot > SlotOf(p) \/ p = Origin }

(* One tick of the interval: the tip is read, the key evolves to the period of *)
(* the slot, and the lottery may be won. A ledger judged too old, or no live   *)
(* nonce, ends the tick before the key is touched.                             *)
Tick ==
    /\ forge = Idle /\ NewSlot(clock)
    /\ last' = clock
    /\ \/ UNCHANGED <<kes, forge>>
       \/ \E p \in Context(clock) :
             /\ KesInWindow(clock)
             /\ kes' = Max({kes, KesPeriod(clock)})
             /\ \/ UNCHANGED forge
                \/ forge' = [step |-> "elected", slot |-> clock, prev |-> p]
    /\ UNCHANGED <<clock, setbacks, chainVars, signed, adopted>>

(* forge_block signs for the context read at the tick; add_volatile_block *)
(* appends to whatever the store holds now.                               *)
AddForged ==
    /\ forge.step = "elected"
    /\ \E b \in Forgeable :
          /\ Slot[b] = forge.slot /\ Parent[b] = forge.prev
          /\ b \notin ToSet(vol)
          /\ vol' = Append(vol, b)
          /\ signed' = signed \cup {b}
          /\ forge' = [step |-> "stored", block |-> b]
    /\ UNCHANGED <<clock, setbacks, peer, at, window, imm, checkpoint, service, last, kes,
                   adopted>>

(* The election comes to nothing: forging, self-validation or storing fails. *)
ForgeFails ==
    /\ forge.step = "elected"
    /\ forge' = Idle
    /\ UNCHANGED <<clock, setbacks, chainVars, last, kes, signed, adopted>>

(* The adoption check, under a read lock of its own. *)
CheckAdopted ==
    /\ forge.step = "stored"
    /\ adopted' = IF Tip = forge.block THEN adopted \cup {forge.block} ELSE adopted
    /\ forge' = Idle
    /\ UNCHANGED <<clock, setbacks, chainVars, last, kes, signed>>

----------------------------------------------------------------------------
Next ==
    \/ ClockAdvances \/ ClockSetBack \/ PeerAdopts
    \/ SyncForward \/ SyncRollback
    \/ Tick \/ AddForged \/ ForgeFails \/ CheckAdopted

Spec == Init /\ [][Next]_vars

----------------------------------------------------------------------------
(* Properties *)

(* The variables keep their types; the key is never evolved past the window of *)
(* the operational certificate.                                                *)
TypeOK ==
    /\ clock \in 1 .. MaxSlot /\ setbacks \in 0 .. MaxSetbacks
    /\ peer \in Points /\ at \in Points
    /\ window \in Seq(Blocks) /\ Len(window) <= K
    /\ {imm, vol, ledger, nonce} \subseteq Seq(Blocks) /\ service \in {"runs", "noSidecar", "failed"}
    /\ last \in 0 .. MaxSlot
    /\ kes \in 0 .. MaxKesEvolutions - 1
    /\ forge.step \in {"idle", "elected", "stored"}
    /\ adopted \subseteq signed /\ signed \subseteq Forgeable

(* last_checked_slot: the pool signs at most one block for a slot, although the *)
(* first one may be rolled back and the wall clock set back.                    *)
OneBlockPerSlot == \A b, c \in signed : Slot[b] = Slot[c] => b = c

(* check_should_forge and sign_sum_kes: the key that signs is the one of the  *)
(* slot's period; a key that has evolved past it could not sign for it.       *)
KeyFitsSlot == forge.step = "elected" => kes = KesPeriod(forge.slot)

(* The pool signs once for a slot, with the key of the slot's period. *)
SignsOncePerSlot == TypeOK /\ OneBlockPerSlot /\ KeyFitsSlot

(* Whatever the producer stored and the service rolled back in between: when   *)
(* the stores hold one chain, no recovery, promotion or ledger update has      *)
(* failed, and as long as the service runs that chain is the one it follows,   *)
(* with at most blocks of this pool on top, and the ledger and the nonce are   *)
(* those of the followed chain. Only a block of the pool that is neither on    *)
(* that chain nor rolled back can do harm, and it shows in the stores.         *)
StoredChainIsFollowed ==
    imm \o vol = PathTo[Tip] =>
        /\ service # "failed"
        /\ service = "runs" =>
              /\ ledger = PathTo[at] /\ nonce = PathTo[at]
              /\ OnChain(at, Tip) /\ ToSet(PathTo[Tip]) \ ToSet(PathTo[at]) \subseteq signed

(* run_block_producer_loop: a block is reported as adopted only if no competing *)
(* block was stored between the look at the tip and the write.                  *)
AdoptedExtendsChain ==
    \A b \in adopted : \A i \in 2 .. Len(imm \o vol) :
        (imm \o vol)[i] = b => Parent[b] = (imm \o vol)[i - 1]
================================================================================
