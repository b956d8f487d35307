------------------------------ MODULE Mempool ------------------------------
(***************************************************************************)
(* The mempool and the tasks that change it.                               *)
(*                                                                         *)
(*   - submitters: LocalTxSubmission sessions and the consumer of inbound  *)
(*     TxSubmission.  Each recovers a ledger state from the chain database *)
(*     and only then, in a later step, takes the mempool lock;             *)
(*   - the sync service: a batch changes the chain, and afterwards returns *)
(*     rolled-back transactions and evicts, one mempool lock at a time;    *)
(*   - the governor's tick, which purges expired entries.                  *)
(*                                                                         *)
(* Each action is one critical section of SharedMempool or of the chain    *)
(* database.                                                               *)
(***************************************************************************)
EXTENDS MempoolQueue

CONSTANTS
    Submitters,   \* the tasks that submit
    Genesis,      \* the inputs that exist at the start
    MinFee,       \* [Nat -> Nat] on the slots of the instance: the minimum fee
    EpochLength,  \* slots per epoch
    MaxSlot,      \* bound: the last slot of any block
    MaxBatches,   \* bound: batches of the sync service
    MaxNext,      \* bound: entries ever inserted
    MaxBlockTxs   \* bound: transactions of a block

(* What the ledger guarantees: a transaction without inputs is invalid, and *)
(* an output is named by the hash of the transaction that makes it.         *)
ASSUME LedgerAssumption ==
    /\ \A t \in Txs : Inputs[t] # {} /\ Outputs[t] \cap Genesis = {}
    /\ \A t, u \in Txs : t # u => Outputs[t] \cap Outputs[u] = {}

ASSUME BoundAssumption ==
    /\ EpochLength \in Nat \ {0} /\ {MaxSlot, MaxBatches, MaxNext, MaxBlockTxs} \subseteq Nat
    /\ MinFee \in [0 .. MaxSlot -> Nat]

VARIABLES
    mp,       \* the queue behind SharedMempool
    chain,    \* sequence of [slot, txs], txs a sequence: the chain database
    sub,      \* [Submitters -> [todo, chain, utxo]]: a task's batch, the chain
              \* and the ledger it works on
    sync,     \* [pc, rolled, block, pooled]: the batch in progress; pooled is
              \* history, the entries in the snapshot that fills the cache
    cache,    \* recently_confirmed
    batches,  \* batches so far
    stale,    \* history: entries admitted against a chain that is no more
    owed      \* history: what sync took as confirmed of the snapshot's entries

vars == <<mp, chain, sub, sync, cache, batches, stale, owed>>

-----------------------------------------------------------------------------
TxsOf(block) == { block.txs[i] : i \in DOMAIN block.txs }
OnChain(c) == UNION { TxsOf(c[i]) : i \in DOMAIN c }
Spent(c) == InputsOf(OnChain(c))
Utxo(c) == (Genesis \cup UNION { Outputs[t] : t \in OnChain(c) }) \ Spent(c)
TipSlot(c) == IF c = <<>> THEN 0 ELSE c[Len(c)].slot
Epoch(slot) == slot \div EpochLength

NoBlock == [slot |-> 0, txs |-> <<>>]

Idle == [pc |-> "idle", rolled |-> <<>>, block |-> NoBlock, pooled |-> {}]
NoWork == [todo |-> <<>>, chain |-> <<>>, utxo |-> {}]

BlockType == [slot : 0 .. MaxSlot, txs : Seq(Txs)]
LedgerType == SUBSET (Genesis \cup InputsOf(Txs) \cup UNION { Outputs[t] : t \in Txs })

(* The variables keep their types: the byte count of the queue never goes  *)
(* below zero (a saturating subtraction in the code would hide it).        *)
TypeOK ==
    /\ mp \in Queues
    /\ chain \in Seq(BlockType)
    /\ sub \in [Submitters -> [todo : Seq(Txs), chain : Seq(BlockType), utxo : LedgerType]]
    /\ sync \in [pc : {"idle", "params", "readmit", "cache", "confirm",
                        "conflict", "expire", "revalidate"},
                  rolled : Seq(Txs), block : BlockType, pooled : SUBSET Txs]
    /\ cache \subseteq Txs /\ stale \subseteq Txs /\ owed \subseteq Txs

Init ==
    /\ mp = EmptyQueue
    /\ chain = <<>>
    /\ sub = [c \in Submitters |-> NoWork]
    /\ sync = Idle
    /\ cache = {} /\ stale = {} /\ owed = {}
    /\ batches = 0

-----------------------------------------------------------------------------
(* Submission.                                                             *)

(* recover_ledger_state_chaindb under the chain database's read lock; a    *)
(* LocalTxSubmission request is a batch of one, a MsgReplyTxs may bring    *)
(* more.                                                                   *)
Recover(c, batch) ==
    /\ sub[c] = NoWork
    /\ sub' = [sub EXCEPT ![c] = [todo |-> batch, chain |-> chain, utxo |-> Utxo(chain)]]
    /\ UNCHANGED <<mp, chain, sync, cache, batches, stale, owed>>

(* add_tx_with for the first transaction of the batch.  A transaction the  *)
(* ledger rejects leaves the batch; a queue-level error ends the batch.    *)
AddTx(c) ==
    /\ sub[c].todo # <<>>
    /\ mp.next < MaxNext
    /\ LET t == Head(sub[c].todo)
           slot == TipSlot(sub[c].chain)
           rest == Tail(sub[c].todo)
           Continue(utxo) == sub' = [sub EXCEPT ![c] = IF rest = <<>> THEN NoWork
                                        ELSE [@ EXCEPT !.todo = rest, !.utxo = utxo]]
       IN  \/ /\ ~Applies(t, sub[c].utxo, slot, MinFee[slot])
              /\ Continue(sub[c].utxo)
              /\ UNCHANGED <<mp, stale>>
           \/ /\ Applies(t, sub[c].utxo, slot, MinFee[slot])
              /\ CanInsertWithEviction(mp, t)
              /\ mp' = InsertWithEviction(mp, t)
              /\ stale' = IF sub[c].chain = chain THEN stale \ {t} ELSE stale \cup {t}
              /\ Continue(ApplyTx(sub[c].utxo, t))
           \/ /\ Applies(t, sub[c].utxo, slot, MinFee[slot])
              /\ ~CanInsertWithEviction(mp, t)
              /\ sub' = [sub EXCEPT ![c] = NoWork]
              /\ UNCHANGED <<mp, stale>>
    /\ UNCHANGED <<chain, sync, cache, batches, owed>>

-----------------------------------------------------------------------------
(* The sync service.                                                       *)

(* apply_verified_progress_to_chaindb: a batch drops the blocks after some *)
(* point and adds at most one; the transactions of the dropped blocks are  *)
(* collected first, oldest first.  (A batch of several blocks is handled   *)
(* one RollForward step after another and adds nothing.)                   *)
RolledBackTxs(keep) ==
    LET gone[n \in 0 .. Len(chain) - keep] ==
            IF n = 0 THEN <<>> ELSE gone[n - 1] \o chain[keep + n].txs
    IN  gone[Len(chain) - keep]

ValidBlock(base, block) ==
    /\ block.slot > TipSlot(base)
    /\ \A i, j \in DOMAIN block.txs : block.txs[i] = block.txs[j] => i = j
    /\ \A i \in DOMAIN block.txs :
          LET before == { block.txs[j] : j \in 1 .. i - 1 }
              t == block.txs[i]
          IN  /\ Inputs[t] \subseteq (Utxo(base) \cup UNION { Outputs[u] : u \in before })
                                         \ InputsOf(before)
              /\ ~Expired(t, block.slot) /\ Fee[t] >= MinFee[block.slot]

ApplyBatch(keep, block) ==
    /\ sync.pc = "idle"
    /\ batches < MaxBatches
    /\ batches' = batches + 1
    /\ LET base == SubSeq(chain, 1, keep)
           next == IF block = NoBlock THEN base ELSE Append(base, block)
       IN  /\ next # chain
           /\ block # NoBlock => ValidBlock(base, block)
           /\ chain' = next
           /\ sync' = [ pc     |-> IF Epoch(TipSlot(next)) > Epoch(TipSlot(base))
                                   THEN "params" ELSE "readmit",
                        rolled |-> RolledBackTxs(keep),
                        block  |-> block,
                        pooled |-> {} ]
           /\ owed' = owed \ Range(RolledBackTxs(keep))
    /\ UNCHANGED <<mp, sub, cache, stale>>

(* A new epoch: purge_invalid_for_params with the new parameters. *)
PurgeParams ==
    /\ sync.pc = "params"
    /\ mp' = PurgeInvalidForParams(mp, TipSlot(chain), MinFee[TipSlot(chain)])
    /\ sync' = [sync EXCEPT !.pc = "readmit"]
    /\ UNCHANGED <<chain, sub, cache, batches, stale, owed>>

(* MUTANT: the pass is skipped when none of the block's transactions is    *)
(* in the mempool.                                                         *)
MutEvictOnlyOwn == IF TxsOf(sync.block) \cap Resident(mp) = {} THEN Idle
                   ELSE [sync EXCEPT !.pc = "cache", !.rolled = <<>>]

(* What follows re-admission: an eviction pass for a block that has        *)
(* transactions; the pass returns at once for a block that has none.       *)
EvictNext == IF sync.block.txs = <<>> THEN Idle
             ELSE [sync EXCEPT !.pc = "cache", !.rolled = <<>>]

(* re_admit_rolled_back_tx_ids, one transaction at a time: insert_checked  *)
(* with the time to live and without parameters; every error only counts.  *)
ReAdmit ==
    /\ sync.pc = "readmit"
    /\ \/ /\ sync.rolled = <<>>
          /\ sync' = EvictNext
          /\ UNCHANGED <<mp, cache, stale>>
       \/ /\ sync.rolled # <<>>
          /\ LET t == Head(sync.rolled)
                 back == t \in cache /\ ~Expired(t, TipSlot(chain)) /\ CanInsert(mp, t)
             IN  /\ mp' = IF back THEN Insert(mp, t) ELSE mp
                 /\ cache' = cache \ {t}
                 /\ stale' = IF back THEN stale \ {t} ELSE stale
          /\ sync' = [sync EXCEPT !.rolled = Tail(@)]
    /\ UNCHANGED <<chain, sub, batches, owed>>

(* MUTANT: the confirmed entries are not kept for a rollback. *)
MutCacheNothing ==
    /\ sync.pc = "cache"
    /\ sync' = [sync EXCEPT !.pc = "confirm", !.pooled = Resident(mp)]
    /\ UNCHANGED <<mp, chain, sub, cache, batches, stale, owed>>

(* evict_mempool_after_roll_forward, lock by lock: a snapshot fills the    *)
(* cache ...                                                               *)
CacheConfirmed ==
    /\ sync.pc = "cache"
    /\ cache' = cache \cup (TxsOf(sync.block) \cap Resident(mp))
    /\ sync' = [sync EXCEPT !.pc = "confirm", !.pooled = Resident(mp)]
    /\ UNCHANGED <<mp, chain, sub, batches, stale, owed>>

(* ... the confirmed entries are removed (mark_confirmed on the inbound    *)
(* state is part of TxSubmission) ...                                      *)
Confirm ==
    /\ sync.pc = "confirm"
    /\ mp' = RemoveConfirmed(mp, TxsOf(sync.block))
    /\ owed' = owed \cup (TxsOf(sync.block) \cap Resident(mp) \cap sync.pooled)
    /\ sync' = [sync EXCEPT !.pc = "conflict"]
    /\ UNCHANGED <<chain, sub, cache, batches, stale>>

(* ... then those that spend what the block spends ... *)
Conflict ==
    /\ sync.pc = "conflict"
    /\ mp' = RemoveConflictingInputs(mp, InputsOf(TxsOf(sync.block)))
    /\ sync' = [sync EXCEPT !.pc = "expire"]
    /\ UNCHANGED <<chain, sub, cache, batches, stale, owed>>

(* ... then the expired ... *)
Expire ==
    /\ sync.pc = "expire"
    /\ mp' = PurgeExpired(mp, sync.block.slot)
    /\ sync' = [sync EXCEPT !.pc = "revalidate"]
    /\ UNCHANGED <<chain, sub, cache, batches, stale, owed>>

(* ... and what no longer applies to the ledger after the batch. *)
Revalidate ==
    /\ sync.pc = "revalidate"
    /\ mp' = RevalidateWithLedger(mp, Utxo(chain), sync.block.slot, MinFee[sync.block.slot])
    /\ stale' = {}
    /\ sync' = Idle
    /\ UNCHANGED <<chain, sub, cache, batches, owed>>

-----------------------------------------------------------------------------
(* The governor's tick. *)
GovernorPurge ==
    /\ mp' = PurgeExpired(mp, TipSlot(chain))
    /\ mp' # mp
    /\ UNCHANGED <<chain, sub, sync, cache, batches, stale, owed>>

-----------------------------------------------------------------------------
(* The batches of a submitter and the blocks of the chain. *)
TxSeqs(n) == { s \in UNION { [1 .. m -> Txs] : m \in 0 .. n } :
                   \A i, j \in DOMAIN s : s[i] = s[j] => i = j }
Blocks == {NoBlock} \cup [slot : 1 .. MaxSlot, txs : TxSeqs(MaxBlockTxs)]

Next ==
    \/ \E c \in Submitters : AddTx(c) \/ \E b \in TxSeqs(2) \ {<<>>} : Recover(c, b)
    \/ \E keep \in 0 .. Len(chain), block \in Blocks : ApplyBatch(keep, block)
    \/ PurgeParams \/ ReAdmit \/ CacheConfirmed \/ Confirm
    \/ Conflict \/ Expire \/ Revalidate
    \/ GovernorPurge

Spec == Init /\ [][Next]_vars

-----------------------------------------------------------------------------
(* Safety.                                                                 *)

(* The queue's five pieces of bookkeeping describe the same entries: no    *)
(* transaction twice, no input claimed by two, claims exactly the inputs   *)
(* of the entries, bytes their size, descending fees, indices below the    *)
(* next one, and never over capacity.  Six methods take entries out by     *)
(* hand (inner.rs).                                                        *)
Bookkeeping ==
    LET E == mp.entries IN
    /\ TypeOK
    /\ mp.ids = Resident(mp) /\ Cardinality(mp.ids) = Len(E)
    /\ DOMAIN mp.claimed = InputsOf(mp.ids)
    /\ \A i \in DOMAIN mp.claimed : i \in Inputs[mp.claimed[i]]
    /\ \A t, u \in mp.ids : t # u => Inputs[t] \cap Inputs[u] = {}
    /\ mp.bytes = SizeOf(mp.ids)
    /\ MaxBytes > 0 => mp.bytes <= MaxBytes
    /\ \A i, j \in DOMAIN E : i < j => Fee[E[i].tx] >= Fee[E[j].tx] /\ E[i].idx # E[j].idx
    /\ \A i \in DOMAIN E : E[i].idx < mp.next

(* Between batches no entry spends an input the chain has already spent,   *)
(* except one whose submitter recovered its ledger before the chain moved  *)
(* (evict_mempool_after_roll_forward and the submitters take their locks   *)
(* in any order).                                                          *)
NoSpentInput ==
    sync.pc = "idle" =>
        \A t \in Resident(mp) \ stale : Inputs[t] \cap Spent(chain) = {}

(* What sync removed as confirmed can be returned by a rollback: what was  *)
(* in the mempool at the snapshot and at the removal is, while it is on    *)
(* the chain, in recently_confirmed, whatever else was submitted, evicted  *)
(* or rolled back in between.                                              *)
RollbackCanReturn == owed \cap OnChain(chain) \subseteq cache

(* A submission that displaces entries leaves the mempool with more fees   *)
(* than before (insert_with_eviction).                                     *)
EvictionPays ==
    [][\A c \in Submitters :
          AddTx(c) /\ ~(mp.ids \subseteq mp'.ids) => FeeOf(mp'.ids) > FeeOf(mp.ids)]_vars

-----------------------------------------------------------------------------
(* What revalidate_with_ledger and add_txs_to_shared_mempool take for      *)
(* granted: an entry that spends an output of another entry comes after    *)
(* it, so that the fold over the queue meets the parent first.             *)
DependenciesFirst ==
    \A i, j \in DOMAIN mp.entries :
        Outputs[mp.entries[i].tx] \cap Inputs[mp.entries[j].tx] # {} => i < j
=============================================================================
