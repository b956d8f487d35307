---------------------------- MODULE MempoolQueue ----------------------------
(***************************************************************************)
(* crates/consensus/src/mempool/queue/inner.rs: the fee-ordered queue.     *)
(* A transaction is a model value; its fee, size, time to live, inputs and *)
(* outputs are constant functions.  The queue is a record with the fields  *)
(* of the code, the redundant ones included: `entries` in queue order,     *)
(* `claimed` (input -> claiming transaction), `ids`, `bytes` and `next`,   *)
(* the index the next entry gets.  The methods that can fail are a guard   *)
(* and a result.                                                           *)
(***************************************************************************)
EXTENDS Integers, Sequences, FiniteSets, FiniteSetsExt, Functions, RetainSeq, TLC

CONSTANTS
    Txs,        \* the transactions that exist
    Fee,        \* [Txs -> Nat]
    Size,       \* [Txs -> Nat], size_bytes
    Ttl,        \* [Txs -> Nat], the last slot a transaction is valid in
    Inputs,     \* [Txs -> SUBSET TxIn]
    Outputs,    \* [Txs -> SUBSET TxIn], the inputs others may spend
    MaxBytes    \* max_bytes; 0 is no limit

ASSUME TxAssumption ==
    /\ Fee \in [Txs -> Nat] /\ Size \in [Txs -> Nat] /\ Ttl \in [Txs -> Nat]
    /\ DOMAIN Inputs = Txs /\ DOMAIN Outputs = Txs
    /\ MaxBytes \in Nat

InputsOf(S) == UNION { Inputs[t] : t \in S }
SizeOf(S) == SumFunctionOnSet(Size, S)
FeeOf(S) == SumFunctionOnSet(Fee, S)

(* with_capacity *)
EmptyQueue == [entries |-> <<>>, claimed |-> <<>>, ids |-> {}, bytes |-> 0, next |-> 0]

Entries(S) == [tx : S, idx : Nat]

Queues == [ entries : Seq(Entries(Txs)),
            claimed : UNION { [D -> Txs] : D \in SUBSET InputsOf(Txs) },
            ids : SUBSET Txs, bytes : Nat, next : Nat ]

Resident(q) == { q.entries[i].tx : i \in DOMAIN q.entries }

(* The checks insert makes, in the order it makes them. *)
Duplicate(q, t) == t \in q.ids

ConflictingInputs(q, t) == Inputs[t] \cap DOMAIN q.claimed # {}

Fits(q, t) == MaxBytes = 0 \/ q.bytes + Size[t] <= MaxBytes

CanInsert(q, t) == ~Duplicate(q, t) /\ ~ConflictingInputs(q, t) /\ Fits(q, t)

(* insert: the queue is already ordered, so the stable sort by descending  *)
(* fee puts the new entry behind every entry with at least its fee.        *)
Insert(q, t) ==
    LET k == Cardinality({ i \in DOMAIN q.entries : Fee[q.entries[i].tx] >= Fee[t] })
    IN  [ entries |-> SubSeq(q.entries, 1, k) \o <<[tx |-> t, idx |-> q.next]>>
                          \o SubSeq(q.entries, k + 1, Len(q.entries)),
          claimed |-> [i \in DOMAIN q.claimed \cup Inputs[t] |->
                          IF i \in Inputs[t] THEN t ELSE q.claimed[i]],
          ids     |-> q.ids \cup {t},
          bytes   |-> q.bytes + Size[t],
          next    |-> q.next + 1 ]

(* MUTANT: the claims of removed entries stay behind. *)
MutRemoveKeepsClaims(q, S) ==
    LET gone == S \cap Resident(q)
    IN  [ q EXCEPT !.entries = Retain(@, Entries(Txs \ gone)),
                   !.ids     = @ \ gone,
                   !.bytes   = @ - SizeOf(gone) ]

(* What every removing method does to the entries it picks: entry, bytes,  *)
(* claims and membership go together.                                      *)
Remove(q, S) ==
    LET gone == S \cap Resident(q)
    IN  [ q EXCEPT !.entries = Retain(@, Entries(Txs \ gone)),
                   !.claimed = Restrict(@, DOMAIN @ \ InputsOf(gone)),
                   !.ids     = @ \ gone,
                   !.bytes   = @ - SizeOf(gone) ]

-----------------------------------------------------------------------------
(* insert_with_eviction.  The candidates are a tail of the queue: it grows *)
(* from the lowest fee up, stops at the first entry that pays at least as  *)
(* much as the newcomer, and stops as soon as enough bytes would be freed. *)
LowestFee(q, n) == { q.entries[i].tx : i \in (Len(q.entries) - n + 1) .. Len(q.entries) }

Needed(q, t) == q.bytes + Size[t] - MaxBytes

Cheaper(q, t) == Cardinality({ i \in DOMAIN q.entries : Fee[q.entries[i].tx] < Fee[t] })

Enough(q, t) == { n \in 0 .. Cheaper(q, t) : SizeOf(LowestFee(q, n)) >= Needed(q, t) }

Evicted(q, t) == IF Fits(q, t) THEN {} ELSE LowestFee(q, Min(Enough(q, t)))

(* MUTANT: the cumulative fee of the evicted tail is not compared. *)
MutEvictAlways(q, t) ==
    /\ ~Duplicate(q, t)
    /\ ~ConflictingInputs(q, t)
    /\ Fits(q, t) \/ (Size[t] <= MaxBytes /\ Enough(q, t) # {})

(* Every early return of insert_with_eviction: duplicate, conflict, larger *)
(* than the whole mempool, not enough cheaper bytes, not worthwhile.       *)
CanInsertWithEviction(q, t) ==
    /\ ~Duplicate(q, t)
    /\ ~ConflictingInputs(q, t)
    /\ \/ Fits(q, t)
       \/ /\ Size[t] <= MaxBytes
          /\ Enough(q, t) # {}
          /\ Fee[t] > FeeOf(Evicted(q, t))

InsertWithEviction(q, t) == Insert(Remove(q, Evicted(q, t)), t)

-----------------------------------------------------------------------------
(* The removing methods; each is the set it picks, and Remove. *)

RemoveConfirmed(q, confirmed) == Remove(q, confirmed)

RemoveConflictingInputs(q, consumed) ==
    Remove(q, { t \in Resident(q) : Inputs[t] \cap consumed # {} })

Expired(t, slot) == slot > Ttl[t]

PurgeExpired(q, slot) == Remove(q, { t \in Resident(q) : Expired(t, slot) })

(* purge_invalid_for_params: expired, or under the new minimum fee. *)
PurgeInvalidForParams(q, slot, minFee) ==
    Remove(q, { t \in Resident(q) : Expired(t, slot) \/ Fee[t] < minFee })

(* revalidate_with_ledger with apply_submitted_tx as the closure: the      *)
(* entries are tried in queue order on a scratch ledger that the accepted  *)
(* ones advance.                                                           *)
Applies(t, utxo, slot, minFee) ==
    Inputs[t] \subseteq utxo /\ ~Expired(t, slot) /\ Fee[t] >= minFee

ApplyTx(utxo, t) == (utxo \ Inputs[t]) \cup Outputs[t]

Scratch(q, utxo, slot, minFee) ==
    LET after[n \in 0 .. Len(q.entries)] ==
            IF n = 0 THEN utxo
            ELSE LET t == q.entries[n].tx
                 IN  IF Applies(t, after[n - 1], slot, minFee)
                     THEN ApplyTx(after[n - 1], t) ELSE after[n - 1]
    IN  after

RevalidateWithLedger(q, utxo, slot, minFee) ==
    LET after == Scratch(q, utxo, slot, minFee)
    IN  Remove(q, { q.entries[i].tx : i \in { j \in DOMAIN q.entries :
                        ~Applies(q.entries[j].tx, after[j - 1], slot, minFee) } })
=============================================================================
