---------------------------- MODULE FileVolatile ----------------------------
(***************************************************************************)
(* crates/storage/src/file_volatile.rs: the file-backed volatile store.    *)
(* One file per block, written atomically; every operation that removes    *)
(* blocks first writes a delete plan (the WAL file wal.pending.json), then *)
(* unlinks the files one by one, then removes the plan.  Opening replays a *)
(* plan left behind by a crash and rebuilds the chain by sorting the block *)
(* files by slot number.                                                   *)
(*                                                                         *)
(* A crash (process kill) may come between any two file-system operations; *)
(* it loses chain, the in-memory state.  Temporary files and dirty.flag    *)
(* are left out: a *.tmp file is never read and the flag only makes open   *)
(* delete such files.  The legacy JSON copy of a block lives and dies with *)
(* its CBOR file.  Points of the chain are named by position; 0 is Origin. *)
(***************************************************************************)
EXTENDS Naturals, Sequences, FiniteSets, SequencesExt

CONSTANTS
    Blocks,   \* the block hashes in play
    Parent,   \* Parent[b]: the prev_hash of b
    Slot      \* Slot[b]: the slot number in the header of b

ASSUME BlocksAssumption == IsFiniteSet(Blocks) /\ Slot \in [Blocks -> Nat]

VARIABLES
    status,    \* "up": serving; "down": process not running; "opening"
    chain,     \* FileVolatile.chain (index holds the same blocks)
    files,     \* the block files in data_dir
    wal,       \* the hashes of the pending delete plan, <<>> if there is none
    removing   \* the part of the plan whose files are still to be unlinked

vars == <<status, chain, files, wal, removing>>

(* The values the variables take. *)
TypeOK ==
    /\ status \in {"up", "down", "opening"}
    /\ chain \in Seq(Blocks)
    /\ files \subseteq Blocks
    /\ wal \in Seq(Blocks)
    /\ removing \in Seq(Blocks)

Init ==
    /\ status = "up"
    /\ chain = <<>>
    /\ files = {}
    /\ wal = <<>>
    /\ removing = <<>>

(* The store's methods take &mut self: none starts before the last ended. *)
Idle == status = "up" /\ wal = <<>>

(* MUTANT: the prev_hash of the block is pushed, not its hash. *)
MutPushesPrevHash(b) ==
    /\ Idle
    /\ b \notin ToSet(chain)
    /\ files' = files \cup {b}
    /\ chain' = Append(chain, Parent[b])
    /\ UNCHANGED <<status, wal, removing>>

(* add_block: the atomic write of the file is the only durable step.  The  *)
(* callers add the child of the tip, in a slot not below the tip's.        *)
AddBlock(b) ==
    /\ Idle
    /\ b \notin ToSet(chain)
    /\ chain # <<>> => /\ Parent[b] = chain[Len(chain)]
                       /\ Slot[b] >= Slot[chain[Len(chain)]]
    /\ files' = files \cup {b}
    /\ chain' = Append(chain, b)
    /\ UNCHANGED <<status, wal, removing>>

(* write_delete_wal and the update of chain; no plan is written for an     *)
(* empty list of hashes, and then nothing else happens either.             *)
BeginDelete(doomed, kept) ==
    /\ doomed # <<>>
    /\ chain' = kept
    /\ wal' = doomed
    /\ removing' = doomed
    /\ UNCHANGED <<status, files>>

PruneUpTo(n) ==
    /\ Idle
    /\ BeginDelete(SubSeq(chain, 1, n), SubSeq(chain, n + 1, Len(chain)))

(* A target that is not in the chain leaves the store alone. *)
RollbackTo(n) ==
    /\ Idle
    /\ BeginDelete(SubSeq(chain, n + 1, Len(chain)), SubSeq(chain, 1, n))

(* The blocks below slot; along a linked chain (OpenedChainIsLinked) slots *)
(* do not decrease, so they are the first n.                               *)
GarbageCollect(slot) ==
    /\ Idle
    /\ \E n \in 1 .. Len(chain) :
        /\ \A i \in 1 .. Len(chain) : Slot[chain[i]] < slot <=> i <= n
        /\ BeginDelete(SubSeq(chain, 1, n), SubSeq(chain, n + 1, Len(chain)))

(* One unlink, of a delete operation or of WAL recovery. *)
RemoveFile ==
    /\ removing # <<>>
    /\ files' = files \ {Head(removing)}
    /\ removing' = Tail(removing)
    /\ UNCHANGED <<status, chain, wal>>

(* MUTANT: the plan is removed while files of it are left. *)
MutClearedEarly ==
    /\ wal # <<>>
    /\ status # "down"
    /\ wal' = <<>>
    /\ UNCHANGED <<status, chain, files, removing>>

ClearDeleteWal ==
    /\ wal # <<>>
    /\ removing = <<>>
    /\ status # "down"
    /\ wal' = <<>>
    /\ UNCHANGED <<status, chain, files, removing>>

Crash ==
    /\ status # "down"
    /\ status' = "down"
    /\ chain' = <<>>
    /\ removing' = <<>>
    /\ UNCHANGED <<files, wal>>

(* MUTANT: recovery removes the plan without carrying it out. *)
MutPlanIgnored ==
    /\ status = "down"
    /\ status' = "opening"
    /\ removing' = <<>>
    /\ UNCHANGED <<chain, files, wal>>

OpenReplayWal ==
    /\ status = "down"
    /\ status' = "opening"
    /\ removing' = wal
    /\ UNCHANGED <<chain, files, wal>>

(* The orders in which sort_by_key can leave the block files: the blocks   *)
(* come out of a HashMap, so two with the same slot may be either way      *)
(* round.                                                                  *)
SlotOrders(S) ==
    { s \in [1 .. Cardinality(S) -> S] :
        /\ ToSet(s) = S
        /\ \A i, j \in DOMAIN s :
            i < j => s[i] # s[j] /\ Slot[s[i]] <= Slot[s[j]] }

OpenScan ==
    /\ status = "opening"
    /\ wal = <<>>
    /\ status' = "up"
    /\ chain' \in SlotOrders(files)
    /\ UNCHANGED <<files, wal, removing>>

Next ==
    \/ \E b \in Blocks : AddBlock(b)
    \/ \E n \in 1 .. Len(chain) : PruneUpTo(n)
    \/ \E n \in 0 .. Len(chain) : RollbackTo(n)
    \/ \E b \in Blocks : GarbageCollect(Slot[b])
    \/ RemoveFile
    \/ ClearDeleteWal
    \/ Crash
    \/ OpenReplayWal
    \/ OpenScan

Spec == Init /\ [][Next]_vars

-----------------------------------------------------------------------------
(* What a caller sees: the chain in memory or, with no process serving,    *)
(* what opening the directory will rebuild.                                *)
Contents ==
    IF status = "up" THEN chain
    ELSE CHOOSE s \in SlotOrders(files \ ToSet(wal)) : TRUE

Abstract == INSTANCE VolatileStore WITH store <- Contents

(* Every add, prune, rollback and garbage collection is all-or-nothing,    *)
(* whatever file operation a crash of file_volatile.rs comes after, and    *)
(* reopening neither loses nor revives nor reorders a block.               *)
AtomicUnderCrashes == Abstract!Spec

(* While the process serves, the block files that the pending delete plan  *)
(* does not name are exactly the blocks of the in-memory chain, each held  *)
(* once: a restart rebuilds the set of blocks the callers were told of.    *)
ChainMatchesDisk ==
    status = "up" =>
        /\ ToSet(chain) = files \ ToSet(wal)
        /\ \A i, j \in 1 .. Len(chain) : i < j => chain[i] # chain[j]

(* The chain handed to callers is linked by prev_hash: open recovers the   *)
(* insertion order from the slot numbers, as its comments say.             *)
OpenedChainIsLinked ==
    \A i \in 1 .. Len(chain) - 1 : Parent[chain[i + 1]] = chain[i]
=============================================================================
