------------------------------- MODULE ChainDb -------------------------------
(***************************************************************************)
(* crates/storage/src/chain_db.rs and the recovery functions of            *)
(* crates/node/sync/src/lib.rs: what is read out of the four stores.       *)
(*                                                                         *)
(*   imm, vol  the immutable and the volatile chain: each store is a Vec   *)
(*             of hashes, here a sequence of blocks;                       *)
(*   snaps     the ledger snapshots, and sides the ChainDepState sidecars: *)
(*             sets of files [point, state], one file per slot.            *)
(*                                                                         *)
(* A ledger state, and a nonce state, is the sequence of the blocks that   *)
(* went into it since genesis.  Blocks are assumed to hold no transaction  *)
(* that is valid on one chain only, so the one check of                    *)
(* apply_block_validated that can fail is slot monotonicity.  Files are    *)
(* written atomically: the fallback for an undecodable one is left out.    *)
(***************************************************************************)
EXTENDS ChainTree

(* ChainDb::tip; reconnect_storage_tip makes the same choice. *)
BestTip(imm, vol) == IF vol = <<>> THEN TipOf(imm) ELSE TipOf(vol)

(* FileImmutable::resolve_suffix_start: a point inside the covered slots   *)
(* that is not a stored block is PointNotFound.                            *)
SuffixFound(imm, p) ==
    \/ p = Origin
    \/ imm = <<>>
    \/ Slot[p] < Slot[imm[1]]
    \/ p \in ToSet(imm)
    \/ Slot[p] > Slot[TipOf(imm)]

ImmutableSuffixAfter(imm, p) ==
    IF p = Origin \/ imm = <<>> THEN imm
    ELSE IF Slot[p] < Slot[imm[1]] THEN imm
    ELSE IF p \in ToSet(imm) THEN After(imm, p)
    ELSE <<>>

(* MUTANT: nothing is replayed when the anchor is not in the store. *)
MutAnchorRequired(vol, p) ==
    IF p = Origin THEN vol
    ELSE IF p \in ToSet(vol) THEN After(vol, p) ELSE <<>>

(* volatile_suffix_after, volatile_replay_blocks_after: all of the store   *)
(* when the anchor is not in it.                                           *)
VolatileReplayAfter(vol, p) == IF p \in ToSet(vol) THEN After(vol, p) ELSE vol

(* The blocks of a ledger state were all accepted by                       *)
(* apply_block_validated: each slot is above the one before.               *)
Ascends(ledger) ==
    \A i \in 2 .. Len(ledger) : Slot[ledger[i - 1]] < Slot[ledger[i]]

-----------------------------------------------------------------------------
(* Stores of one file per slot: FileLedgerStore and ocert_sidecar.rs. *)

File(p, s) == [point |-> p, state |-> s]

(* save_snapshot overwrites the file of the same slot. *)
Save(files, p, s) ==
    { f \in files : SlotOf(f.point) # SlotOf(p) } \cup {File(p, s)}

AtOrBefore(files, p) == { f \in files : SlotOf(f.point) <= SlotOf(p) }

(* truncate_after a point; Origin empties the store. *)
TruncateAfter(files, p) == AtOrBefore(files, p)

(* retain_latest. *)
RetainLatest(files, n) ==
    { f \in files :
        Cardinality({ g \in files : SlotOf(g.point) > SlotOf(f.point) }) < n }

-----------------------------------------------------------------------------
(* An operation that may fail is the set of its outcomes: one, or none.    *)

(* recover_ledger_state_chaindb, with or without epoch boundaries: the     *)
(* newest snapshot not above the slot of the tip, whatever chain it is of, *)
(* or else the base state; then the immutable and the volatile suffix.     *)
RestoredFrom(imm, vol, snaps, base) ==
    LET tip    == BestTip(imm, vol)
        usable == IF tip = Origin THEN snaps ELSE AtOrBefore(snaps, tip)
    IN  IF usable = {} THEN {base}
        ELSE { f.state : f \in RetainLatest(usable, 1) }

ReplayBlocks(imm, vol, from) ==
    LET suffix == ImmutableSuffixAfter(imm, from)
        anchor == IF suffix = <<>> THEN from ELSE TipOf(suffix)
    IN  suffix \o VolatileReplayAfter(vol, anchor)

Recovery(imm, vol, snaps, base) ==
    LET starts == { s \in RestoredFrom(imm, vol, snaps, base) :
                        SuffixFound(imm, TipOf(s)) }
    IN  { l \in { s \o ReplayBlocks(imm, vol, TipOf(s)) : s \in starts } :
            Ascends(l) /\ TipOf(l) = BestTip(imm, vol) }

(* restore_chain_dep_state_after_rollback: the newest sidecar not above    *)
(* the target whose point is stored and which is not another block of the  *)
(* target's slot, brought forward by replay_chain_dep_state_to_point.  No  *)
(* sidecar is needed for Origin.                                           *)
UsableSidecars(imm, vol, sides, p) ==
    { f \in AtOrBefore(sides, p) :
        /\ f.point \in ToSet(imm) \cup ToSet(vol)
        /\ SlotOf(f.point) = SlotOf(p) => f.point = p }

SidecarReplay(imm, vol, from, p) ==
    LET below(s) == Retain(s, {b \in Blocks : Slot[b] <= Slot[p]})
    IN  ReplayBlocks(below(imm), below(vol), from)

ReplaysTo(imm, vol, from, p) ==
    \/ from = p
    \/ SuffixFound(imm, from) /\ p \in ToSet(SidecarReplay(imm, vol, from, p))

NonceAt(imm, vol, sides, p) ==
    LET nearest == RetainLatest(UsableSidecars(imm, vol, sides, p), 1)
    IN  IF p = Origin THEN {<<>>}
        ELSE { IF f.point = p THEN f.state
               ELSE f.state \o UpTo(SidecarReplay(imm, vol, f.point, p), p) :
               f \in { g \in nearest : ReplaysTo(imm, vol, g.point, p) } }
=============================================================================
