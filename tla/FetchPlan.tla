------------------------------ MODULE FetchPlan ------------------------------
(***************************************************************************)
(* How a block range is divided among the fetch workers: split_range and   *)
(* ReorderBuffer of crates/network/src/blockfetch_pool.rs, the candidate   *)
(* fragments of crates/node/sync/src/chainsync_worker.rs and the planners  *)
(* of crates/node/sync/src/lib.rs.  Peers are numbered in the order of     *)
(* their socket addresses, which is the order of every BTreeMap here.      *)
(***************************************************************************)
EXTENDS ChainTree, FiniteSetsExt

CONSTANTS
    Peers,          \* peer addresses, as numbers
    Knob,           \* max_concurrent_block_fetch_peers; 2 by default
    FragCapacity    \* DEFAULT_CANDIDATE_FRAGMENT_CAPACITY

ASSUME FetchPlanAssumption ==
    /\ Peers \subseteq Nat \ {0} /\ IsFiniteSet(Peers)
    /\ Knob \in Nat \ {0, 1}
    /\ FragCapacity \in Nat \ {0}

(* peer_addrs: the registered peers in address order. *)
InOrder(S) == SetToSortSeq(S, LAMBDA a, b : a < b)

-----------------------------------------------------------------------------
(* CandidateFragment: the headers a peer has announced, oldest first. *)

PushAnnounced(frag, b) ==
    IF frag # <<>> /\ Slot[Last(frag)] >= Slot[b] THEN frag
    ELSE Append(IF Len(frag) = FragCapacity THEN Tail(frag) ELSE frag, b)

PushAll(frag, bs) == FoldLeft(PushAnnounced, frag, bs)

(* resolve_slot_to_hash: the announced blocks at a slot, as a set of at    *)
(* most one; the first peer in address order that has one answers.         *)
ResolveSlot(frags, slot) ==
    LET At(p) == {b \in ToSet(frags[p]) : Slot[b] = slot}
        known == {p \in Peers : At(p) # {}}
    IN  IF known = {} THEN {} ELSE At(Min(known))

-----------------------------------------------------------------------------
(* Planning. *)

Effective(n) == IF n = 0 THEN 1 ELSE Min({Knob, n})

(* MUTANT: a chunk starts at the last slot of the one before it. *)
MutChunkSlots(lo, hi, n) ==
    LET chunk == (hi - lo) \div n
    IN  IF n <= 1 \/ hi - lo < n THEN << <<lo, hi>> >>
        ELSE [i \in 1 .. n |-> << lo + (i - 1) * chunk,
                                  IF i = n THEN hi ELSE lo + i * chunk >>]

(* split_range, as the slots of the chunks' bounds.                        *)
ChunkSlots(lo, hi, n) ==
    LET chunk == (hi - lo) \div n
        From(i) == lo + (i - 1) * (chunk + 1)
    IN  IF n <= 1 \/ hi - lo < n THEN << <<lo, hi>> >>
        ELSE [i \in 1 .. n |-> <<From(i), IF i = n THEN hi ELSE From(i) + chunk>>]

Assignment(p, lower, upper) == [peer |-> p, lower |-> lower, upper |-> upper]

(* partition_fetch_range_with_candidate_fragments, and when an inner bound *)
(* is unknown partition_fetch_range_across_peers, which then collapses the *)
(* plan to one chunk for the first peer.                                   *)
Partition(lower, upper, peers, frags) ==
    LET chunks == ChunkSlots(Slot[lower], Slot[upper], Effective(Len(peers)))
        n      == Len(chunks)
        Low(i) == IF i = 1 THEN {lower} ELSE ResolveSlot(frags, chunks[i][1])
        Upp(i) == IF i = n THEN {upper} ELSE ResolveSlot(frags, chunks[i][2])
    IN  IF \E i \in 1 .. n : Low(i) = {} \/ Upp(i) = {}
        THEN << Assignment(peers[1], lower, upper) >>
        ELSE [i \in 1 .. n |-> Assignment(peers[i],
                                          CHOOSE b \in Low(i) : TRUE,
                                          CHOOSE b \in Upp(i) : TRUE)]

-----------------------------------------------------------------------------
(* Putting the answers together. *)

(* ReorderBuffer, filled with every chunk and drained once: chunks leave   *)
(* in the order of their lower slots while that is past the head, which    *)
(* each one moves to its upper bound.  A chunk with the lower bound of     *)
(* another replaces it.                                                    *)
Drain(plan, replies, head) ==
    LET Key(i)  == Slot[plan[i].lower]
        kept    == {i \in DOMAIN plan : \A j \in DOMAIN plan : Key(j) = Key(i) => j <= i}
        ordered == SetToSortSeq(kept, LAMBDA i, j : Key(i) < Key(j))
        HeadAt(k) == IF k = 1 THEN head ELSE Slot[plan[ordered[k - 1]].upper]
        stops   == {k \in DOMAIN ordered : Key(ordered[k]) <= HeadAt(k)}
        last    == IF stops = {} THEN Len(ordered) ELSE Min(stops) - 1
    IN  FlattenSeq([k \in 1 .. last |-> replies[ordered[k]]])

(* head_seed_for_buffer: one slot before the read pointer. *)
HeadSeed(from) == IF SlotOf(from) = 0 THEN 0 ELSE SlotOf(from) - 1

(* dispatch_plan's answer; one chunk bypasses the buffer. *)
Assemble(plan, replies, from) ==
    IF Len(plan) = 1 THEN replies[1] ELSE Drain(plan, replies, HeadSeed(from))

(* MUTANT: the block at the read pointer is kept. *)
MutDedup(blocks, from, lower) == blocks

(* dedup_range_lower_boundary: the block at the read pointer, which the    *)
(* inclusive range repeats, is dropped.                                    *)
DedupLowerBoundary(blocks, from, lower) ==
    IF from # Origin /\ blocks # <<>> /\ Head(blocks) = lower THEN Tail(blocks) ELSE blocks
=============================================================================
