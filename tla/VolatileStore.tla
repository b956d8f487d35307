---------------------------- MODULE VolatileStore ----------------------------
(***************************************************************************)
(* What a volatile store promises its callers: a sequence of blocks, in    *)
(* chain order, that each operation of the VolatileStore trait changes in  *)
(* one step.  A crash is not an operation: it may not change the store.    *)
(* InMemoryVolatile is this specification; FileVolatile implements it.     *)
(* A point of the chain is named by its position: 0 is Origin.             *)
(***************************************************************************)
EXTENDS Naturals, Sequences, SequencesExt

CONSTANTS
    Blocks,   \* the block hashes in play
    Parent,   \* Parent[b]: the prev_hash of b
    Slot      \* Slot[b]: the slot number in the header of b

VARIABLE store

Init == store = <<>>

(* Callers add blocks in chain order: the child of the tip, whose slot is *)
(* not below the tip's (an epoch-boundary block shares its slot).         *)
AddBlock(b) ==
    /\ b \notin ToSet(store)
    /\ store # <<>> => /\ Parent[b] = Last(store)
                       /\ Slot[b] >= Slot[Last(store)]
    /\ store' = Append(store, b)

PruneUpTo(n) == store' = SubSeq(store, n + 1, Len(store))

RollbackTo(n) == store' = SubSeq(store, 1, n)

GarbageCollect(slot) == store' = SelectSeq(store, LAMBDA b : Slot[b] >= slot)

Next ==
    \/ \E b \in Blocks : AddBlock(b) \/ GarbageCollect(Slot[b])
    \/ \E n \in 1 .. Len(store) : PruneUpTo(n)
    \/ \E n \in 0 .. Len(store) : RollbackTo(n)

Spec == Init /\ [][Next]_store
=============================================================================
