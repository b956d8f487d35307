------------------------------ MODULE ChainTree ------------------------------
(***************************************************************************)
(* The blocks the node may meet: a tree rooted at Origin.  A point of the  *)
(* code is Origin or a (slot, hash) pair; a block stands for its hash, and *)
(* its slot and prev_hash are read from its header.  A chain is a sequence *)
(* of blocks, oldest first, starting at a child of Origin.                 *)
(***************************************************************************)
EXTENDS Naturals, Sequences, FiniteSets, SequencesExt, RetainSeq

CONSTANTS
    Blocks,   \* block hashes
    Origin,   \* Point::Origin
    Parent,   \* Parent[b]: the point named by the prev_hash of b
    Slot      \* Slot[b]: the slot of b; the slots of Shelley-era blocks of
              \* one chain increase strictly

ASSUME ChainTreeAssumption ==
    /\ IsFiniteSet(Blocks)
    /\ Origin \notin Blocks
    /\ Parent \in [Blocks -> Blocks \cup {Origin}]
    /\ Slot \in [Blocks -> Nat \ {0}]
    /\ \A b \in Blocks : Parent[b] # Origin => Slot[Parent[b]] < Slot[b]

Points == Blocks \cup {Origin}

(* The slot of a point.  Origin has none; 0 is below every block's slot.   *)
SlotOf(p) == IF p = Origin THEN 0 ELSE Slot[p]

(* The tip of a chain, a window or a ledger state. *)
TipOf(s) == IF s = <<>> THEN Origin ELSE s[Len(s)]

(* The chain that ends in a point. *)
PathTo[p \in Points] ==
    IF p = Origin THEN <<>> ELSE Append(PathTo[Parent[p]], p)

Height(p) == Len(PathTo[p])

OnChain(p, tip) == p = Origin \/ p \in ToSet(PathTo[tip])

(* The last point two chains share, given by their tips. *)
CommonAncestor(p, q) ==
    TipOf(Retain(PathTo[p], ToSet(PathTo[q])))

(* Where a block is in a sequence that holds it once; the blocks up to and *)
(* including it, and those after it.                                       *)
Position(s, b) == CHOOSE i \in 1 .. Len(s) : s[i] = b

UpTo(s, b) == SubSeq(s, 1, Position(s, b))

After(s, b) == SubSeq(s, Position(s, b) + 1, Len(s))
=============================================================================
