----------------------------- MODULE ChainState -----------------------------
(***************************************************************************)
(* crates/consensus/src/chain_state.rs: the sliding window over the most   *)
(* recent blocks.  A window is the sequence of its entries, oldest first.  *)
(* Each method that can fail is a guard (Can...) and a result.             *)
(***************************************************************************)
EXTENDS ChainTree

CONSTANT K   \* SecurityParam

ASSUME SecurityParamAssumption == K \in Nat \ {0}

LastK(s) == IF Len(s) > K THEN SubSeq(s, Len(s) - K + 1, Len(s)) ELSE s

(* seed_from_entries: anything beyond k is dropped from the front. *)
SeedFromEntries(entries) == LastK(entries)

(* roll_forward of each block of bs in turn: block number, slot and prev   *)
(* hash are compared with the last entry, if there is one.                 *)
CanRollForward(cs, bs) ==
    \A i \in 1 .. Len(bs) :
        LET last == IF i = 1 THEN TipOf(cs) ELSE bs[i - 1]
        IN  last # Origin => /\ Height(bs[i]) = Height(last) + 1
                             /\ Slot[bs[i]] >= Slot[last]
                             /\ Parent[bs[i]] = last

(* roll_backward to a point.  Every entry of the window is a legal target; *)
(* Origin is one only while the window is at most k long.                  *)
CanRollBackward(cs, p) ==
    IF p = Origin THEN Len(cs) <= K
    ELSE p \in ToSet(cs) /\ Len(After(cs, p)) <= K

RollBackward(cs, p) == IF p = Origin THEN <<>> ELSE UpTo(cs, p)

(* drain_stable: the entries that leave the window, and what stays. *)
StableEntries(cs) == IF Len(cs) > K THEN SubSeq(cs, 1, Len(cs) - K) ELSE <<>>

Drained(cs) == LastK(cs)
=============================================================================
