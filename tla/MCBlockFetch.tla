---------------------------- MODULE MCBlockFetch ----------------------------
(* A chain with a block in each slot, and a fork of it. *)
EXTENDS BlockFetch

CONSTANTS a1, a2, a3, a4, c3

MCPeers == 1 .. 2

MCBlocks == {a1, a2, a3, a4, c3}
MCParent == a1 :> Origin @@ a2 :> a1 @@ a3 :> a2 @@ a4 :> a3 @@ c3 :> a2
MCSlot == a1 :> 1 @@ a2 :> 2 @@ a3 :> 3 @@ a4 :> 4 @@ c3 :> 3
=============================================================================
