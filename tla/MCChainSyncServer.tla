-------------------------- MODULE MCChainSyncServer --------------------------
(* A chain of five blocks and a fork from the second, made by two pools. *)
EXTENDS ChainSyncServer

CONSTANTS a1, a2, a3, a4, a5, c3, c4, p, q

LineBlocks == {a1, a2, a3, a4, a5}
LineParent == a1 :> Origin @@ a2 :> a1 @@ a3 :> a2 @@ a4 :> a3 @@ a5 :> a4
LineSlot   == a1 :> 1 @@ a2 :> 2 @@ a3 :> 4 @@ a4 :> 6 @@ a5 :> 7
LineIssuer == a1 :> p @@ a2 :> q @@ a3 :> p @@ a4 :> q @@ a5 :> p

ForkBlocks == LineBlocks \cup {c3, c4}
ForkParent == LineParent @@ c3 :> a2 @@ c4 :> c3
ForkSlot   == LineSlot @@ c3 :> 3 @@ c4 :> 5
ForkIssuer == LineIssuer @@ c3 :> p @@ c4 :> p
=============================================================================
