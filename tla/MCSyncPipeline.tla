--------------------------- MODULE MCSyncPipeline ---------------------------
(* Block trees for the sync service. *)
EXTENDS SyncPipeline

CONSTANTS a1, a2, a3, a4, a5, a6, a7, c4, c5, c6, c7

(* One chain. *)
LineBlocks == {a1, a2, a3, a4, a5, a6, a7}
LineParent ==
    a1 :> Origin @@ a2 :> a1 @@ a3 :> a2 @@ a4 :> a3 @@ a5 :> a4 @@ a6 :> a5 @@ a7 :> a6
LineSlot ==
    a1 :> 1 @@ a2 :> 2 @@ a3 :> 3 @@ a4 :> 5 @@ a5 :> 7 @@ a6 :> 9 @@ a7 :> 11

(* The same chain and a fork of it from the third block. *)
ForkBlocks == LineBlocks \cup {c4, c5, c6, c7}
ForkParent == LineParent @@ c4 :> a3 @@ c5 :> c4 @@ c6 :> c5 @@ c7 :> c6
ForkSlot == LineSlot @@ c4 :> 4 @@ c5 :> 6 @@ c6 :> 8 @@ c7 :> 10
=============================================================================
