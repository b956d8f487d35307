--------------------------- MODULE MCFileVolatile ---------------------------
(* A chain of four blocks and a two-block fork from the second. *)
EXTENDS FileVolatile, TLC

CONSTANTS b0, b1, b2, b3, b4, c3, c4

MCBlocks == {b1, b2, b3, b4, c3, c4}

MCParent ==
    b1 :> b0 @@ b2 :> b1 @@ b3 :> b2 @@ b4 :> b3 @@ c3 :> b2 @@ c4 :> c3

MCSlot ==
    b1 :> 1 @@ b2 :> 2 @@ b3 :> 4 @@ b4 :> 6 @@ c3 :> 3 @@ c4 :> 5

(* Byron: the epoch-boundary block b2 shares its slot with b3. *)
EbbSlot ==
    b1 :> 1 @@ b2 :> 2 @@ b3 :> 2 @@ b4 :> 6 @@ c3 :> 3 @@ c4 :> 5
=============================================================================
