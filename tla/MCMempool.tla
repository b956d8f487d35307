----------------------------- MODULE MCMempool -----------------------------
(* Four transactions.  a and b compete for one input, c spends an output   *)
(* of a, d is large and pays well: admitting it displaces others.          *)
EXTENDS Mempool
CONSTANTS a, b, c, d, s1

MCTxs == {a, b, c, d}
MCFee == a :> 2 @@ b :> 3 @@ c :> 1 @@ d :> 4
MCSize == a :> 1 @@ b :> 2 @@ c :> 1 @@ d :> 2
MCTtl == a :> 9 @@ b :> 1 @@ c :> 9 @@ d :> 9
MCInputs == a :> {1} @@ b :> {1, 4} @@ c :> {2} @@ d :> {3}
MCOutputs == a :> {2} @@ b :> {} @@ c :> {} @@ d :> {}
MCGenesis == {1, 3, 4}
MCMinFee == <<1, 2>> @@ 0 :> 1   \* slot 2 starts an epoch with a higher minimum
(* The child pays more than its parent. *)
MCFeeChild == [MCFee EXCEPT ![c] = 4]
=============================================================================
