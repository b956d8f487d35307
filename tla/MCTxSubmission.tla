--------------------------- MODULE MCTxSubmission ---------------------------
(* Two peers that offer the same two transactions in different orders, and *)
(* one of them a third that the ledger rejects and that is advertised with *)
(* size 0. y alone exceeds the budget of a peer.                           *)
EXTENDS TxSubmission, TLC
CONSTANTS p, q, x, y, z

MCPeers == {p, q}
MCTxs == {x, y, z}
MCSize == x :> 1 @@ y :> 3 @@ z :> 0
MCOffers == p :> <<x, y>> @@ q :> <<y, z, x>>
MCInvalid == {z}
(* The first transaction of q's offer is all that p has. *)
MCOffersSame == p :> <<x>> @@ q :> <<x, y>>
=============================================================================
