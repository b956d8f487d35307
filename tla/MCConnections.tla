--------------------------- MODULE MCConnections ---------------------------
(* Model-checking instance of Connections. *)
EXTENDS Connections, TLC

CONSTANTS P1, P2

MCPeers == {P1, P2}
MCSymmetry == Permutations(MCPeers)
=============================================================================
