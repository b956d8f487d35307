SPECIFICATION Spec
CONSTANTS
    P1 = P1
    P2 = P2
    Peers <- MCPeers
    HardLimit = 1
    MaxSessions = 2
    MaxDials = 1
    Responders = {"keepAlive"}
SYMMETRY MCSymmetry
INVARIANTS NoStuckHandshake InUseIsBacked GovernorForgets
PROPERTIES LocalUseKept
