SPECIFICATION Spec
CONSTANTS
    p = p
    q = q
    x = x
    y = y
    z = z
    Peers <- MCPeers
    Txs <- MCTxs
    Size <- MCSize
    Offers <- MCOffersSame
    Invalid <- MCInvalid
    KnownCapacity = 2
    BatchSize = 2
    MaxUnacked = 3
    MaxRequested = 2
    PeerBytes = 9
    TotalBytes = 9
    MaxOpens = 2
    MaxChanges = 0
INVARIANT KnownIsHeld
CHECK_DEADLOCK FALSE
