SPECIFICATION Spec
CONSTANTS
    p = p
    q = q
    x = x
    y = y
    z = z
    Peers <- MCPeers
    Txs <- MCTxs
    Size <- MCSize
    Offers <- MCOffers
    Invalid <- MCInvalid
    KnownCapacity = 2
    BatchSize = 2
    MaxUnacked = 3
    MaxRequested = 2
    PeerBytes = 2
    TotalBytes = 3
    MaxOpens = 3
    MaxChanges = 1
INVARIANT SessionsAreReleased
CHECK_DEADLOCK FALSE
