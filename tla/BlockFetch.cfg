SPECIFICATION Spec
CONSTANTS
    Origin = Origin
    a1 = a1
    a2 = a2
    a3 = a3
    a4 = a4
    c3 = c3
    Blocks <- MCBlocks
    Parent <- MCParent
    Slot <- MCSlot
    Peers <- MCPeers
    Knob = 2
    FragCapacity = 4
    BatchSize = 3
    MaxPromotions = 1
    MaxTimeouts = 1
    MaxLosses = 1
    MaxForks = 1
INVARIANTS DeliveredInOrder EndsOnlyOnLossOrNoBlocks
PROPERTIES PointerAtLastBlock PoolLockIsFreed
CHECK_DEADLOCK FALSE
