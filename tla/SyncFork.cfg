CONSTANTS
    Origin = Origin
    a1 = a1  a2 = a2  a3 = a3  a4 = a4  a5 = a5  a6 = a6  a7 = a7
    c4 = c4  c5 = c5  c6 = c6  c7 = c7
    Blocks <- ForkBlocks
    Parent <- ForkParent
    Slot <- ForkSlot
    K = 3
    BatchSize = 2
    MinSlotDelta = 0
    MaxSnapshots = 2
    MaxRollback = 2
    MaxCrashes = 0
    MaxDrops = 1
    EarlyCrash = FALSE
SPECIFICATION FairSpec
CHECK_DEADLOCK FALSE
INVARIANTS StoresAtReadPointer LedgerAtReadPointer ImmutableIsFinal
PROPERTY FollowsPeer
