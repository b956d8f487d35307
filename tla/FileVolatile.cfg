CONSTANTS
    b1 = b1  b2 = b2  b3 = b3  b4 = b4  c3 = c3  c4 = c4
    b0 = b0
    Blocks <- MCBlocks
    Parent <- MCParent
    Slot <- MCSlot
SPECIFICATION Spec
INVARIANTS TypeOK ChainMatchesDisk OpenedChainIsLinked
PROPERTIES AtomicUnderCrashes
