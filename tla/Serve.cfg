CONSTANTS
    Origin = Origin
    a1 = a1  a2 = a2  a3 = a3  a4 = a4  a5 = a5  c3 = c3  c4 = c4
    p = p  q = q
    Blocks <- ForkBlocks
    Parent <- ForkParent
    Slot <- ForkSlot
    Issuer <- ForkIssuer
    K = 2
    BatchSize = 2
    MaxTraps = 2
    MaxKills = 1
SPECIFICATION Spec
INVARIANTS OneTrapPerIssuer RangeIsExact
PROPERTIES ImmutableServedInOrder
