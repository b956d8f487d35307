CONSTANTS
    Origin = Origin
    a1 = a1  a2 = a2  a3 = a3  a4 = a4  a5 = a5  c3 = c3  c4 = c4
    p = p  q = q
    Blocks <- LineBlocks
    Parent <- LineParent
    Slot <- LineSlot
    Issuer <- LineIssuer
    K = 2
    BatchSize = 1
    MaxTraps = 0
    MaxKills = 0
SPECIFICATION FairSpec
CHECK_DEADLOCK FALSE
PROPERTY WaitingServerIsWoken
