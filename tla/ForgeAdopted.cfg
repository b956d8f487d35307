SPECIFICATION Spec
CONSTANTS
    Blocks <- MCBlocks
    Origin <- MCOrigin
    Parent <- MCParent
    Slot <- MCSlot
    Forgeable <- MCForgeable
    K = 2
    BatchSize = 2
    MinSlotDelta = 2
    MaxSnapshots = 2
    MaxRollback = 1
    MaxSlot = 5
    MaxSetbacks = 1
    SlotsPerKesPeriod = 2
    MaxKesEvolutions = 2
INVARIANT AdoptedExtendsChain
CHECK_DEADLOCK FALSE
