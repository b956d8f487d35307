SPECIFICATION Spec
CONSTANTS
    a = a
    b = b
    c = c
    d = d
    s1 = s1
    Submitters = {s1}
    Txs <- MCTxs
    Fee <- MCFeeChild
    Size <- MCSize
    Ttl <- MCTtl
    Inputs <- MCInputs
    Outputs <- MCOutputs
    Genesis <- MCGenesis
    MinFee <- MCMinFee
    MaxBytes = 3
    EpochLength = 2
    MaxSlot = 2
    MaxBatches = 0
    MaxNext = 3
    MaxBlockTxs = 1
INVARIANT DependenciesFirst
CHECK_DEADLOCK FALSE
