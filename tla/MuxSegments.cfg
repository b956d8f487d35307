SPECIFICATION Spec
CONSTANTS
    Protocols <- MCProtocols
    Slots <- MCSlots
    Out <- MCOut
    In <- MCIn
    Cuts <- MCCuts
    MaxSegment = 2
    Buffer = 1
    EgressLimit = 2
    IngressLimit = 2
    Hot <- MCHot
    WireCapacity = 1
    Modulus = 16
INVARIANT WeightIsSegments
CHECK_DEADLOCK FALSE
