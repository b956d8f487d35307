SPECIFICATION Spec
CONSTANTS
    Protocols <- MCProtocols
    Slots <- MCSlots
    Out <- MCOut
    In <- MCStringIn
    Cuts <- MCStringCuts
    MaxSegment = 2
    Buffer = 1
    EgressLimit = 2
    IngressLimit = 2
    Hot <- MCHot
    WireCapacity = 1
    Modulus = 16
INVARIANT MessagesAreWhole
CHECK_DEADLOCK FALSE
