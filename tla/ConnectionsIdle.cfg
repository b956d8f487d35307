SPECIFICATION LiveSpec
CONSTANTS
    P1 = P1
    P2 = P2
    Peers = {P1}
    HardLimit = 1
    MaxSessions = 0
    MaxDials = 2
    Responders = {"keepAlive"}
PROPERTIES OutboundIdleEnds
