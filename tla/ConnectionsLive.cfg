SPECIFICATION LiveSpec
CONSTANTS
    P1 = P1
    P2 = P2
    Peers = {P1}
    HardLimit = 1
    MaxSessions = 1
    MaxDials = 2
    Responders = {"keepAlive", "blockFetch"}
PROPERTIES TerminatingEnds SessionEnds
