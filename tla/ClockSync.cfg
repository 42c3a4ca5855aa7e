SPECIFICATION FairSpec
CONSTANTS
    NPeers = 2
    Window = 2
    MaxRtt = 2
    Unreachable = {1}
    MaxInstant = 3
    I64Limit = 8
INVARIANTS
    TypeOK
    EstimateIsClose
    JitterIsOfTheNetwork
PROPERTIES
    EveryPeerProbed
