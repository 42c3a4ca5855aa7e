SPECIFICATION FairSpec
CONSTANTS
    Keys = {1, 2}
    Values = {a, b}
    Writers = {1, 2}
    MaxU64 = 9
    AddWins = TRUE
    Tombstone = Tombstone
    NoEntry = NoEntry
    MaxTimeJump = 9
    MaxGenerationJump = 3
    MaxEntries = 2
    RecordKeys = {}
    Attempt <- MCAttempt
    NoAttempt = NoAttempt
    Unstated = Unstated
    InvalidKeys = {}
    Nodes = {n1, n2}
    Peers <- Pair
    Push = TRUE
    Posts <- MCPosts
    MaxPush = 1
    MaxPosts = 2
    MaxFailures = 1
    a = a
    b = b
    n1 = n1
    n2 = n2
    n3 = n3
PROPERTIES
    SilenceMeansExchanged
    Convergence
