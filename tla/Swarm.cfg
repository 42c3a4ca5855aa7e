SPECIFICATION FairSpec
CONSTANTS
    Keys = {1, 2}
    Values = {a, b}
    Writers = {1, 2}
    MaxU64 = 9
    AddWins = FALSE
    Tombstone = Tombstone
    NoEntry = NoEntry
    MaxTimeJump = 2
    MaxGenerationJump = 2
    MaxEntries = 2
    RecordKeys = {}
    Attempt <- MCAttempt
    NoAttempt = NoAttempt
    Unstated = Unstated
    InvalidKeys = {}
    Nodes = {n1, n2, n3}
    Peers <- Ring
    Push = FALSE
    Posts <- MCRingPosts
    MaxPush = 1
    MaxPosts = 3
    MaxFailures = 1
    a = a
    b = b
    n1 = n1
    n2 = n2
    n3 = n3
INVARIANTS
    TypeOK
    StampsAgree
    NoWriteLost
    PeersAcceptEachOther
PROPERTIES
    EntriesOnlyAdvance
    NearPeersConverge
