SPECIFICATION FairSpec
CONSTANTS
    Keys = {1, 2}
    Values = {a, b}
    Writers = {1, 2}
    MaxU64 = 5
    AddWins = FALSE
    Tombstone = Tombstone
    NoEntry = NoEntry
    MaxTimeJump = 4
    MaxGenerationJump = 2
    MaxEntries = 2
    RecordKeys = {}
    Attempt <- MCAttempt
    NoAttempt = NoAttempt
    Unstated = Unstated
    InvalidKeys = {}
    Workers = {w1, w2}
    Free = Free
    Requests <- MCRequests
    MaxRequests = 2
    HasParent = TRUE
    DirSyncFails = TRUE
    PowerCuts = FALSE
    Missing = Missing
    Torn = Torn
    ConflictHistory = 1
    a = a
    b = b
PROPERTIES
    NeverRegresses
    ServesAtomically
    EveryoneAnswered
