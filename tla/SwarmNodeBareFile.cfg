SPECIFICATION Spec
CONSTANTS
    Keys = {1, 2}
    Values = {a, b}
    Writers = {1, 2}
    MaxU64 = 5
    AddWins = FALSE
    Tombstone = Tombstone
    NoEntry = NoEntry
    MaxTimeJump = 4
    MaxGenerationJump = 2
    MaxEntries = 2
    RecordKeys = {}
    Attempt <- MCAttempt
    NoAttempt = NoAttempt
    Unstated = Unstated
    InvalidKeys = {}
    Workers = {w1, w2}
    Free = Free
    Requests <- MCRequests
    MaxRequests = 3
    HasParent = FALSE
    DirSyncFails = FALSE
    PowerCuts = TRUE
    Missing = Missing
    Torn = Torn
    ConflictHistory = 1
    a = a
    b = b
INVARIANTS
    PromisedIsDurable
