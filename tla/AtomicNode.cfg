SPECIFICATION Spec
CONSTANTS
    Keys = {1, 2}
    Values <- MCValues
    Writers = {1, 2}
    MaxU64 = 5
    AddWins = FALSE
    Tombstone = Tombstone
    NoEntry = NoEntry
    MaxTimeJump = 2
    MaxGenerationJump = 2
    MaxEntries = 3
    RecordKeys = {2}
    Attempt <- MCAttempt
    NoAttempt = NoAttempt
    Unstated = Unstated
    InvalidKeys = {}
    Requests <- MCRequests
    a = a
    b = b
    m0 = m0
    other0 = other0
    m1 = m1
    mNext = mNext
    mLast = mLast
INVARIANTS
    TypeOK
    RetryIsHarmless
    OrderDoesNotMatter
    FullStateIsLossless
    CellsEndAsWritten
PROPERTIES
    TimeStepBounded
    AttemptsAreFenced
CHECK_DEADLOCK FALSE
