CONSTANTS
    Threads = {t1, t2}
    Counts <- MCCounts
    MAX_BBS_MESSAGES = 2
    NoCall = NoCall
    Pending = Pending
    Panicked = Panicked
    NoThread = NoThread
    NoParams = NoParams
SPECIFICATION FairSpec
INVARIANTS
    CacheSound
    LockDiscipline
    WarmCallsNeverDerive
    RederivesOnlyAfterPanic
PROPERTIES
    CacheOnlyGrows
    ImplementsService
    CallsReturn
CHECK_DEADLOCK TRUE
