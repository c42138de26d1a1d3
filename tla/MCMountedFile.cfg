CONSTANTS
    Readers = {r1, r2}
    Prefetchers = {g1}
    PageSize = 3
    MaxPages = 1
    PrefetchDepth = 1
    Cuts = {0, 1}
    MaxFaults = 1
    None = None
    Entries <- MCEntries
    FrameSizes <- MCFrameSizes
    BlockSize = 2
    MetaSize = 1
    PlainSize = 5
    Files <- MCFiles
    Requests <- MCRequests
    MaxBytes = 2
    MaxReads = 2
    Error = Error
SPECIFICATION FairSpec
INVARIANTS
    TypeOK
    CacheAccounts
    SingleFlight
    CrashNeedsTruncatedPage
PROPERTIES
    KeepsPromise
CHECK_DEADLOCK FALSE
