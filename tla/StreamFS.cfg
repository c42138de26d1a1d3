CONSTANTS
    Inodes = {i1, i2}
    Handlers = {h1, h2}
    WriteSizes = {1, 2}
    BlockSize = 2
    None = None
    MaxStreams = 2
    MaxCells = 2
    MaxFlushes = 2
    MaxFaults = 1
SPECIFICATION FairSpec
INVARIANTS
    TypeOK
    FinishedStreamIsIntact
    MixNeedsTwoInodes
    NoWriterLeftBehind
PROPERTY RequestsEnd
CHECK_DEADLOCK FALSE
