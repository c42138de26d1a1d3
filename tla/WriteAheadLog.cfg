CONSTANTS
    Handlers = {h}
    Worker = Worker
    Closer = Closer
    ArchiveSize = 1
    SizeLimit = 3
    MaxAppends = 3
    MaxMounts = 2
SPECIFICATION FairSpec
INVARIANTS
    TypeOK
    SettledIsKept
    CommittedOnce
    ChainHoldsWrites
PROPERTY BufferDrains
CHECK_DEADLOCK FALSE
