CONSTANTS
    Handlers = {h}
    Worker = Worker
    Closer = Closer
    ArchiveSize = 1
    SizeLimit = 3
    MaxAppends = 2
    MaxMounts = 1
SPECIFICATION Spec
INVARIANT CloseCommitsAll
CHECK_DEADLOCK FALSE
