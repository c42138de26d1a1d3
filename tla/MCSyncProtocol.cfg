CONSTANTS
    p1 = p1
    p2 = p2
    x = x
    y = y
    Patterns = {p1, p2}
    Residuals = {x, y, NoResidual}
    NoResidual = NoResidual
    Files <- MCFiles
    NoFile = NoFile
    Partial = Partial
    MaxIndices = 2
    MaxPulls = 2
    MaxChanges = 2
SPECIFICATION FairSpec
INVARIANTS
    TypeOK
    RebuiltIsSendersVersion
    OnlyChangedChunksDiffer
    StarvedOnlyBySender
PROPERTIES
    OldCopyOutlivesFailures
    PullEndsUnlessStarved
CHECK_DEADLOCK FALSE
