CONSTANTS
    p1 = p1
    p2 = p2
    x = x
    y = y
    Patterns = {p1, p2}
    Residuals = {x, y, NoResidual}
    NoResidual = NoResidual
    Files <- MCFiles
    NoFile = NoFile
    Partial = Partial
    MaxIndices = 2
    MaxPulls = 1
    MaxChanges = 1
SPECIFICATION FairSpec
PROPERTY PullEnds
CHECK_DEADLOCK FALSE
