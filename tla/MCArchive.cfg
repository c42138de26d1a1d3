CONSTANTS
    e = e
    f = f
    l = l
    p = p
    x = x
    Chunks = {e, f, l, p, x}
    Route <- MCRoute
    PatternOf <- MCPatternOf
    Inputs <- MCInputs
    Options <- MCOptions
    Workers = {w1, w2}
    BlockChunks = 2
    SmallLimit = 2
    NoFile = NoFile
    Zero = Zero
    Wrong = Wrong
    Partial = Partial
    MaxPacks = 1
    MaxUnpacks = 1
    MaxChanges = 1
    MaxDamage = 1
SPECIFICATION FairSpec
INVARIANTS
    TypeOK
    UnpackFailsForCause
    RestoredIsInput
    GoodBlocksSurvive
PROPERTY PackEnds
CHECK_DEADLOCK FALSE
