CONSTANTS
    ChunkSize = 2
    BufferSize = 5
    MaxCodewords = 3
    MaxPerBucket = 2
    Boost = 2
    Span = 8
    SizeField = 4
    Workers = {w1, w2}
    Gone = Gone
    MaxFaults = 1
    MaxChanges = 1
    TopLimit = 2
    AlignedMin = 3
    CacheSize = 3
    NoKey = NoKey
    Corpora <- MCCorpora
    Contents <- MCContents
    OldBrains <- MCOldBrains
    Input <- MCInput
    HighEntropy <- MCHighEntropy
SPECIFICATION Spec
SYMMETRY Symmetry
VIEW View
INVARIANTS TypeOK CountsAreExact EliteIsBest OpenedIsWhole AnswersAreNearest DiesOnlyIfRewritten
    CacheNearLimit
CHECK_DEADLOCK FALSE
