CONSTANTS
    Bits = 8
    SizeBits = 5
    DigitBits = 3
    BlockSize = 4
    MinSize = 1
    MaxSize = 4
    Delimiters = {0, 2}
    Window = 2
    RunLimit = 2
    PatchFlag = 16
    MaxEntries = 3
    Wrong = Wrong
    Inputs <- MCInputs
    Words <- MCWords
    Boundaries <- MCBoundaries
    AnyEntries <- MCAnyEntries
SPECIFICATION Spec
INVARIANTS TableRoundTrips RestoresInput
CHECK_DEADLOCK FALSE
