CONSTANTS
    Nodes = {n1, n2}
    Mirrors = {m}
    Brains = {b1, b2}
    Sessions = {s1, s2}
    MaxRestarts = 1
    MaxRepeats = 1
    None = None
    Junk = Junk
SPECIFICATION Spec
SYMMETRY Symmetry
INVARIANTS
    TypeOK
    AuthenticatedHeldBrain
    InitiatorWasAccepted
    BothOkMeansSameBrain
    NoMutualWait
CHECK_DEADLOCK FALSE
