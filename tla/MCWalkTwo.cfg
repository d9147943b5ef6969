\* Two walks: the retry of one and the capture of the other.
CONSTANTS
    Sessions = {1, 2}
    Items = {i1}
    Photos = {}
    Runs = {r1, r2, r3}
    Nobody = nobody
    MaxChunks = 1
    TextOnly = {1, 2}
    FlushOnFinish = FALSE
    StoreFaults = FALSE
    MaxRetries = 1
    MaxCrashes = 1
SPECIFICATION Spec
SYMMETRY WalkSymmetry
INVARIANTS
    OneRunAtATime
PROPERTIES
    ImplementsLifecycle
CHECK_DEADLOCK FALSE
