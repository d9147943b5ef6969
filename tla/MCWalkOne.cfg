\* One audio walk, through a finish or a discard, a crash and its retries.
CONSTANTS
    Sessions = {1}
    Items = {i1, i2, i3}
    Photos = {}
    Runs = {r1, r2, r3}
    Nobody = nobody
    MaxChunks = 2
    TextOnly = {}
    FlushOnFinish = TRUE
    StoreFaults = TRUE
    MaxRetries = 1
    MaxCrashes = 1
SPECIFICATION Spec
SYMMETRY WalkSymmetry
INVARIANTS
    TypeOK
    QuietProcessing
    OneExitWins
    CaptureConserved
PROPERTIES
    ImplementsLifecycle
    ImplementsStore
CHECK_DEADLOCK FALSE
