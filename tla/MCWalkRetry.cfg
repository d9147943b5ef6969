\* The retry of a failed walk, with a store that works.
CONSTANTS
    Sessions = {1}
    Items = {i1}
    Photos = {}
    Runs = {r1, r2, r3}
    Nobody = nobody
    MaxChunks = 2
    TextOnly = {}
    FlushOnFinish = TRUE
    StoreFaults = FALSE
    MaxRetries = 1
    MaxCrashes = 1
SPECIFICATION FairSpec
PROPERTIES
    FailedIsRetried
CHECK_DEADLOCK FALSE
