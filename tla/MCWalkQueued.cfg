\* A queued walk across a relaunch.
CONSTANTS
    Sessions = {1}
    Items = {i1}
    Photos = {}
    Runs = {r1, r2}
    Nobody = nobody
    MaxChunks = 1
    TextOnly = {}
    FlushOnFinish = TRUE
    StoreFaults = FALSE
    MaxRetries = 1
    MaxCrashes = 1
SPECIFICATION FairSpec
PROPERTIES
    QueuedIsProcessed
CHECK_DEADLOCK FALSE
