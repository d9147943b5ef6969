\* Progress of one audio walk.
CONSTANTS
    Sessions = {1}
    Items = {i1}
    Photos = {}
    Runs = {r1, r2, r3}
    Nobody = nobody
    MaxChunks = 2
    TextOnly = {}
    FlushOnFinish = TRUE
    StoreFaults = TRUE
    MaxRetries = 1
    MaxCrashes = 1
SPECIFICATION FairSpec
PROPERTIES
    ExitsReturn
    DroppedPumpExits
CHECK_DEADLOCK FALSE
