CONSTANTS
    Spoken <- McSpoken
    ChunkLen = 5
    Overlap = 2
    MaxAudio = 9
    MinNew = 1
    Budget = 2
SPECIFICATION CaptureSpec
INVARIANTS  NothingLeftBehind LiveSkipsNothing ParkedForAReason
