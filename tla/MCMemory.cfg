CONSTANTS
    Texts <- McTexts
    Terms <- McTerms
    Key <- McKey
    WordsOf <- McWords
    Pack <- McPack
    Stances = {"corrected"}
    Answers <- McAnswers
    WordCap = 2
    TermCap = 1
    TermWords = 1
    SeedMax = 1
    Warmup = 1
    MaxInterval = 2
    MaxLow = 2
    Yields = {}
    MaxEdits = 2
    MaxReflections = 2
    MaxSessions = 1
SPECIFICATION MemorySpec
INVARIANTS AckedOnDisk SeededForGood RollbackPointUnlessDropped WithinWordCap
