CONSTANTS
    Walks = {w1}
    TemplateOf <- TheTemplates
    Items = {i1, i2}
    ItemKinds = {"todo", "safety"}
    Titles <- TheTitles
    NoAmount = NoAmount
    i1 = i1
    i2 = i2
    StartBoards <- TheBoards
    Replies <- TheReplies
    Taps = {t1, t2}
    Kinds = {"estimate", "work_order"}
    MaxEdits = 1
    MaxFaults = 1
    Texts <- TheTexts
    MaxItems = 4
    MaxLabelWords = 1
    Blocks <- TheBlocks
    MaxBlocks = 2
    MaxTurns = 2
    MaxAttempts = 2
    Lower <- TheLower
    Releases <- TheReleases
    Catalog <- TheCatalog
    SeedOrder <- TheOrder
    Shapes <- TheShapes
    OldStores <- TheOldStores
    MaxClock = 3
SPECIFICATION Spec
SYMMETRY Symmetry
\* A processed walk, a folded board and two taps that are over stand still; the
\* types never do: an app can always be launched or killed.
CHECK_DEADLOCK FALSE
INVARIANTS
    SchemaTypeOK
    RemovedStaysRemoved
    OperatorsEditStands
    UntouchedFollowRelease
    OfferedCanBeBuilt
    RequestsAreWellFormed
    CostIsLogged
    BoardIsWhatWasTold
    OneCardPerName
    MoneyConserved
    FoldsAreNamed
    AbsorbedWordsStay
    NumbersAreDense
    OneBoardPerDocument
    AmountsHaveASource
    ModelNeverFailsABuild
