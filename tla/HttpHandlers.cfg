SPECIFICATION Spec
CONSTANTS
    BodyCap = 12
    OutCap = 4
    Bodies <- BodiesDef
    Escaped <- EscapedDef
    MaxNodes = 2
    CycleMin = 1
    CycleMax = 4
    TimerMax = 4
    HwCount <- HwDef
    GraphMaxNodes = 2
    ObjectMax = 28
    Width16 = 8
    Width32 = 16
    Value <- ValueDef
    DefaultCycle = 2
    Texts <- TextsDef
    Cap = 17
    Reserve = 7
    HeadMax = 4
    NodeMax = 4
    TailMax = 1
    CacheSize = 5
    Docs = {d1, d2, d3}
    Buildable = {d1, d2}
    NoFile = NoFile
    Empty = Empty
INVARIANTS
    HandlersTypeOK
    ExtractsTheGraph
    BuildsWhatIsWritten
    CutNodeRefused
    PageFits
    LeftOutWhenFull
    FilesAgree
    OkMeansStored
    StoredIsStaged
CHECK_DEADLOCK FALSE
