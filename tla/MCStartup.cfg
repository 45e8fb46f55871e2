SPECIFICATION Spec
CONSTANTS
    PdEntries = 2
    PageSize = 2
    PteBytes = 1
    PointerSize = 2
    InitialRoom = 3
    WordSize = 4
    ByteMax = 2
    MayFail = TRUE
    Value <- MCValue
    Files <- MCFiles
    Digits = 2
    Extra <- MCExtra
    MaxLines = 5
    Descriptions <- MCDescriptions
    PageFiles <- MCPageFiles
    Dumps <- MCDumps
    SizeValues = 16
    NoMemory = TRUE
    Jobs <- MCJobs
INVARIANTS TypeOK Capacity StraysThroughNull ReadsWhatIsPrinted ContainedStaysInside LoadedPagesFound
PROPERTIES CommandsKept ReadingAdvances ReadingEnds LoadEnds
CHECK_DEADLOCK FALSE
