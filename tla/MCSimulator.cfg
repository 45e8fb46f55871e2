SPECIFICATION CarefulMachine
CONSTANTS
    WordBytes = 2
    WordsPerLine = 2
    L1Lines = 2
    L1Ways = 2
    L2Lines = 2
    L2Ways = 2
    EvictSpan <- MCEvictSpan
    MemBytes <- MCMemBytes
    Bits <- MCBits
    InitMem <- MCInitMem
    FetchAddrs <- CodeBytes
    DataAddrs <- DataBytes
    WriteWords <- EntryWords
    WriteBytes <- EntryBytesWritten
    FlushCaches = {}
    HeapV = {0}
    PdEntries = 4
    PageSize = 8
    PteBytes = 2
    Commands <- MCCommands
INVARIANTS HoldsItsLine
PROPERTIES ImplementsFlatMemory TranslationsStable
CHECK_DEADLOCK FALSE
