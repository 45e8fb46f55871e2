SPECIFICATION Spec
CONSTANTS
    WordBytes = 2
    WordsPerLine = 2
    L1Lines = 2
    L1Ways = 1
    L2Lines = 4
    L2Ways = 2
    EvictSpan = 2
    MemBytes <- MCMemBytes
    Bits <- MCBits
    InitMem <- OnesMem
    FetchAddrs <- NoAddrs
    DataAddrs <- TwoSets
    WriteWords <- OneWord
    WriteBytes <- NoBytes
    FlushCaches <- NoCaches
    HeapV = {0, 1}
INVARIANTS TypeOK StrayNeedsL2
PROPERTIES WriteLands
CHECK_DEADLOCK FALSE
