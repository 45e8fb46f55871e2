SPECIFICATION Spec
CONSTANTS
    WordBytes = 2
    WordsPerLine = 2
    L1Lines = 2
    L1Ways = 2
    L2Lines = 2
    L2Ways = 2
    EvictSpan <- MCEvictSpan
    MemBytes <- MCMemBytes
    Bits = {0, 1}
    InitMem <- ZeroMem
    FetchAddrs <- NoAddrs
    DataAddrs <- AlignedAddrs
    WriteWords <- OneWord
    WriteBytes <- ZeroAndTwoBytes
    FlushCaches <- NoCaches
    HeapV = {0}
PROPERTIES ByteWritten
