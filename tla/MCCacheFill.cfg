SPECIFICATION Spec
CONSTANTS
    WordBytes = 2
    WordsPerLine = 2
    L1Lines = 2
    L1Ways = 2
    L2Lines = 2
    L2Ways = 2
    EvictSpan <- MCEvictSpan
    MemBytes <- MCMemBytes
    Bits <- MCBits
    InitMem <- ZeroMem
    FetchAddrs <- NoAddrs
    DataAddrs <- UnalignedAddrs
    WriteWords <- MCWords
    WriteBytes <- NoBytes
    FlushCaches <- NoCaches
    HeapV = {0}
INVARIANTS HoldsItsLine
