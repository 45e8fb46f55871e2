SPECIFICATION Spec
CONSTANTS
    WordBytes = 2
    WordsPerLine = 2
    L1Lines = 2
    L1Ways = 2
    L2Lines = 4
    L2Ways = 2
    EvictSpan <- MCEvictSpan
    MemBytes <- OddMemBytes
    Bits <- MCBits
    InitMem <- OddZeroMem
    FetchAddrs <- NoAddrs
    DataAddrs <- OddAddrs
    WriteWords <- OneWord
    WriteBytes <- ByteAndZero
    FlushCaches <- DataAndL2
    HeapV = {0}
INVARIANTS InBounds L1ValidFirst L1TagsUnique
PROPERTIES WriteThrough ReadBack ReadsRepeat EvictsOneFromFull
