SPECIFICATION Spec
CONSTANTS
    PdEntries = 2
    PageSize = 2
    PteBytes = 1
    L1Lines = 2
    L1LinesBits = 1
    L2Lines = 4
    L2LinesBits = 2
    TagWord = 8
    PageTables <- MCTables
    Pages <- DistinctPages
    FlushTlbs <- L1Tlbs
    StackEntries <- ZeroEntries
INVARIANTS TypeOK Inclusion
PROPERTIES SearchFills ImplementsMmu
