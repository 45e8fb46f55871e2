SPECIFICATION Spec
CONSTANTS
    PdEntries = 2
    PageSize = 2
    PteBytes = 1
    TlbLines = 3
    HeapNodes = 4
    PageTables <- MCTables
    Pages <- MCPages
INVARIANTS TypeOK EachLineOnce PagesUnique InvalidFirst
PROPERTIES ImplementsMmu ImplementsLru
