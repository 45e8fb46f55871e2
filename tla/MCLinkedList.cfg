SPECIFICATION Spec
CONSTANTS
    Node = {n1, n2, n3, n4, n5}
    NULL = NULL
    Value = {1, 2}
INVARIANTS TypeOK Linked NoLeak
PROPERTIES ImplementsSequence
