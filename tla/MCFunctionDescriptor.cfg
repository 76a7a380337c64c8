SPECIFICATION MapSpec
CONSTANTS
    Heap <- MCHeap
    Descriptors <- MCDescriptors
    Spelling <- MCSpelling
    MaxKeys = 3
INVARIANTS OrdersKeys MapHolds
CHECK_DEADLOCK FALSE
