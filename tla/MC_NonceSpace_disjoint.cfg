SPECIFICATION Spec
CONSTANTS
    Width = 5
    MaxThreads = 4
INVARIANTS
    NoNonceTwice
CHECK_DEADLOCK FALSE
