SPECIFICATION Spec
CONSTANTS
    Width = 5
    MaxThreads = 4
INVARIANTS
    FullCoverage
CHECK_DEADLOCK FALSE
