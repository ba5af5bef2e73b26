SPECIFICATION Spec
CONSTANTS
    Callers = {r1, r2}
    NumThreads = 2
    MaxCalls = 2
    ShiftArgs = {25, 14}
    Merits = {10, 25}
INVARIANT MiningMatchesThreads
CHECK_DEADLOCK FALSE
