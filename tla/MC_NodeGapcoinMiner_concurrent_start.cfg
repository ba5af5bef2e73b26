SPECIFICATION Spec
CONSTANTS
    Callers = {r1, r2}
    NumThreads = 2
    MaxCalls = 1
    ShiftArgs = {25, 14}
    Merits = {10, 25}
INVARIANT NoTerminate
CHECK_DEADLOCK FALSE
