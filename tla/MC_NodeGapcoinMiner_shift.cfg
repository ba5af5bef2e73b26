SPECIFICATION Spec
CONSTANTS
    Callers = {r1}
    NumThreads = 1
    MaxCalls = 2
    ShiftArgs = {25, 14}
    Merits = {10, 25}
INVARIANT ReportedShiftMatches
CHECK_DEADLOCK FALSE
