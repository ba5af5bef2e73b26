SPECIFICATION Spec
CONSTANTS
    Callers = {r1}
    NumThreads = 2
    MaxCalls = 4
    ShiftArgs = {14, 25, 70000}
    Merits = {10, 25}
INVARIANTS
    NoTerminate
    MiningMatchesThreads
    BestMeritIsMax
PROPERTIES
    StopTerminates
    SessionRefinement
CHECK_DEADLOCK FALSE
