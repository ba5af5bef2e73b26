SPECIFICATION Spec
CONSTANTS
    Callers = {r1}
    NumSieves = 2
    MaxCalls = 4
    MaxTemplates = 2
INVARIANTS
    StopQuiescent
    ActiveImpliesSieving
    NoTerminate
PROPERTIES
    StopTerminates
    SessionRefinement
CHECK_DEADLOCK FALSE
