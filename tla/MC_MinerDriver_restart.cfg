SPECIFICATION Spec
CONSTANTS
    Callers = {r1, r2}
    NumSieves = 2
    MaxCalls = 2
    MaxTemplates = 2
INVARIANTS
    NoTerminate
CHECK_DEADLOCK FALSE
