SPECIFICATION Spec
CONSTANTS
    Callers = {r1, r2}
    NumSieves = 2
    MaxCalls = 2
    MaxTemplates = 2
INVARIANTS
    ActiveImpliesSieving
CHECK_DEADLOCK FALSE
