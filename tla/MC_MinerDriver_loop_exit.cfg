SPECIFICATION Spec
CONSTANTS
    Callers = {r1}
    NumSieves = 2
    MaxCalls = 2
    MaxTemplates = 2
INVARIANTS
    LoopRunsWhileActive
CHECK_DEADLOCK FALSE
