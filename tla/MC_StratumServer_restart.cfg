SPECIFICATION Spec
CONSTANTS
    Clients = {c1}
    Callers = {r1, r2}
    Requests <- IdleOnly
    Solutions <- MCSolutions
    MaxJobs = 1
    MaxHistory = 1
    MaxRecv = 1
    MaxCalls = 2
    CloseWakesAccept = TRUE
INVARIANTS
    NoTerminate
CHECK_DEADLOCK FALSE
