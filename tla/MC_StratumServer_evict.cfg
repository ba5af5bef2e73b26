SPECIFICATION Spec
CONSTANTS
    Clients = {c1}
    Callers = {r1}
    Requests <- IdleOnly
    Solutions <- MCSolutions
    MaxJobs = 3
    MaxHistory = 1
    MaxRecv = 1
    MaxCalls = 1
    CloseWakesAccept = TRUE
INVARIANTS
    CurrentJobResolvable
CHECK_DEADLOCK FALSE
