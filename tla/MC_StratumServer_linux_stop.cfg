SPECIFICATION Spec
CONSTANTS
    Clients = {c1}
    Callers = {r1}
    Requests <- IdleOnly
    Solutions <- MCSolutions
    MaxJobs = 1
    MaxHistory = 1
    MaxRecv = 1
    MaxCalls = 2
    CloseWakesAccept = FALSE
PROPERTIES
    StopTerminates
CHECK_DEADLOCK FALSE
