SPECIFICATION Spec
CONSTANTS
    Clients = {c1}
    Callers = {r1}
    Requests <- LoginOnly
    Solutions <- MCSolutions
    MaxJobs = 2
    MaxHistory = 2
    MaxRecv = 1
    MaxCalls = 2
    CloseWakesAccept = TRUE
PROPERTIES
    EveryBroadcastCompletes
CHECK_DEADLOCK FALSE
