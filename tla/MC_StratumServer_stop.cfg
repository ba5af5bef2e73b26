SPECIFICATION Spec
CONSTANTS
    Clients = {c1, c2}
    Callers = {r1}
    Requests <- UnauthenticatedRequests
    Solutions <- MCSolutions
    MaxJobs = 2
    MaxHistory = 2
    MaxRecv = 1
    MaxCalls = 2
    CloseWakesAccept = TRUE
INVARIANTS
    BlockAccounting
PROPERTIES
    StopTerminates
CHECK_DEADLOCK FALSE
