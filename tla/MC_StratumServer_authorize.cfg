SPECIFICATION Spec
CONSTANTS
    Clients = {c1}
    Callers = {r1}
    Requests <- AuthorizeOnly
    Solutions <- MCSolutions
    MaxJobs = 1
    MaxHistory = 1
    MaxRecv = 1
    MaxCalls = 1
    CloseWakesAccept = TRUE
INVARIANTS
    AuthorizedImpliesSubscribed
CHECK_DEADLOCK FALSE
