SPECIFICATION Spec
SYMMETRY ClientSymmetry
CONSTANTS
    Clients = {c1, c2}
    Callers = {r1}
    Requests <- SessionRequests
    Solutions <- MCSolutions
    MaxJobs = 3
    MaxHistory = 2
    MaxRecv = 2
    MaxCalls = 2
    CloseWakesAccept = TRUE
INVARIANTS
    TypeOK
    StopQuiescent
CHECK_DEADLOCK FALSE
