SPECIFICATION Spec
SYMMETRY ClientSymmetry
CONSTANTS
    Clients = {c1, c2}
    Callers = {r1}
    Requests <- ShareRequests
    Solutions <- MCSolutions
    MaxJobs = 2
    MaxHistory = 2
    MaxRecv = 2
    MaxCalls = 2
    CloseWakesAccept = TRUE
INVARIANTS
    BlockAccounting
CHECK_DEADLOCK FALSE
