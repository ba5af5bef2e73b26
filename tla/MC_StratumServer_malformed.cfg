SPECIFICATION Spec
CONSTANTS
    Clients = {c1}
    Callers = {r1}
    Requests <- NoJobSubmitOnly
    Solutions <- MCSolutions
    MaxJobs = 1
    MaxHistory = 1
    MaxRecv = 1
    MaxCalls = 1
    CloseWakesAccept = TRUE
INVARIANTS
    ShareAccounting
CHECK_DEADLOCK FALSE
