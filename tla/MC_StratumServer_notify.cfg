SPECIFICATION SpecWithoutTimer
CONSTANTS
    Clients = {c1}
    Callers = {r1}
    Requests <- SolvingSubmit
    Solutions <- MCSolutions
    MaxJobs = 2
    MaxHistory = 2
    MaxRecv = 1
    MaxCalls = 2
    CloseWakesAccept = TRUE
PROPERTIES
    NewBlockTriggersJob
CHECK_DEADLOCK FALSE
