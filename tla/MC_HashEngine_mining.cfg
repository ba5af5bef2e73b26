SPECIFICATION Spec
CONSTANTS
    Validators = {v1}
    MaxMiners = 2
    MaxNonces = 2
    MaxCalls = 4
    MaxValidations = 2
INVARIANTS
    TypeOK
    StopJoinsMiners
CHECK_DEADLOCK FALSE
