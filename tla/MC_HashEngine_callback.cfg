SPECIFICATION Spec
CONSTANTS
    Validators = {v1}
    MaxMiners = 2
    MaxNonces = 2
    MaxCalls = 2
    MaxValidations = 1
INVARIANTS
    CallbackAtMostOnce
CHECK_DEADLOCK FALSE
