SPECIFICATION Spec
CONSTANTS
    Validators = {v1}
    MaxMiners = 1
    MaxNonces = 2
    MaxCalls = 0
    MaxValidations = 1
INVARIANTS
    ValidationHashIsReal
CHECK_DEADLOCK FALSE
