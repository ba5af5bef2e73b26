SPECIFICATION Spec
CONSTANTS
    Validators = {v1, v2}
    MaxMiners = 1
    MaxNonces = 2
    MaxCalls = 0
    MaxValidations = 1
INVARIANTS
    NoUseAfterFree
CHECK_DEADLOCK FALSE
