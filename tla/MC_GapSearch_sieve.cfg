SPECIFICATION Spec
CONSTANTS
    HashValue = 6
    Shift = 14
    ThreadsArg = 0
    HardwareConcurrency = 256
    ThreadId = 1
    SieveSize = 4
    SievePrimes = 3
    TargetGap = 10
    RngDraws <- MCRngDraws
    MaxSegments = 3
INVARIANT SieveKeepsPrimes
CHECK_DEADLOCK FALSE
