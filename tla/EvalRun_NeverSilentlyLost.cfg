SPECIFICATION Spec
CONSTANTS
    Items = {i1, i2}
    Evaluators = {e1}
    MaxTries = 3
    Concurrency = 2
    EarlyDeliveries = 3
    CrashLimit = 3
    TimeOuts = FALSE
    DbFaults = FALSE
INVARIANT NeverSilentlyLost
CHECK_DEADLOCK FALSE
