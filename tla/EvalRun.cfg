\* Every fault: early deliveries, a crash in any attempt, time-outs, failing transactions.
SPECIFICATION FairSpec
CONSTANTS
    Items = {i1, i2, i3}
    Evaluators = {e1}
    MaxTries = 3
    Concurrency = 2
    EarlyDeliveries = 3
    CrashLimit = 3
    TimeOuts = TRUE
    DbFaults = TRUE
INVARIANTS SucceededIsComplete SummaryIsCurrent DeadLetterIsLast
PROPERTIES PaidOnce FinishedStays CancelHolds RunSettles
CHECK_DEADLOCK FALSE
