\* More spans than the queue and a batch hold, so that submits race at the cap.
SPECIFICATION FairSpec
CONSTANTS
    Spans = {s1, s2, s3}
    QueueSize = 1
    BatchSize = 2
    MaxRetries = 2
    ServerLimit = 2
INVARIANTS EverySpanAccounted CountsHold
PROPERTIES SpansSettle WorkerExits
CHECK_DEADLOCK FALSE
