\* A connection that is lost while a segment is asked for; two interferences.
CONSTANTS
    N = 2
    QueueMax = 2
    MaxRetries = 1
    MaxAttempts = 1
    Ahead = 0
    Behind = 0
    Starts = {0}
    Targets = {1}
    Quota = 2
    MaxUnderWay = 1
    MaxEvents = 2
SPECIFICATION Spec
CHECK_DEADLOCK FALSE
INVARIANTS
    InitFirst
