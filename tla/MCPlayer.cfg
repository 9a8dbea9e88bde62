\* A video of two segments, and two things that go wrong or that the user does.
CONSTANTS
    N = 2
    QueueMax = 2
    MaxRetries = 1
    MaxAttempts = 1
    Ahead = 0
    Behind = 0
    Starts = {0}
    Targets = {1}
    Quota = 2
    MaxUnderWay = 1
    MaxEvents = 2
SPECIFICATION Spec
CHECK_DEADLOCK FALSE
INVARIANTS
    TypeOK
    InitBeforeSegments
    RequestingIsServed
