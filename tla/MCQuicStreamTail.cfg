\* As the engine uses the manager: the caller's buffer is as large as the largest
\* payload. Violated: see AcceptedIsDelivered.
SPECIFICATION FairSpec
CONSTANTS
    StreamIds = {1}
    MaxStreams = 1
    StreamLen = 3
    MaxPayload = 2
    OutBufSize = 2
    OffsetMod = 4
    MaxStored = 3
PROPERTIES
    AcceptedIsDelivered
