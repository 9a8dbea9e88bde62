\* A peer that connects, acknowledges, leaves and comes back, or sends
\* for ever, and two senders.
SPECIFICATION FairSpec
CONSTANTS
    ByteBase = 2
    MaxPayload = 2
    ConnIds = {1}
    Addrs = {1}
    StreamIds = {1}
    PacketNumbers = {1}
    Kinds <- ConnectAckAndClose
    Senders = {s1, s2}
    Closers = {}
    MaxConnections = 1
    ConnectionTimeout = 1
    MaxPending = 1
    RetransTimeout = 1
    MaxRetries = 2
    MaxStreams = 1
    StreamHandler = FALSE
    MaxAborted = 1
    s1 = s1
    s2 = s2
INVARIANTS
    RetryBound
    StateReported
PROPERTIES
    IdleIsFreed
    PendingIsSettled
    EngineStops
