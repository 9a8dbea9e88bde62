\* A sender is between two steps of track_pending when the timer comes. Violated.
SPECIFICATION Spec
CONSTANTS
    ByteBase = 2
    MaxPayload = 2
    ConnIds = {1}
    Addrs = {1}
    StreamIds = {1}
    PacketNumbers = {1}
    Kinds <- ConnectAndAck
    Senders = {s1}
    Closers = {}
    MaxConnections = 1
    ConnectionTimeout = 1
    MaxPending = 1
    RetransTimeout = 1
    MaxRetries = 2
    MaxStreams = 1
    StreamHandler = FALSE
    MaxAborted = 1
    s1 = s1
INVARIANTS
    SentMaxRetries
