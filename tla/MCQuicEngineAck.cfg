\* Two streams, one stream slot. Violated.
SPECIFICATION Spec
CONSTANTS
    ByteBase = 2
    MaxPayload = 2
    ConnIds = {1}
    Addrs = {1}
    StreamIds = {1, 2}
    PacketNumbers = {1}
    Kinds <- ConnectAndData
    Senders = {}
    Closers = {}
    MaxConnections = 1
    ConnectionTimeout = 1
    MaxPending = 1
    RetransTimeout = 1
    MaxRetries = 2
    MaxStreams = 1
    StreamHandler = TRUE
    MaxAborted = 1
INVARIANTS
    AckMeansAccepted
