\* A thread closes the connection the engine thread is reading data for. Violated.
SPECIFICATION Spec
CONSTANTS
    ByteBase = 2
    MaxPayload = 2
    ConnIds = {1}
    Addrs = {1}
    StreamIds = {1}
    PacketNumbers = {1}
    Kinds <- ConnectAndData
    Senders = {}
    Closers = {c1}
    MaxConnections = 1
    ConnectionTimeout = 1
    MaxPending = 1
    RetransTimeout = 1
    MaxRetries = 2
    MaxStreams = 1
    StreamHandler = TRUE
    MaxAborted = 1
    c1 = c1
INVARIANTS
    FreeEntryIsEmpty
