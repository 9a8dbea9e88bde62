\* Two peers that open, migrate, expire, close and come back, on two streams of which
\* a connection has room for one, while a thread closes connections.
SPECIFICATION Spec
CONSTANTS
    ByteBase = 2
    MaxPayload = 2
    ConnIds = {1, 2}
    Addrs = {1, 2}
    StreamIds = {1, 2}
    PacketNumbers = {1}
    Kinds <- TableKinds
    Senders = {}
    Closers = {c1}
    MaxConnections = 2
    ConnectionTimeout = 0
    MaxPending = 1
    RetransTimeout = 1
    MaxRetries = 2
    MaxStreams = 1
    StreamHandler = TRUE
    MaxAborted = 1
    c1 = c1
INVARIANTS
    TypeOK
    UniqueConnection
    MetricsBalance
