\* Three stream identifiers contend for two slots; a packet can be longer than
\* the caller's buffer, which cuts segments in the middle; up to three segments
\* wait, and offsets end just below the wrap.
SPECIFICATION Spec
CONSTANTS
    StreamIds = {1, 2, 3}
    MaxStreams = 2
    StreamLen = 3
    MaxPayload = 3
    OutBufSize = 2
    OffsetMod = 4
    MaxStored = 3
INVARIANTS
    TypeOK
    DeliveredInOrder
    ReportedOffsetIsFirstByte
    SegmentOrder
    SlotsAreDistinct
PROPERTIES
    DrainedUnlessFull
    ImplementsInOrderDelivery
