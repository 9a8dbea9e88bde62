\* A stream as long as the offset space: next_offset wraps to 0. Violated.
SPECIFICATION Spec
CONSTANTS
    StreamIds = {1}
    MaxStreams = 1
    StreamLen = 4
    MaxPayload = 2
    OutBufSize = 2
    OffsetMod = 4
    MaxStored = 2
INVARIANTS
    NoByteTwice
