\* Two connections whose commands use the same QUIC connection.
CONSTANTS
    w1 = w1
    w2 = w2
    Workers = {w1, w2}
    MaxPayload = 2
    Modulus = 8
    InfoMax = 2
    CountMax = 4
    MaxCommands <- Two
    FilePath <- Path
    Disk <- File
    Segments <- SegmentCount
    Texts <- PacketTexts
SPECIFICATION Spec
INVARIANT NumbersAlwaysDistinct
