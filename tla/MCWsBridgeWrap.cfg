\* A file longer than the offset field can say.
CONSTANTS
    w1 = w1
    w2 = w2
    Workers = {w1}
    MaxPayload = 2
    Modulus = 8
    InfoMax = 2
    CountMax = 4
    MaxCommands <- One
    FilePath <- Path
    Disk <- LongFile
    Segments <- SegmentCount
    Texts <- WrapTexts
SPECIFICATION Spec
INVARIANT ChunkIsExact
