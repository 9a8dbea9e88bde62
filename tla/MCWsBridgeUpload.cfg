\* A video whose file lies where uploads put it.
CONSTANTS
    w1 = w1
    w2 = w2
    Workers = {w1}
    MaxPayload = 2
    Modulus = 8
    InfoMax = 2
    CountMax = 4
    MaxCommands <- One
    FilePath <- UploadPath
    Disk <- File
    Segments <- SegmentCount
    Texts <- UploadTexts
SPECIFICATION Spec
INVARIANT StoredVideoIsStreamed
