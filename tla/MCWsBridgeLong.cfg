\* A video with more segments than the server counts.
CONSTANTS
    w1 = w1
    w2 = w2
    Workers = {w1}
    MaxPayload = 2
    Modulus = 8
    InfoMax = 2
    CountMax = 4
    MaxCommands <- One
    FilePath <- Path
    Disk <- File
    Segments <- ManySegments
    Texts <- LongTexts
SPECIFICATION Spec
INVARIANT InitAlwaysReportsSegments
