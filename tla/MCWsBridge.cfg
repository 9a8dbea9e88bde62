\* Two connections, one with two commands and one with one, and a deletion.
CONSTANTS
    w1 = w1
    w2 = w2
    Workers = {w1, w2}
    MaxPayload = 2
    Modulus = 8
    InfoMax = 2
    CountMax = 4
    MaxCommands <- TwoAndOne
    FilePath <- Path
    Disk <- File
    Segments <- SegmentCount
    Texts <- MixedTexts
SPECIFICATION FairSpec
INVARIANTS
    TypeOK NumbersDistinct ChunkIsExact SegmentsCounted AnsweredOnce
PROPERTY CommandEnds
