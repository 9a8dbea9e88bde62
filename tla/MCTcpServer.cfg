\* With and without TLS, three places and four workers: room for one too many.
SPECIFICATION FairSpec
CONSTANTS
    w1 = w1
    w2 = w2
    w3 = w3
    w4 = w4
    Workers = {w1, w2, w3, w4}
    MaxClients = 3
INVARIANTS
    TypeOK
    CountIsExact
    ClientLimit
    PartsOutliveUsers
PROPERTIES
    ShutdownEnds
    PlaceIsFreed
