\* Two sessions of two users, three requests at a time, failures and crashes.
SPECIFICATION Spec
CONSTANTS
    nobody = nobody
    s1 = s1
    s2 = s2
    u1 = u1
    u2 = u2
    r1 = r1
    r2 = r2
    r3 = r3
    Nobody = nobody
    Sids = {s1, s2}
    Users = {u1, u2}
    Requests = {r1, r2, r3}
    TTL = 2
    DbFails = TRUE
    Crashes = TRUE
SYMMETRY
    SessionSymmetry
INVARIANTS
    TypeOK
    OwnerKept
    SurvivesRaces
