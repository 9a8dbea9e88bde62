\* The server is killed while a request extends the session. Violated.
SPECIFICATION Spec
CONSTANTS
    nobody = nobody
    s1 = s1
    u1 = u1
    r1 = r1
    Nobody = nobody
    Sids = {s1}
    Users = {u1}
    Requests = {r1}
    TTL = 2
    DbFails = FALSE
    Crashes = TRUE
INVARIANTS
    RestartRestores
