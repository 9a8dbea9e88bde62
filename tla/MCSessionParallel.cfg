\* Two requests with the same session at the same time. Violated.
SPECIFICATION Spec
CONSTANTS
    nobody = nobody
    s1 = s1
    u1 = u1
    r1 = r1
    r2 = r2
    Nobody = nobody
    Sids = {s1}
    Users = {u1}
    Requests = {r1, r2}
    TTL = 2
    DbFails = FALSE
    Crashes = FALSE
INVARIANTS
    ValidIsServed
