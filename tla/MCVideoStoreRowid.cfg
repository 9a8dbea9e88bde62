\* Two signups at once, or a signup and another insertion.
CONSTANTS
    Requests = {r1, r2}
    Names = {"kim"}
    MaxClock = 1
    MaxCrashes = 0
SYMMETRY Alike
SPECIFICATION Spec
INVARIANT SessionIsOwn
