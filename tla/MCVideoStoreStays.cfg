\* An upload beside another insertion.
CONSTANTS
    Requests = {r1, r2}
    Names = {"kim"}
    MaxClock = 1
    MaxCrashes = 0
SYMMETRY Alike
SPECIFICATION Spec
INVARIANT OldVideoStays
