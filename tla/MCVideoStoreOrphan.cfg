\* Segments that a deletion or an upload leaves behind. Violated.
CONSTANTS
    Requests = {r1, r2}
    Names = {"kim"}
    MaxClock = 1
    MaxCrashes = 0
SYMMETRY Alike
SPECIFICATION Spec
INVARIANT NoOrphanSegments
