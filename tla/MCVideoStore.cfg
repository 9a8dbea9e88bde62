\* Three requests of any kind, uploads in two seconds, one crash; up to a clash of names.
CONSTANTS
    Requests = {r1, r2, r3}
    Names = {"kim"}
    MaxClock = 2
    MaxCrashes = 1
SYMMETRY Alike
CONSTRAINT NoClashSoFar
SPECIFICATION Spec
INVARIANTS
    TypeOK SegmentsAreOwn RowHasFile RowsSettle NothingElseIsLeft HistoryRefers SignupIsExclusive
