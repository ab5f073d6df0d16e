SPECIFICATION Spec
CONSTANTS
    JobIds = {j1, j2}
    Sessions = {s1, s2}
    Children = {c1}
    Leases = {l1}
    None = None
    Unleased = Unleased
    Kinds = {"readonly", "unbound", "bound"}
    Causes = {"user"}
    CloseReasons = {}
    MaxTime = 0
    GcAge = 0
    MayCrash = TRUE
    MayLoseTuples = TRUE
    ClockMayLag = FALSE
SYMMETRY Digests
CHECK_DEADLOCK FALSE
INVARIANTS
    IndexComplete
PROPERTIES
    ImplementsWritableJobs
