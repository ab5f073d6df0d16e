SPECIFICATION Spec
CONSTANTS
    JobIds = {j1, j2, j3}
    Sessions = {s1}
    Children = {c1, c2}
    Leases = {l1, l2}
    None = None
    Unleased = Unleased
    Kinds = {"bound"}
    Causes = {"user"}
    CloseReasons = {"invalidated"}
    MaxTime = 1
    GcAge = 0
    MayCrash = FALSE
    MayLoseTuples = FALSE
    ClockMayLag = FALSE
SYMMETRY DigestsAndChildren
CHECK_DEADLOCK FALSE
INVARIANTS
    ActiveIsSettleable
PROPERTIES
    NeverRewindsPastWork
