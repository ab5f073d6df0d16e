SPECIFICATION Spec
CONSTANTS
    JobIds = {j1, j2, j3}
    Sessions = {s1}
    Children = {c1}
    Leases = {l1, l2}
    None = None
    Unleased = Unleased
    Kinds = {"bound"}
    Causes = {"host-coordination-loss"}
    CloseReasons = {"invalidated"}
    MaxTime = 0
    GcAge = 0
    MayCrash = TRUE
    MayLoseTuples = FALSE
    ClockMayLag = FALSE
SYMMETRY Digests
CHECK_DEADLOCK FALSE
INVARIANTS
    WritableExclusion
    RunningIsCurrent
    CancelledRevokesBinding
    LeaseAgreement
    BindingsAreGrounded
PROPERTIES
    StopDecisionHolds
    RollbackRestoresPrior
