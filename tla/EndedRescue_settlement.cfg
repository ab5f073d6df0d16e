\* The system may stop: the receipt is settled, the runner gone, the faults spent.
CONSTANTS
    p1 = p1
    p2 = p2
    Passes = {p1, p2}
    Hooks = {p1}
    MaxFaults = 2
SPECIFICATION FairSpec
CHECK_DEADLOCK FALSE
INVARIANTS
    ExclusionHeld
    CancelledIsStopped
    ResultIsReal
    SettledIsDecided
PROPERTIES
    PublishesOverGoneTree
    HookDischargesOverGoneTree
    ImplementsWritableJobs
    ReceiptSettles
