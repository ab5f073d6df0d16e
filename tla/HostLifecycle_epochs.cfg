\* Every race of two epochs over two workspaces, with one failure.
CONSTANTS
    Workspaces = {origin, linked}
    Origin = origin
    MaxEpoch = 2
    MaxFaults = 1
    Overlaps = FALSE
    EndsLate = TRUE
    LinksLate = FALSE
    None = None
SPECIFICATION Spec
INVARIANTS
    SettledIsDischarged
    OwedIsDiscoverable
    ReplacedIsReceipted
    ReleaseSparesSuccessor
PROPERTIES
    ScopeKept
CHECK_DEADLOCK FALSE
