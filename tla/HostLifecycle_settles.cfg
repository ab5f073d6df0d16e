\* Fair hooks and prompts, when no resume overtakes the publication of the SessionEnd hook.
CONSTANTS
    Workspaces = {origin}
    Origin = origin
    MaxEpoch = 2
    MaxFaults = 1
    Overlaps = FALSE
    EndsLate = FALSE
    LinksLate = FALSE
    None = None
SPECIFICATION FairSpec
PROPERTIES
    PriorEpochSettles
    SuccessorRecordKept
    ImplementsEpochReceipts
CHECK_DEADLOCK FALSE
