\* The system may stop: the broker is closed, or its bounds are spent.
CONSTANTS
    c1 = c1
    c2 = c2
    Clients = {c1, c2}
    Exact = {c1}
    Nobody = Nobody
    MaxTurns = 2
    MaxGenerations = 2
    MaxFaults = 1
SPECIFICATION FairSpec
CHECK_DEADLOCK FALSE
INVARIANTS
    OneEngine
PROPERTIES
    RunningKeepsSlot
    StopsAreReal
    RequestsEnd
