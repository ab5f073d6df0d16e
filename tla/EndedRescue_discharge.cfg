\* The system may stop: the receipt is settled, the runner gone, the faults spent.
CONSTANTS
    p1 = p1
    Passes = {p1}
    Hooks = {}
    MaxFaults = 1
SPECIFICATION Spec
CHECK_DEADLOCK FALSE
PROPERTIES
    DischargedOverGoneTree
