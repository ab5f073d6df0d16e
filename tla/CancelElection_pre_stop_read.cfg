\* The system may stop: every command is answered and the job is over.
CONSTANTS
    Callers = {c1}
    MaxFaults = 1
SPECIFICATION Spec
CHECK_DEADLOCK FALSE
PROPERTY EndsOverGoneTree
