\* The system may stop: every command is answered and the job is over.
CONSTANTS
    Callers = {c1, c2, c3}
    MaxFaults = 3
SPECIFICATION Spec
CHECK_DEADLOCK FALSE
INVARIANTS
    AnsweredIsDurable
    JournalIsBacked
    CancelledIsClean
    GuardIsHeld
