\* The system may stop: the job is over and its reservation cleared.
CONSTANTS
    w1 = w1
    w2 = w2
    w3 = w3
    Workers = {w1, w2, w3}
    MaxFaults = 3
SPECIFICATION FairSpec
CHECK_DEADLOCK FALSE
INVARIANTS
    RunnerIsAdmitted
    TerminalIsReleasable
PROPERTIES
    AttemptConverges
