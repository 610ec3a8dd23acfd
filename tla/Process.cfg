\* Every fault, or none.
CONSTANTS
    p1 = p1
    p2 = p2
    p3 = p3
    Pid = {p1, p2, p3}
    N = 2
    INVALID_PID = INVALID_PID
    Faults = {{}, {"fork", "SIGCHLD"}}
SPECIFICATION FairSpec
INVARIANTS WorkersKnown StopReachesAll
PROPERTIES StopFinishesUnharmed Replaced
CHECK_DEADLOCK FALSE
