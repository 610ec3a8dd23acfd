CONSTANTS
    p1 = p1
    p2 = p2
    Pid = {p1, p2}
    N = 1
    INVALID_PID = INVALID_PID
    Faults = {{"SIGCHLD"}}
SPECIFICATION FairSpec
PROPERTIES StopFinishes
CHECK_DEADLOCK FALSE
