CONSTANTS
    c1 = c1
    c2 = c2
    f0 = f0
    f1 = f1
    Coro = {c1, c2}
    Main = Main
    Nil = Nil
    Fd = {f0, f1}
    ListenFd = f0
    Op = {"accept", "recv", "send"}
    DefaultWait = 1
    ACCEPT_TIMEOUT = 1
    IO_TIMEOUT = 1
    SleepTime = 1
    AllocFails = FALSE
    WorkerProcesses = {2}
    BufSize = 1
SPECIFICATION FairWSpec
PROPERTIES StopEnds  
CHECK_DEADLOCK FALSE
