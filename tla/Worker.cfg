CONSTANTS
    c1 = c1
    c2 = c2
    c3 = c3
    f0 = f0
    f1 = f1
    f2 = f2
    Coro = {c1, c2, c3}
    Main = Main
    Nil = Nil
    Fd = {f0, f1, f2}
    ListenFd = f0
    Op = {"accept", "recv", "send"}
    DefaultWait = 2
    ACCEPT_TIMEOUT = 2
    IO_TIMEOUT = 2
    SleepTime = 1
    AllocFails = FALSE
    WorkerProcesses = {1, 2}
    BufSize = 2
SPECIFICATION WSpec
SYMMETRY Symmetry
INVARIANTS NeverStranded CountIsExact AdmittedFits LockOnlyInAccept StopDrains ConnectionOwned
CHECK_DEADLOCK FALSE
