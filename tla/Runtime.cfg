CONSTANTS
    c1 = c1
    c2 = c2
    f0 = f0
    f1 = f1
    Coro = {c1, c2}
    Main = Main
    Nil = Nil
    Fd = {f0, f1}
    ListenFd = f0
    Op = {"accept", "recv", "connect"}
    DefaultWait = 3
    ACCEPT_TIMEOUT = 1
    IO_TIMEOUT = 2
    SleepTime = 1
    AllocFails = TRUE
SPECIFICATION Spec
SYMMETRY Symmetry
INVARIANTS OnePlace TableAgrees BatchIsBlocked AcceptFirst 
PROPERTIES TimeoutIsReal ImplementsCoroStatus
CHECK_DEADLOCK TRUE
