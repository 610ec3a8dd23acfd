CONSTANTS
    w1 = w1
    Worker = {w1}
    Master = Master
    Nil = Nil
    LoggerNum = 2
    ElemCount = 3
    PageRoom = 2
    MaxMsg = 2
    SignalsLog = FALSE
SPECIFICATION Spec
INVARIANTS FlushedBeforeReset
CHECK_DEADLOCK FALSE
