CONSTANTS
    w1 = w1
    w2 = w2
    Worker = {w1, w2}
    Master = Master
    Nil = Nil
    LoggerNum = 2
    ElemCount = 2
    PageRoom = 2
    MaxMsg = 2
    SignalsLog = TRUE
SPECIFICATION Spec
INVARIANTS OneWriter
CHECK_DEADLOCK FALSE
