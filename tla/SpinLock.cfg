CONSTANTS
    p1 = p1
    p2 = p2
    p3 = p3
    Proc = {p1, p2, p3}
    Modulus = 5
SPECIFICATION FairSpec
INVARIANTS MutualExclusion
PROPERTIES IsFifo WaiterEnters
CHECK_DEADLOCK TRUE
