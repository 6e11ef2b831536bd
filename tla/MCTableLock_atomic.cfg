CONSTANTS
    t1 = t1
    t2 = t2
    v1 = v1
    v2 = v2
    v3 = v3
    v4 = v4
    Threads = {t1, t2}
    Values = {v1, v2, v3, v4}
    Initial <- MCInitial
    MaxLen = 3
    MaxOps = 2
    Allowed = {}
    NoThread = NoThread
    NoValue = NoValue
SPECIFICATION Spec
SYMMETRY Symmetry
CHECK_DEADLOCK FALSE
INVARIANT LockReturned
PROPERTY RefinesTableAbs
