CONSTANTS
    t1 = t1
    t2 = t2
    v1 = v1
    v2 = v2
    v3 = v3
    v4 = v4
    Threads = {t1, t2}
    Values = {v1, v2, v3, v4}
    Initial <- MCInitial
    MaxLen = 3
    MaxOps = 1
    Allowed = {}
    NoThread = NoThread
    NoValue = NoValue
SPECIFICATION FairSpec
CHECK_DEADLOCK FALSE
PROPERTY InsertReturns
