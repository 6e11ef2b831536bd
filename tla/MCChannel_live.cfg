\* Fair threads: who is blocked returns after a close or a timeout.
CONSTANTS
    t1 = t1 t2 = t2 t3 = t3 c1 = c1 c2 = c2 m1 = m1 m2 = m2 m3 = m3
    Threads = {t1, t2, t3}
    Channels = {c1, c2}
    Messages = {m1}
    CaseLists <- OnePair
    Accepts <- AnyMessage
    AllocMayFail = FALSE
    MaxOps = 1
    MaxCalls = 3
    NoThread = NoThread
    NoMsg = NoMsg
SPECIFICATION FairSpec
PROPERTIES CloseReleases TimedPickReturns
