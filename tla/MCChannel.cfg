\* Three threads, three calls, two channels, one of them typed; picks over both
\* and over one listed twice.
CONSTANTS
    t1 = t1 t2 = t2 t3 = t3 c1 = c1 c2 = c2 m1 = m1 m2 = m2 m3 = m3
    Threads = {t1, t2, t3}
    Channels = {c1, c2}
    Messages = {m1, m2}
    CaseLists <- PairAndTwice
    Accepts <- TypedSecond
    AllocMayFail = TRUE
    MaxOps = 2
    MaxCalls = 3
    NoThread = NoThread
    NoMsg = NoMsg
SYMMETRY ThreadSymmetry
SPECIFICATION Spec
INVARIANTS TypeOK MessagesAccounted NoLostWakeup SelectorsAlive PickNotified
PROPERTY RefinesChannelAbs
