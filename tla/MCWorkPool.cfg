\* The ring has two places; a timer ends every poll.
CONSTANTS
    w1 = w1 w2 = w2 x1 = x1 x2 = x2 x3 = x3
    Workers = {w1, w2}
    Items = {x1, x2, x3}
    Capacity = 2
    TimersPending = TRUE
    MaxNest = 2
    NoItem = NoItem
SPECIFICATION FairSpec
CHECK_DEADLOCK FALSE
INVARIANTS TypeOK ItemsAccounted NoIdleBacklog
PROPERTIES RefinesTaskQueueAbs WorkGetsRun DestroyReturns CompletionRuns
