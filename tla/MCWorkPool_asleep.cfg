\* One item for the pool; nothing but its completion could end the poll.
CONSTANTS
    w1 = w1 x1 = x1
    Workers = {w1}
    Items = {x1}
    Capacity = 2
    TimersPending = FALSE
    MaxNest = 1
    NoItem = NoItem
SPECIFICATION FairSpec
CHECK_DEADLOCK FALSE
PROPERTY PoolCompletionRuns
