\* Both interfaces; every timer can come to its moment, and a run of the loop under an
\* iteration can bring one early.
CONSTANTS
    n1 = n1 n2 = n2
    Names = {n1, n2}
    Delays = {1, 2}
    Capacity = 2
    Interfaces = {"c", "lua"}
    MaxClock = 3
    MaxBusy = 1
    MaxNest = 2
    MaxOps = 5
    NoName = NoName
CONSTRAINT InOrder
SPECIFICATION FairSpec
CHECK_DEADLOCK FALSE
INVARIANTS TypeOK HeapOrdered NeverEarly PeriodicGoesOn
PROPERTY DueTimersLeave
