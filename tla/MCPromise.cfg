\* Five kinds of programs, of up to four promises, two async functions and five
\* calls; they do what the code allows for.
SPECIFICATION Spec
CONSTANTS
    Promises = {p1, p2, p3, p4}
    Coroutines = {c1, c2}
    Allowed = {}
    Programs <- MCPrograms
    NoPromise = NoPromise
    NoWaiter = NoWaiter
CHECK_DEADLOCK FALSE
INVARIANTS TypeOK PromisesAlive NobodyForgotten HandlersCalledOnce ChainOutcome CombinedOutcome
PROPERTIES SettledForGood
