CONSTANTS
    t1 = t1
    t2 = t2
    t3 = t3
    Threads = {t1, t2, t3}
    MaxDepth = 3
    NoThread = NoThread
SPECIFICATION Spec
SYMMETRY Symmetry
INVARIANTS TypeOK WriterExcludes RecursionUnraced HoldsBalanced
PROPERTY RefinesRwLockAbs
