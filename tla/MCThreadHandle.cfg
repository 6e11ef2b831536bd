\* Three threads up to the first thing the library does not bear, two whatever happens.
CONSTANTS
    main = main t1 = t1 t2 = t2
    Threads = {main, t1, t2}
    Main = main
SYMMETRY NewThreadSymmetry
CONSTRAINT FewOrUnstrained
SPECIFICATION Spec
CHECK_DEADLOCK FALSE
INVARIANTS TypeOK InUseAlive ReferencesAccounted JoinTellsOutcome NativeReleasedOnce
