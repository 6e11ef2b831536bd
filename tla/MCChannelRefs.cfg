\* Two threads, two values, at the same time.
CONSTANTS
    t1 = t1 t2 = t2 m1 = m1 m2 = m2
    Threads = {t1, t2}
    Messages = {m1, m2}
    Main = Main
SYMMETRY Symmetry
SPECIFICATION Spec
CHECK_DEADLOCK FALSE
INVARIANT MessagesIntact
