CONSTANTS
    Threads = {t1, t2}
    Caches = {c1, c2}
    Keys = {k1, k2}
    Objects = {o1, o2}
    Factories <- MCFactories
    None = None
SPECIFICATION Spec
SYMMETRY Symmetry
INVARIANTS
    TypeOK
    OneObject
    NoCircularWait
CHECK_DEADLOCK FALSE
