SPECIFICATION Spec

CONSTANTS
    t1 = t1
    t2 = t2
    Threads = {t1, t2}
    MaxLogins = 3

SYMMETRY Symmetry

INVARIANTS
    RenewedWhenAlone
    NoHalfSession
    NoOrphan
