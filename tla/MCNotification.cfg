\* A careful owner; two Notifications, three receivers, two threads.
CONSTANTS
    Notifications = {n1, n2}
    Receivers = {r1, r2, r3}
    Threads = {t1, t2}
    Null = Null
    Gone = Gone
    Results = {OK, FAILURE}
    FAILURE = FAILURE
    Careless = {}
SPECIFICATION Spec
SYMMETRY Symmetry
INVARIANTS
    TypeOK
    NoFault
    Delivered
