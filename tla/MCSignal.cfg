\* Two callers and two readers, all calls: the interleavings of the statements.
CONSTANTS
    Callers = {c1, c2}
    Readers = {r1, r2}
    Ids = {s1, s2}
    Ops = {"update", "cancel", "clear"}
    Free = Free
    NoSignal = NoSignal
    CANCELED = CANCELED
    TIMEOUT = TIMEOUT
SPECIFICATION Spec
SYMMETRY Symmetry
INVARIANTS
    TypeOK
    MutualExclusion
    NoLostWakeup
PROPERTY ImplementsMailbox
