\* The documented use, one writer and one reader, plus one more caller; no clear.
CONSTANTS
    Callers = {c1, c2}
    Readers = {r1}
    Ids = {s1}
    Ops = {"update", "cancel"}
    Free = Free
    NoSignal = NoSignal
    CANCELED = CANCELED
    TIMEOUT = TIMEOUT
SPECIFICATION FairSpec
PROPERTIES
    CallsReturn
    TimedWaitReturns
    WaitReturns
