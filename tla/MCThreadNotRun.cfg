\* A Thread may be joined or destroyed that was never started.
CONSTANTS
    Runnables = {r1, r2}
    OSThreads = {t1, t2}
    Null = Null
    Careless = {"never_started"}
    OK = "OK"
    FAILURE = "FAILURE"
    NO_RESOURCE = "NO_RESOURCE"
SPECIFICATION Spec
INVARIANT NotRunIsFailure
