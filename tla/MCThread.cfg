\* A careful owner: any sequence of calls with their preconditions kept.
CONSTANTS
    Runnables = {r1, r2}
    OSThreads = {t1, t2}
    Null = Null
    Careless = {}
    OK = "OK"
    FAILURE = "FAILURE"
    NO_RESOURCE = "NO_RESOURCE"
SPECIFICATION FairSpec
INVARIANTS
    TypeOK
    NoFault
    Attached
    StartedIsJoinable
    RunnableExists
PROPERTY StopEndsJoin
