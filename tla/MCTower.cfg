\* Intervals in seconds, two cycles, events dispatched by hand at any time.
CONSTANTS
    Interval <- Seconds
    MaxAge = 4
    CountLimit = 2
    Careless = {}
SPECIFICATION FairSpec
INVARIANTS
    TypeOK
    LampsShowState
    LoopCanGoOn
PROPERTIES
    LitItsTime
    LoopEnds
