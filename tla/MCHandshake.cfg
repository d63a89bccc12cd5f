\* The message of the example, read up to its fifteen bytes at a time, in
\* eight rounds; the threads end.
CONSTANTS
    LOOP_MAX = 8
    Length = 15
    Capacity = 15
SPECIFICATION FairSpec
INVARIANT TypeOK
PROPERTIES
    ImplementsHandOver
    RoundsEnd
CHECK_DEADLOCK FALSE
