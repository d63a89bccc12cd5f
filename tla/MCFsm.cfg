\* Three states, two events beside stay and a void one, dispatches two deep.
CONSTANTS
    States = {a, b, c}
    Events <- SomeEvents
    Null = Null
    Careless = {}
    MaxDepth = 2
SPECIFICATION Spec
SYMMETRY Symmetry
INVARIANTS
    TypeOK
    RunningStateExists
    InsideCurrent
