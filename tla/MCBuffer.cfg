\* Careful callers: every sequence of calls on two buffers.
CONSTANTS
    Objects = {a, b}
    Blocks = {m1, m2, m3}
    Null = Null
    Items = {"-", "x"}
    Blank = "-"
    MaxRooms = 3
    Careless = {}
    Args <- MCArgs
    SizeMod = 4
    MaxReads = 2
    OK = "OK"
    OUT_OF_RANGE = "OUT_OF_RANGE"
    UNDER_FLOW = "UNDER_FLOW"
    THROW = "THROW"
SPECIFICATION Spec
SYMMETRY Symmetry
INVARIANTS
    TypeOK
    NoFault
    Owned
PROPERTIES
    ImplementsItemBuffer
    PartIsExact
