\* Callers of extract need not see to the sum of its arguments.
CONSTANTS
    Objects = {a, b}
    Blocks = {m1, m2, m3}
    Null = Null
    Items = {"-", "x"}
    Blank = "-"
    MaxRooms = 3
    Careless = {"extract"}
    Args <- MCArgs
    SizeMod = 4
    MaxReads = 4
    OK = "OK"
    OUT_OF_RANGE = "OUT_OF_RANGE"
    UNDER_FLOW = "UNDER_FLOW"
    THROW = "THROW"
SPECIFICATION Spec
SYMMETRY Symmetry
PROPERTY ExtractChecksLength
