\* Two ports of one process on one device, five descriptors, three conditions.
CONSTANTS
    Ports = {p1, p2}
    Frames <- FastOrSlow
    Conditions <- SomeConditions
    Found <- Terminal
    MaxFd = 4
    Careless = {}
SPECIFICATION Spec
SYMMETRY Symmetry
INVARIANTS
    TypeOK
    OpenedHasFd
    SettingsPutBack
    WorksAsAsked
    BitsShowAnswers
