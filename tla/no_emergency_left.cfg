SPECIFICATION Spec
CONSTANTS
    NSeg = 5
    EmergencyCount = 1
    SegSize = 6
    SegHdr = 4
    Cleaners = {c1, c2}
    Lens = {1}
    MaxId = 4
    MaxWrites = 4
    WithIds = {}
    UpdIds = {}
    FreeIds = {}
    SizeMod = 64
    CountMod = 10
    None = None
    App = App
    c1 = c1
    c2 = c2
SYMMETRY Symmetry
CHECK_DEADLOCK FALSE
INVARIANTS
    NeverStuck
