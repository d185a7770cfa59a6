SPECIFICATION Spec
CONSTANTS
    NSeg = 5
    EmergencyCount = 1
    SegSize = 6
    SegHdr = 4
    Cleaners = {c1, c2}
    Lens = {1}
    MaxId = 4
    MaxWrites = 4
    WithIds = {}
    UpdIds = {}
    FreeIds = {1}
    SizeMod = 64
    CountMod = 16
    None = None
    App = App
    c1 = c1
    c2 = c2
CHECK_DEADLOCK FALSE
INVARIANTS
    ListsIntact
