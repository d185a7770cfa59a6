SPECIFICATION Spec
CONSTANTS
    NSeg = 5
    EmergencyCount = 1
    SegSize = 6
    SegHdr = 2
    Cleaners = {c1}
    Lens = {1}
    MaxId = 4
    MaxWrites = 6
    WithIds = {4}
    UpdIds = {1}
    FreeIds = {1, 2}
    SizeMod = 64
    CountMod = 16
    None = None
    App = App
    c1 = c1
CHECK_DEADLOCK FALSE
INVARIANTS
    VersionFound
