SPECIFICATION Spec
CONSTANTS
    NSeg = 5
    EmergencyCount = 1
    SegSize = 6
    SegHdr = 2
    Cleaners = {c1, c2}
    Lens = {1}
    MaxId = 4
    MaxWrites = 5
    WithIds = {4}
    UpdIds = {1}
    FreeIds = {2}
    SizeMod = 64
    CountMod = 16
    None = None
    App = App
    c1 = c1
    c2 = c2
SYMMETRY Symmetry
CHECK_DEADLOCK FALSE
INVARIANTS
    UsedSegsReleased
