SPECIFICATION RestartSpec
CONSTANTS
    NSeg = 3
    EmergencyCount = 1
    SegSize = 6
    SegHdr = 2
    Cleaners = {1}
    Lens = {1, 2}
    MaxId = 4
    MaxWrites = 5
    WithIds = {}
    UpdIds = {1}
    FreeIds = {2}
    SizeMod = 64
    CountMod = 16
    MaxStarts = 1
    MaxCrashes = 0
    None = None
    App = App
CHECK_DEADLOCK FALSE
INVARIANTS
    CopiesBehind
