SPECIFICATION RestartFairSpec
CONSTANTS
    NSeg = 3
    EmergencyCount = 1
    SegSize = 6
    SegHdr = 4
    Cleaners = {1, 2}
    Lens = {1}
    MaxId = 3
    MaxWrites = 4
    WithIds = {}
    UpdIds = {1}
    FreeIds = {}
    SizeMod = 64
    CountMod = 8
    MaxStarts = 1
    MaxCrashes = 0
    None = None
    App = App
CHECK_DEADLOCK FALSE
INVARIANTS
    AcceptedOwners
PROPERTIES
    CloseReturns
