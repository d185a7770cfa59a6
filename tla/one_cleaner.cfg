SPECIFICATION FairSpec
CONSTANTS
    NSeg = 3
    EmergencyCount = 1
    SegSize = 8
    SegHdr = 4
    Cleaners = {c1}
    Lens = {1, 2}
    MaxId = 4
    MaxWrites = 5
    WithIds = {}
    UpdIds = {1}
    FreeIds = {2}
    SizeMod = 64
    CountMod = 16
    None = None
    App = App
    c1 = c1
CHECK_DEADLOCK FALSE
INVARIANTS
    RacesNeedTwo
    NeverStuck
PROPERTIES
    EndsStayClosed
    ImplementsStore
    CallsReturn
    DeadReclaimed
