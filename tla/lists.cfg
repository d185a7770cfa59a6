SPECIFICATION Spec
CONSTANTS
    NSeg = 4
    EmergencyCount = 1
    Cleaners = {c1, c2}
    App = App
    None = None
    MaxCrashes = 1
    c1 = c1
    c2 = c2
SYMMETRY Symmetry
CHECK_DEADLOCK FALSE
INVARIANTS
    ListsTypeOK
    SettledWhole
    NeverLost
    AcceptedWhole
