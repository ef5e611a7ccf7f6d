SPECIFICATION Spec
CONSTANTS
    Slots = {s1, s2}
    Calls = {c1, c2}
    Ids = {1, 2, 3, 4, 5, 6}
    None = None
    MaxRequests = 4
    MaxFaults = 2
SYMMETRY Symmetry
CHECK_DEADLOCK FALSE
INVARIANTS
    TypeOK
    ShownAsOnOlt
    SuspensionShown
PROPERTIES
    SyncReconciles
