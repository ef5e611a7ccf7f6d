SPECIFICATION Spec
CONSTANTS
    Slots = {s1}
    Calls = {c1}
    Ids = {1, 2, 3}
    None = None
    MaxRequests = 4
    MaxFaults = 0
CHECK_DEADLOCK FALSE
PROPERTIES
    PurgedAreGone
