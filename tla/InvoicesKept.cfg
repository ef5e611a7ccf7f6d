SPECIFICATION Spec
CONSTANTS
    Invs = {i1, i2}
    Calls = {c1, c2}
    None = None
    MaxNumber = 3
    MaxRequests = 3
    MaxFaults = 1
SYMMETRY Symmetry
CHECK_DEADLOCK FALSE
INVARIANTS
    TypeOK
    JobMailsOnce
    NumbersAgain
PROPERTIES
    PaidLostOnlyByLateSave
    CutOnlyDebtors
