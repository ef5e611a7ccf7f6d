SPECIFICATION Spec
CONSTANTS
    o1 = o1
    o2 = o2
    c1 = c1
    c2 = c2
    w1 = w1
    w2 = w2
    m1 = m1
    Onus = {o1, o2}
    Calls = {c1, c2}
    Pools = {w1, w2, m1}
    Purpose <- MCPurpose
    Ids = {1, 2, 3, 4, 5, 6}
    MaxHosts = 2
    Attempts = 2
    None = None
    Unborn = Unborn
    Gone = Gone
    MaxRequests = 3
    MaxFaults = 1
SYMMETRY Symmetry
CHECK_DEADLOCK FALSE
INVARIANTS
    TypeOK
    BooksAgree
    AddressOfOne
    LostTriesAreOthersWins
