SPECIFICATION SignedInSpec
CONSTANTS
    Token = {t1, t2, t3, t4}
    Process = {n1, n2}
    MaxRequests = 5
    MaxCrashes = 1
    None = None
    Node = {n1, n2}
    User = {u1, u2}
    Stream = {s1, s2}
    MaxEvents = 2
    MaxFaults = 2
    Null = Null
SYMMETRY Symmetry
INVARIANTS
    SessionsEnd
    NobodyElseEndsIt
    OneOrder
    NothingSkipped
