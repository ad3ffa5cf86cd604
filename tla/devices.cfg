SPECIFICATION DevicesSpec
CONSTANTS
    Device = {d1}
    None = None
    User = {u1, u2}
    Name = {a, b}
    Incomplete = {u2}
    Request = {r1, r2}
    MaxRequests = 5
    MaxFaults = 1
    p1 = p1
    p2 = p2
    p3 = p3
    n1 = n1
    n2 = n2
    Group = {g1, g2}
    Process = {p1, p2, p3}
    Node = {n1, n2}
    NodeOf <- TwoOfOneNode
    MaxCalls = 5
SYMMETRY Symmetry
INVARIANTS
    OneOwner
    OwnerHasMeta
    FreeUnlessForced
    EvictionIsEnough
    ThresholdsExclusive
PROPERTY
    AnswerIsHeard
