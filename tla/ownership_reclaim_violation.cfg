SPECIFICATION DevicesSpec
CONSTANTS
    Device = {d1}
    None = None
    User = {u1, u2}
    Name = {a}
    Incomplete = {}
    Request = {r1}
    MaxRequests = 3
    MaxFaults = 0
    p1 = p1
    p2 = p2
    p3 = p3
    n1 = n1
    n2 = n2
    Group = {g1}
    Process = {p1, p2, p3}
    Node = {n1, n2}
    NodeOf <- TwoOfOneNode
    MaxCalls = 0
PROPERTY
    RefusedOnlyIfClaimed
