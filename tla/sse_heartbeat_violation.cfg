SPECIFICATION SignedInSpec
CONSTANTS
    Token = {t1}
    Process = {n1}
    MaxRequests = 0
    MaxCrashes = 0
    None = None
    Node = {n1}
    User = {u1}
    Stream = {s1, s2}
    MaxEvents = 1
    MaxFaults = 0
    Null = Null
INVARIANT
    OpenStreamsAreKeptAlive
