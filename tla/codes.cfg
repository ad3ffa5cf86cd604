SPECIFICATION Spec
CONSTANTS
    Process = {p1, p2}
    MaxFailures = 2
    RateLimit = 1
    OwnLimit = 2
    Attempts = 2
    MaxRequests = 3
    MaxCrashes = 1
    MaxEras = 1
SYMMETRY Symmetry
INVARIANTS
    GuessesBounded
    CountersExpire
    SuppressedIsSpared
CHECK_DEADLOCK FALSE
