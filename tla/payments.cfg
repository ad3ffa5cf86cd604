SPECIFICATION Spec
CONSTANTS
    u1 = u1
    o1 = o1
    o2 = o2
    User = {u1}
    Order = {o1, o2}
    Buyer <- OneBuyer
    Days <- ShortAndLong
    Process = {p1, p2}
    MaxTime = 2
    MaxDate = 2
    MaxAdmin = 2
    MaxFaults = 1
    None = None
INVARIANTS
    TypeOK
    OncePerOrder
    PremiumIsBacked
    PaidIsHonoured
PROPERTIES
    PaidIsActivated
