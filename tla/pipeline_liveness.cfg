SPECIFICATION FairSpec
CONSTANTS
    Device = {d1, d2}
    Claimed = {d1}
    MessageId = {m1}
    Handler = {h1}
    Detector = {i1, i2}
    Timeout = 1
    TxTimeout = 0
    MessageIndex = FALSE
    MaxTime = 3
    MaxDeliveries = 2
    MaxFailures = 0
    None = None
INVARIANTS
    AnnouncedAreMarked
    MarkedAreListed
    IngestedOnce
PROPERTIES
    SilentGoesOffline
    OutageIsLogged
