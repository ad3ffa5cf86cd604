SPECIFICATION Spec
CONSTANTS
    Device = {d1, d2}
    Claimed = {d1, d2}
    MessageId = {m1}
    Handler = {h1}
    Detector = {i1, i2}
    Timeout = 1
    TxTimeout = 0
    MessageIndex = TRUE
    MaxTime = 3
    MaxDeliveries = 2
    MaxFailures = 0
    None = None
SYMMETRY Symmetry
INVARIANT
    OutageLoggedOnce
