SPECIFICATION Spec
CONSTANTS
    Device = {d1}
    Claimed = {d1}
    MessageId = {m1, m2, m3}
    Handler = {h1, h2}
    Detector = {i1, i2}
    Timeout = 1
    TxTimeout = 1
    MessageIndex = TRUE
    MaxTime = 2
    MaxDeliveries = 3
    MaxFailures = 1
    None = None
SYMMETRY Symmetry
INVARIANTS
    TypeOK
    HeartbeatCoversReadings
    StatusMatchesHeartbeat
    IngestedOnce
    DeletionStopsIntake
PROPERTIES
    OfflineOnlyWhenSilent
