SPECIFICATION FeedSpec
CONSTANTS
    co2 = co2
    pm25 = pm25
    noise = noise
    Metric = {co2, pm25, noise}
    DeviceOf <- Devices
    Label = {noise, None}
    Cap = 3
    LastPage = 2
    Window = 1
    Take = {1, 2}
    LinkTake = {1, 3}
    MaxTime = 2
    MaxTicks = 2
    MaxRows = 4
    MaxAlerts = 2
    MaxNotices = 3
    None = None
SYMMETRY Symmetry
INVARIANTS
    HighlightIsShown
    WalkMissesNothing
PROPERTY JoinFindsPartner
