SPECIFICATION MetricsSpec
CONSTANTS
    Runner = {c1, c2}
    RawRetention = 2
    DownsampleAt = 1
    Interval = 2
    Limit = 2
    MaxTime = 4
    MaxFaults = 1
    Node = {n1, n2}
    Collecting = {n1}
    Channel = {ch1, ch2}
    Reliable = {ch1}
    Type = {"ssh", "pve"}
    FailThreshold = 2
    ActiveWindow = 3
    OfflineAfter = 1
    MaxAdmin = 4
    None = None
INVARIANTS
    CollectorTypeOK
    OnlineIsFresh
    NoSampleLost
    CopiesBounded
    QueryWindowIntact
PROPERTIES
    DisabledOnlyAfterFailures
    WorkingChannelWins
CHECK_DEADLOCK TRUE
