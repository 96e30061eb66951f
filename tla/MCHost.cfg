SPECIFICATION HostSpec
CONSTANTS
    N = 2
    Window = 2
    None = None
    AssetsEvery = 3
    MetricsEvery = 2
    MaxRound = 2
    r1 = r1
    r2 = r2
    r3 = r3
    old = old
    Req = {r1, r2, r3}
    Path = {p1, p2}
    Old = {old}
    Blocks <- BlocksValue
    Hole = Hole
    Nil = Nil
INVARIANTS
    BinarySurvives
    FileTypeOK
    TransfersIntact
PROPERTIES
    HealthyClusterRotates
CHECK_DEADLOCK TRUE
