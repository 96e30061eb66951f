SPECIFICATION RemoteSpec
CONSTANTS
    Req = {r1, r2}
    r1 = r1
    r2 = r2
    Offered <- OfferedValue
    q = q
    c = c
    v = v
    Guest = {q, c, v}
    Kind <- KindValue
    Node = {n1, n2}
    None = None
    Instance = {i1, i2}
    Slot = {h1, h2}
    Key = {k1, k2}
    Value = {val}
    Kinds = {"feishu", "slack"}
    Masked = Masked
    Empty = Empty
    Absent = Absent
SYMMETRY Symmetry
INVARIANTS
    TypeOK
    AuditTrailHonest
    SessionsReturned
    StillGuestsListed
    PluginsTypeOK
    KeysAgree
    DispatchComplete
CHECK_DEADLOCK TRUE
