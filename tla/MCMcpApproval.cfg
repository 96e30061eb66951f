SPECIFICATION Spec
CONSTANTS
    Server = {s1, s2}
    Admin = {a1, a2}
    Request = {r1, r2}
    Tool = {"list_hosts", "check_service", "execute_command"}
    MaxRestart = 1
    None = None
INVARIANTS
    TypeOK
    QueuedOnce
    OnlyApprovedRun
    PageStaysTrue
PROPERTIES
    ApprovedIsCarriedOut
CHECK_DEADLOCK TRUE
