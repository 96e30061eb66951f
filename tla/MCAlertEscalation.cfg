SPECIFICATION EscSpec
CONSTANTS
    Server = {n1, n2}
    Id = {i1, i2}
    TriggerLevel = {"warning"}
    Row <- MCRow
    BatchLimit = 1
    OldAge = 1
    MaxFault = 1
    MaxChange = 1
    Nil = Nil
PROPERTIES
    OncePerServer
    NoneVanishes
    EveryAlertReached
CHECK_DEADLOCK TRUE
