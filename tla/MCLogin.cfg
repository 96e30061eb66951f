SPECIFICATION Spec
CONSTANTS
    Slot = {h1, h2}
    Max = 2
    Lockout = 1
    Clean = 1
    RateMax = 3
    RateWindow = 1
    Expire = 1
    None = None
INVARIANTS
    TypeOK
    BoundedGuesses
PROPERTIES
    LockoutLasts
    RightPasswordGetsIn
    ChangesTakeEffect
CHECK_DEADLOCK TRUE
