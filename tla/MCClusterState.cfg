SPECIFICATION Spec
CONSTANTS
    Server = {1, 2}
    StaticNodes = {1, 2}
    DeadTicks = 2
    MaxCrash = 2
    MaxAdmin = 2
INVARIANTS
    DeadLeaderReplaced
    TwoLeadOnlyInSilence
PROPERTY LeadershipConverges
CHECK_DEADLOCK TRUE
