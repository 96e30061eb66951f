SPECIFICATION Spec
CONSTANTS
    Evaluator = {e1, e2}
    Metric = {"cpu"}
    Value = {0, 2}
    Level = {"warning"}
    Rule <- MCRule
    Window = {1}
    DefaultWindow = 2
    MaxSilence = 1
    AgeCap = 2
    MaxAdmin = 1
    None = None
PROPERTIES
    RepeatsOnlyTogether
    PersistentIsNotified
CHECK_DEADLOCK TRUE
