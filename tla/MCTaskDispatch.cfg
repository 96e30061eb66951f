SPECIFICATION Spec
CONSTANTS
    MaxTasks = 2
    Slot = {h1, h2}
    None = None
INVARIANTS
    ResultIsReal
PROPERTIES
    ImplementsQueue
    CleanCancelIsFinal
    PendingIsTaken
CHECK_DEADLOCK TRUE
