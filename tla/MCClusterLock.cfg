SPECIFICATION Spec
CONSTANTS
    Goroutine = {"info", "leader", "nodes", "ping", "heartbeat", "loader"}
    None = None
PROPERTY InfoAnswered
CHECK_DEADLOCK FALSE
