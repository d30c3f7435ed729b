SPECIFICATION LiveSpec
CONSTANTS
    QueueSize = 1
    MaxNodes = 3
    MaxConns = 3
INVARIANTS TypeOK NodeInOnePlace InOrder
PROPERTIES EventsDispatched
CHECK_DEADLOCK FALSE
