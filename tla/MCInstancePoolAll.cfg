SPECIFICATION Spec
CONSTANTS
    p1 = p1
    p2 = p2
    Procs = {p1, p2}
    Clients = {1, 2}
    Requests = {"connect", "pair", "disconnect", "logout", "delete", "call", "send"}
    Faults = {"blip", "unlink", "crash", "pairError", "outdated", "sendError"}
    MaxFaults = 1
    MaxRetries = 2
    Alone = {"connect", "pair", "disconnect", "logout", "delete", "call", "send"}
    MaxPairings = 1
SYMMETRY ProcSymmetry
VIEW LiveState
INVARIANTS TypeOK RowPointsToDevice
CHECK_DEADLOCK FALSE
