SPECIFICATION RetrySpec
CONSTANTS
    p1 = p1
    p2 = p2
    Procs = {p1, p2}
    Clients = {1, 2}
    Requests = {"connect"}
    Faults = {"blip", "crash", "pairError", "outdated"}
    MaxFaults = 1
    MaxRetries = 2
    Alone = {"connect"}
    MaxPairings = 1
INVARIANTS OnlineHasSettings
PROPERTIES ConnectRecovers
CHECK_DEADLOCK FALSE
