SPECIFICATION LiveSpec
CONSTANTS
    p1 = p1
    p2 = p2
    Procs = {p1, p2}
    Clients = {1, 2}
    Requests = {"connect", "logout"}
    Faults = {"pairError"}
    MaxFaults = 1
    MaxRetries = 2
    Alone = {"connect"}
    MaxPairings = 1
PROPERTIES RequestsReturn QRSessionEnds
CHECK_DEADLOCK FALSE
