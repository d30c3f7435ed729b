SPECIFICATION LiveSpec
CONSTANTS
    p1 = p1
    p2 = p2
    Procs = {p1}
    Clients = {1, 2, 3}
    Requests = {"connect", "call"}
    Faults = {"blip"}
    MaxFaults = 1
    MaxRetries = 2
    Alone = {}
    MaxPairings = 1
PROPERTIES ReconnectsAfterBlip
CHECK_DEADLOCK FALSE
