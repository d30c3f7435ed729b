SPECIFICATION Spec
CONSTANTS
    c1 = c1
    c2 = c2
    k1 = k1
    k2 = k2
    k3 = k3
    Clients = {c1, c2}
    Keys = {k1, k2, k3}
    MaxEntries = 2
    Lifetime = 2
    MaxTime = 4
INVARIANTS TypeOK
PROPERTIES EvictedLast
CHECK_DEADLOCK FALSE
